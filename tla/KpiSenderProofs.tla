--------------------------- MODULE KpiSenderProofs ---------------------------
(***************************************************************************)
(* Safety of the KPI sink for every pipeline: types, the lock discipline   *)
(* of json_kpi_map and the order of tear-down; no KPI reported twice, lost *)
(* or mislabelled; the refinement of KpiReport; and, under the hypotheses  *)
(* they need, the start times and the single message of a frame.           *)
(***************************************************************************)
EXTENDS KpiSender, FiniteSetTheorems, TLAPS

(* The graph thread converts a KPI that plugin_kpi_map holds.              *)
CurKnown == gpc \in {"lock", "add", "publish", "unlock"} => cur \in DOMAIN kpis

(* mutex_json_kpi is held exactly while a thread is in its section.        *)
LockHeld ==
  /\ mutex = "graph" <=> gpc \in {"add", "publish", "unlock"}
  /\ mutex = "observer" <=> opc = "scan"

(* sink_finalize stops, joins, disconnects and frees, in this order.       *)
TearDownOrder ==
  /\ opc = "exit" => ~running
  /\ gpc \in {"join", "disconnect", "free", "done"} => ~running
  /\ gpc \in {"disconnect", "free", "done"} => opc = "exit"
  /\ gpc \in {"free", "done"} => ~connected
  /\ freed => gpc = "done"

Inv == TypeOK /\ CurKnown /\ LockHeld /\ TearDownOrder /\ PublishedListExists

-----------------------------------------------------------------------------
LEMMA KeyTypes ==
  ASSUME NEW ev \in Events
  PROVE  /\ ev.el \in Elements /\ ev.fr \in Frames /\ ev.stamp \in Stamps
         /\ KpiKey(ev) \in KpiKeys
         /\ <<ev.el, NoFrame>> \in KpiKeys
         /\ TraceStream(ev) \in Streams \cup {NoStream}
         /\ CreateFromTrace(ev) \in PluginKpi
<1>1. ev.el \in Elements /\ ev.fr \in Frames /\ ev.stamp \in Stamps
  BY DEF Events
<1>2. KpiKey(ev) \in KpiKeys /\ <<ev.el, NoFrame>> \in KpiKeys
  BY <1>1 DEF KpiKey, KpiKeys
<1>3. TraceStream(ev) \in Streams \cup {NoStream}
  BY <1>1, KpiConstants DEF TraceStream, KpiConstants
<1>4. [s \in Stamps |-> IF s = ev.stamp THEN ev.fr ELSE 0] \in [Stamps -> 0 .. NFrames]
  BY <1>1, KpiConstants DEF Frames, KpiConstants
<1>5. CreateFromTrace(ev) \in PluginKpi
  BY <1>3, <1>4 DEF CreateFromTrace, PluginKpi
<1> QED BY <1>1, <1>2, <1>3, <1>5

LEMMA MergeType ==
  ASSUME NEW ev \in Events, NEW p \in PluginKpi
  PROVE  MergeTrace(p, ev) \in PluginKpi
<1>1. ev.fr \in 0 .. NFrames /\ ev.stamp \in Stamps
  BY KpiConstants DEF Events, Frames, KpiConstants
<1>2. p.at \in [Stamps -> 0 .. NFrames] /\ p.named \in BOOLEAN /\ p.stream \in Streams \cup {NoStream}
  BY DEF PluginKpi
<1>3. [p.at EXCEPT ![ev.stamp] = ev.fr] \in [Stamps -> 0 .. NFrames]
  BY <1>1, <1>2
<1> QED BY <1>2, <1>3, KeyTypes DEF MergeTrace, PluginKpi

(* The list of the KPI under conversion, and the node made from it.        *)
LEMMA CurTypes ==
  ASSUME TypeOK, cur \in DOMAIN kpis
  PROVE  /\ CurList \in ListKeys
         /\ [el |-> cur[1], start |-> kpis[cur].at["plugin_start"],
             named |-> kpis[cur].named] \in Node
<1>1. cur \in KpiKeys /\ kpis[cur] \in PluginKpi
  BY DEF TypeOK
<1>2. cur[1] \in Elements /\ cur[2] \in Frames \cup {NoFrame}
  BY <1>1 DEF KpiKeys
<1>3. /\ kpis[cur].at["plugin_start"] \in 0 .. NFrames
      /\ kpis[cur].named \in BOOLEAN /\ kpis[cur].stream \in Streams \cup {NoStream}
  BY <1>1 DEF PluginKpi, Stamps
<1> QED BY <1>2, <1>3 DEF CurList, ListKeys, Node

LEMMA PublishType ==
  ASSUME TypeOK, NEW k \in ListKeys, Publish(k)
  PROVE  /\ lists' \in [ListKeys -> Seq(Node)]
         /\ age' \in [ListKeys -> 0 .. Threshold + 1]
         /\ sent' \in [ListKeys -> Seq(Seq(Node))]
<1>1. lists[k] \in Seq(Node) /\ sent[k] \in Seq(Seq(Node))
  BY DEF TypeOK
<1>2. Append(sent[k], lists[k]) \in Seq(Seq(Node))
  BY <1>1
<1>3. sent' \in [ListKeys -> Seq(Seq(Node))]
  BY <1>2 DEF TypeOK, Publish
<1>4. lists' \in [ListKeys -> Seq(Node)]
  BY DEF TypeOK, Publish, PopAll
<1>5. age' \in [ListKeys -> 0 .. Threshold + 1]
  BY KpiConstants DEF TypeOK, Publish, KpiConstants
<1> QED BY <1>3, <1>4, <1>5

-----------------------------------------------------------------------------
LEMMA TypeInit == Init => TypeOK
<1> SUFFICES ASSUME Init PROVE TypeOK
  OBVIOUS
<1>1. lists \in [ListKeys -> Seq(Node)] /\ sent \in [ListKeys -> Seq(Seq(Node))]
  BY DEF Init
<1>2. age \in [ListKeys -> 0 .. Threshold + 1] /\ commands \in 0 .. MaxCommands
  BY KpiConstants DEF Init, KpiConstants
<1>3. DOMAIN kpis = {}
  BY DEF Init
<1> QED BY <1>1, <1>2, <1>3 DEF Init, TypeOK

LEMMA ConsumeType ==
  ASSUME TypeOK, NEW ev \in Events, ConsumeEvent(ev)
  PROVE  TypeOK'
<1> DEFINE startKey == <<ev.el, NoFrame>>
           isEnd    == KindOf[ev.el] = "PCIe" /\ ev.stamp = "plugin_end"
           orphan   == isEnd /\ startKey \notin DOMAIN kpis
           kpi      == IF isEnd /\ ~orphan
                         THEN [Merged(ev) EXCEPT
                                 !.at["plugin_start"] = kpis[startKey].at["plugin_start"]]
                         ELSE Merged(ev)
<1>1. KpiKey(ev) \in KpiKeys /\ CreateFromTrace(ev) \in PluginKpi
  BY KeyTypes
<1>2. Merged(ev) \in PluginKpi
  <2>1. CASE KpiKey(ev) \in DOMAIN kpis
    <3>1. kpis[KpiKey(ev)] \in PluginKpi
      BY <2>1 DEF TypeOK
    <3> QED BY <2>1, <3>1, MergeType DEF Merged
  <2>2. CASE KpiKey(ev) \notin DOMAIN kpis
    BY <1>1, <2>2 DEF Merged
  <2> QED BY <2>1, <2>2
<1>3. kpi \in PluginKpi
  <2>1. CASE isEnd /\ ~orphan
    <3>1. kpis[startKey] \in PluginKpi
      BY <2>1 DEF TypeOK
    <3>2. kpis[startKey].at["plugin_start"] \in 0 .. NFrames
      BY <3>1 DEF PluginKpi, Stamps
    <3> QED BY <1>2, <2>1, <3>2 DEF PluginKpi
  <2>2. CASE ~(isEnd /\ ~orphan)
    BY <1>2, <2>2
  <2> QED BY <2>1, <2>2
<1>4. kpis' = Store(kpis, KpiKey(ev), kpi)
  BY DEF ConsumeEvent
<1>5. DOMAIN kpis' \subseteq KpiKeys /\ \A k \in DOMAIN kpis' : kpis'[k] \in PluginKpi
  BY <1>1, <1>3, <1>4 DEF Store, TypeOK
<1>6. gpc' \in {"lock", gpc} /\ cur' \in {KpiKey(ev), cur}
  BY DEF ConsumeEvent
<1>7. passed' \subseteq Events /\ missed' \subseteq passed'
  BY DEF ConsumeEvent, TypeOK
<1> QED BY <1>1, <1>5, <1>6, <1>7 DEF ConsumeEvent, TypeOK, sinkVars

LEMMA TypeStep == TypeOK /\ CurKnown /\ [Next]_vars => TypeOK'
<1> SUFFICES ASSUME TypeOK, CurKnown, [Next]_vars PROVE TypeOK'
  OBVIOUS
<1> USE KpiConstants DEF sinkVars, history
<1>1. ASSUME NEW command \in {"start-kpis", "stop-kpis"}, OnMessage(command) PROVE TypeOK'
  BY <1>1 DEF OnMessage, TypeOK, KpiConstants
<1>2. ASSUME NEW ev \in Events, MissEvent(ev) PROVE TypeOK'
  BY <1>2 DEF MissEvent, TypeOK
<1>3. ASSUME NEW ev \in Events, ConsumeEvent(ev) PROVE TypeOK'
  BY <1>3, ConsumeType
<1>4. CASE GraphLock
  BY <1>4 DEF GraphLock, TypeOK
<1>5. CASE AddNode
  <2> DEFINE node == [el |-> cur[1], start |-> kpis[cur].at["plugin_start"],
                      named |-> kpis[cur].named]
             list == Append(lists[CurList], node)
  <2>1. CurList \in ListKeys /\ node \in Node
    BY <1>5, CurTypes DEF AddNode, CurKnown
  <2>2. list \in Seq(Node)
    BY <2>1 DEF TypeOK
  <2>3. lists' = [lists EXCEPT ![CurList] = list] /\ age' = [age EXCEPT ![CurList] = 0]
    BY <1>5 DEF AddNode
  <2> HIDE DEF list
  <2>4. lists' \in [ListKeys -> Seq(Node)] /\ age' \in [ListKeys -> 0 .. Threshold + 1]
    BY <2>1, <2>2, <2>3 DEF TypeOK, KpiConstants
  <2>5. gpc' \in {"publish", "unlock"}
    BY <1>5 DEF AddNode
  <2> QED BY <1>5, <2>4, <2>5 DEF AddNode, TypeOK
<1>6. CASE GraphPublish
  <2>1. CurList \in ListKeys /\ Publish(CurList)
    BY <1>6, CurTypes DEF GraphPublish, CurKnown
  <2> QED BY <1>6, <2>1, PublishType DEF GraphPublish, TypeOK
<1>7. CASE GraphUnlock
  BY <1>7 DEF GraphUnlock, TypeOK, Remove
<1>8. CASE JoinObserver
  BY <1>8 DEF JoinObserver, TypeOK
<1>9. CASE Disconnect
  BY <1>9 DEF Disconnect, TypeOK
<1>10. CASE FreeSink
  BY <1>10 DEF FreeSink, TypeOK
<1>11. CASE ObserverCheck
  BY <1>11 DEF ObserverCheck, TypeOK
<1>12. CASE ObserverLock
  BY <1>12 DEF ObserverLock, TypeOK
<1>13. CASE ObserverUnlock
  BY <1>13 DEF ObserverUnlock, TypeOK
<1>14. ASSUME NEW k \in ListKeys, ObserverPublish(k) PROVE TypeOK'
  BY <1>14, PublishType DEF ObserverPublish, TypeOK
<1>15. CASE Tick
  <2>1. age' \in [ListKeys -> 0 .. Threshold + 1]
    BY <1>15 DEF Tick, TypeOK, KpiConstants
  <2> QED BY <1>15, <2>1 DEF Tick, TypeOK
<1>16. CASE Finalize
  BY <1>16 DEF Finalize, StopRunning, TypeOK
<1>17. CASE UNCHANGED vars
  BY <1>17 DEF vars, TypeOK
<1> QED
  BY <1>1, <1>2, <1>3, <1>4, <1>5, <1>6, <1>7, <1>8, <1>9, <1>10, <1>11, <1>12,
     <1>13, <1>14, <1>15, <1>16, <1>17 DEF Next, GraphStep, ObserverStep

-----------------------------------------------------------------------------
(* No other actor takes the KPI under conversion out of plugin_kpi_map.    *)
LEMMA CurKnownStep == TypeOK /\ CurKnown /\ [Next]_vars => CurKnown'
<1> SUFFICES ASSUME TypeOK, CurKnown, [Next]_vars PROVE CurKnown'
  OBVIOUS
<1> USE DEF CurKnown, sinkVars, history
<1>1. CASE \E ev \in Events : ConsumeEvent(ev)
  BY <1>1 DEF ConsumeEvent, Store
<1>2. CASE FreeSink \/ GraphUnlock
  BY <1>2 DEF FreeSink, GraphUnlock
<1>3. CASE GraphLock \/ AddNode \/ GraphPublish \/ JoinObserver \/ Disconnect
  BY <1>3 DEF GraphLock, AddNode, GraphPublish, JoinObserver, Disconnect
<1>4. CASE ObserverStep
  BY <1>4 DEF ObserverStep, ObserverCheck, ObserverLock, ObserverUnlock, ObserverPublish
<1>5. CASE \/ \E command \in {"start-kpis", "stop-kpis"} : OnMessage(command)
           \/ \E ev \in Events : MissEvent(ev)
           \/ Tick \/ Finalize \/ UNCHANGED vars
  BY <1>5 DEF OnMessage, MissEvent, Tick, Finalize, vars
<1> QED BY <1>1, <1>2, <1>3, <1>4, <1>5 DEF Next, GraphStep

LEMMA LockHeldStep == TypeOK /\ LockHeld /\ [Next]_vars => LockHeld'
<1> SUFFICES ASSUME TypeOK, LockHeld, [Next]_vars PROVE LockHeld'
  OBVIOUS
<1> USE DEF LockHeld, sinkVars, history
<1>1. CASE GraphLock
  BY <1>1 DEF GraphLock, LockFree
<1>2. CASE AddNode \/ GraphPublish
  BY <1>2 DEF AddNode, GraphPublish
<1>3. CASE GraphUnlock
  BY <1>3 DEF GraphUnlock
<1>4. CASE JoinObserver \/ Disconnect \/ FreeSink \/ Finalize
  BY <1>4 DEF JoinObserver, Disconnect, FreeSink, Finalize
<1>5. CASE ObserverLock
  BY <1>5 DEF ObserverLock, LockFree
<1>6. CASE ObserverCheck \/ ObserverUnlock \/ \E k \in ListKeys : ObserverPublish(k)
  BY <1>6 DEF ObserverCheck, ObserverUnlock, ObserverPublish
<1>7. CASE \E ev \in Events : ConsumeEvent(ev)
  BY <1>7 DEF ConsumeEvent
<1>8. CASE \/ \E command \in {"start-kpis", "stop-kpis"} : OnMessage(command)
           \/ \E ev \in Events : MissEvent(ev)
           \/ Tick \/ UNCHANGED vars
  BY <1>8 DEF OnMessage, MissEvent, Tick, vars
<1> QED
  BY <1>1, <1>2, <1>3, <1>4, <1>5, <1>6, <1>7, <1>8 DEF Next, GraphStep, ObserverStep

LEMMA TearDownStep == TearDownOrder /\ [Next]_vars => TearDownOrder'
<1> SUFFICES ASSUME TearDownOrder, [Next]_vars PROVE TearDownOrder'
  OBVIOUS
<1> USE DEF TearDownOrder, sinkVars, history
<1>1. CASE GraphLock \/ AddNode \/ GraphPublish \/ GraphUnlock
  BY <1>1 DEF GraphLock, AddNode, GraphPublish, GraphUnlock
<1>2. CASE JoinObserver \/ Disconnect \/ FreeSink
  BY <1>2 DEF JoinObserver, ObserverJoined, Disconnect, FreeSink
<1>3. CASE Finalize
  BY <1>3 DEF Finalize, StopRunning
<1>4. CASE ObserverStep
  BY <1>4 DEF ObserverStep, ObserverCheck, ObserverLock, ObserverUnlock, ObserverPublish
<1>5. CASE \E ev \in Events : ConsumeEvent(ev)
  BY <1>5 DEF ConsumeEvent
<1>6. CASE \/ \E command \in {"start-kpis", "stop-kpis"} : OnMessage(command)
           \/ \E ev \in Events : MissEvent(ev)
           \/ Tick \/ UNCHANGED vars
  BY <1>6 DEF OnMessage, MissEvent, Tick, vars
<1> QED BY <1>1, <1>2, <1>3, <1>4, <1>5, <1>6 DEF Next, GraphStep

(* A list leaves the table only with its publication, under the mutex, or  *)
(* with the sink, when both threads are past it.                           *)
LEMMA PublishedStep == Inv /\ [Next]_vars => PublishedListExists'
<1> SUFFICES ASSUME Inv, [Next]_vars PROVE PublishedListExists'
  OBVIOUS
<1> USE DEF PublishedListExists, CurList, sinkVars, history
<1>1. CASE AddNode
  <2> DEFINE node == [el |-> cur[1], start |-> kpis[cur].at["plugin_start"],
                      named |-> kpis[cur].named]
  <2>1. CurList \in ListKeys /\ node \in Node
    BY <1>1, CurTypes DEF AddNode, Inv, CurKnown
  <2>2. opc # "scan"
    BY <1>1 DEF AddNode, Inv, LockHeld
  <2>3. lists' = [lists EXCEPT ![CurList] = Append(lists[CurList], node)]
    BY <1>1 DEF AddNode
  <2>4. lists[CurList] \in Seq(Node) /\ lists \in [ListKeys -> Seq(Node)]
    BY <2>1 DEF Inv, TypeOK
  <2> HIDE DEF node, CurList
  <2>5. lists'[CurList] # <<>>
    <3>1. Len(Append(lists[CurList], node)) = Len(lists[CurList]) + 1
      BY <2>1, <2>4
    <3>2. Len(lists[CurList]) \in Nat
      BY <2>4
    <3> QED BY <2>1, <2>3, <2>4, <3>1, <3>2
  <2>6. UNCHANGED <<kpis, cur, opc>>
    BY <1>1 DEF AddNode
  <2>7. CurList' = CurList
    BY <2>6 DEF CurList
  <2> QED BY <2>2, <2>5, <2>6, <2>7
<1>2. CASE GraphPublish \/ GraphUnlock \/ GraphLock \/ JoinObserver \/ Disconnect
  <2>1. opc' = opc /\ expired' = expired
    BY <1>2 DEF GraphPublish, GraphUnlock, GraphLock, JoinObserver, Disconnect
  <2>2. gpc' # "publish"
    BY <1>2 DEF GraphPublish, GraphUnlock, GraphLock, JoinObserver, Disconnect
  <2>3. CASE GraphPublish
    BY <2>1, <2>2, <2>3 DEF GraphPublish, Inv, LockHeld
  <2>4. CASE ~GraphPublish
    BY <1>2, <2>1, <2>2, <2>4 DEF GraphUnlock, GraphLock, JoinObserver, Disconnect, Inv
  <2> QED BY <2>3, <2>4
<1>3. CASE FreeSink
  BY <1>3 DEF FreeSink, Inv, TearDownOrder
<1>4. CASE ObserverLock
  BY <1>4 DEF ObserverLock, IsStale, LockFree, Inv, LockHeld
<1>5. ASSUME NEW k \in ListKeys, ObserverPublish(k) PROVE PublishedListExists'
  <2>1. gpc # "publish" /\ gpc' = gpc
    BY <1>5 DEF ObserverPublish, Inv, LockHeld
  <2>2. expired' = expired \ {k} /\ expired \subseteq ListKeys /\ opc = "scan"
    BY <1>5 DEF ObserverPublish, Inv, TypeOK
  <2>3. \A j \in ListKeys \ {k} : lists'[j] = lists[j]
    BY <1>5 DEF ObserverPublish, Publish, Inv, TypeOK
  <2> QED BY <2>1, <2>2, <2>3 DEF Inv
<1>6. CASE ObserverCheck \/ ObserverUnlock
  BY <1>6 DEF ObserverCheck, ObserverUnlock, Inv
<1>7. ASSUME NEW ev \in Events, ConsumeEvent(ev) PROVE PublishedListExists'
  BY <1>7 DEF ConsumeEvent, Inv
<1>8. CASE \/ \E command \in {"start-kpis", "stop-kpis"} : OnMessage(command)
           \/ \E ev \in Events : MissEvent(ev)
           \/ Tick \/ Finalize \/ UNCHANGED vars
  BY <1>8 DEF OnMessage, MissEvent, Tick, Finalize, vars, Inv
<1> QED
  BY <1>1, <1>2, <1>3, <1>4, <1>5, <1>6, <1>7, <1>8 DEF Next, GraphStep, ObserverStep

-----------------------------------------------------------------------------
LEMMA InvInit == Init => Inv
<1> SUFFICES ASSUME Init PROVE Inv
  OBVIOUS
<1>1. TypeOK
  BY TypeInit
<1> QED BY <1>1 DEF Init, Inv, CurKnown, LockHeld, TearDownOrder, PublishedListExists

LEMMA InvStep == Inv /\ [Next]_vars => Inv'
<1> SUFFICES ASSUME Inv, [Next]_vars PROVE Inv'
  OBVIOUS
<1>1. TypeOK' /\ CurKnown'
  BY TypeStep, CurKnownStep DEF Inv
<1>2. LockHeld' /\ TearDownOrder'
  BY LockHeldStep, TearDownStep DEF Inv
<1>3. PublishedListExists'
  BY PublishedStep
<1> QED BY <1>1, <1>2, <1>3 DEF Inv

THEOREM Invariance == Spec => []Inv
<1>1. Init => Inv
  BY InvInit
<1>2. Inv /\ [Next]_vars => Inv'
  BY InvStep
<1> QED BY <1>1, <1>2, PTL DEF Spec

(* Every variable of the sink keeps its type, for any pipeline.            *)
THEOREM TypeCorrect == Spec => []TypeOK
<1>1. Inv => TypeOK
  BY DEF Inv
<1> QED BY <1>1, Invariance, PTL

(* publish_pipeline_kpi never looks up a list that is gone: the graph and  *)
(* the observer thread exclude each other from the test to the pop.        *)
THEOREM PublicationIsSafe == Spec => []PublishedListExists
<1>1. Inv => PublishedListExists
  BY DEF Inv
<1> QED BY <1>1, Invariance, PTL

(* sink_finalize frees the sink when no thread can reach it any more.      *)
THEOREM TearDownIsSafe == Spec => []NothingRunsAfterFree
<1>1. Inv => NothingRunsAfterFree
  BY DEF Inv, TypeOK, LockHeld, TearDownOrder, NothingRunsAfterFree
<1> QED BY <1>1, Invariance, PTL

-----------------------------------------------------------------------------
(* Why a KPI is never reported twice.                                      *)

Passed(e, f, s) == [el |-> e, fr |-> f, stamp |-> s] \in passed

InList(k, e, i)    == i \in DOMAIN lists[k] /\ lists[k][i].el = e
InSent(k, e, m, i) == /\ m \in DOMAIN sent[k] /\ i \in DOMAIN sent[k][m]
                      /\ sent[k][m][i].el = e
Seen(k, e) == (\E i : InList(k, e, i)) \/ (\E m, i : InSent(k, e, m, i))

(* plugin_kpi_map only holds timestamps of events that went by, under the  *)
(* frame and, once the plugin's END is in, the stream of those events.     *)
StoredKpis ==
  \A k \in DOMAIN kpis :
    /\ k[2] = NoFrame => KindOf[k[1]] = "PCIe" /\ kpis[k].at["plugin_end"] = 0
    /\ k[2] \in Frames =>
         /\ \A s \in StampsOf(k[1]) : kpis[k].at[s] # 0 => Passed(k[1], k[2], s)
         /\ kpis[k].stream \in {NoStream, StreamOf[k[1]]}
         /\ kpis[k].at["plugin_end"] # 0 => kpis[k].stream = StreamOf[k[1]]

(* A KPI in a list or a message used up all its events.                    *)
SeenPassed ==
  \A k \in ListKeys, e \in Elements :
    Seen(k, e) => /\ k[2] \in Frames /\ k[1] = StreamOf[e]
                  /\ \A s \in StampsOf(e) : Passed(e, k[2], s)

(* The KPI being converted is complete and was not reported before.        *)
CurIsNew ==
  /\ cur[2] \in Frames
  /\ kpis[cur].stream = StreamOf[cur[1]]
  /\ \A s \in StampsOf(cur[1]) : Passed(cur[1], cur[2], s)
  /\ ~Seen(<<StreamOf[cur[1]], cur[2]>>, cur[1])

CurComplete == gpc \in {"lock", "add"} => CurIsNew

Unique ==
  \A k \in ListKeys, e \in Elements :
    /\ \A i, j : InList(k, e, i) /\ InList(k, e, j) => i = j
    /\ \A m, i, n, j : InSent(k, e, m, i) /\ InSent(k, e, n, j) => m = n /\ i = j
    /\ \A i, m, j : ~(InList(k, e, i) /\ InSent(k, e, m, j))

OnceInv == Inv /\ StoredKpis /\ SeenPassed /\ CurComplete /\ Unique

(* What AddNode and Publish do to the sequences.                           *)
LEMMA AppendFacts ==
  ASSUME NEW S, NEW q \in Seq(S), NEW x \in S
  PROVE  /\ DOMAIN Append(q, x) = DOMAIN q \cup {Len(q) + 1}
         /\ Len(q) + 1 \notin DOMAIN q
         /\ \A i \in DOMAIN q : Append(q, x)[i] = q[i]
         /\ Append(q, x)[Len(q) + 1] = x
  OBVIOUS

LEMMA AddNodeFacts ==
  ASSUME Inv, AddNode
  PROVE  /\ CurList \in ListKeys
         /\ \A k \in ListKeys : \A e, i :
              InList(k, e, i)' <=>
                (InList(k, e, i) \/ (k = CurList /\ e = cur[1] /\ i = Len(lists[k]) + 1))
         /\ Len(lists[CurList]) + 1 \notin DOMAIN lists[CurList]
         /\ UNCHANGED <<sent, passed, kpis, cur>>
<1> DEFINE node == [el |-> cur[1], start |-> kpis[cur].at["plugin_start"],
                    named |-> kpis[cur].named]
<1>1. CurList \in ListKeys /\ node \in Node
  BY CurTypes DEF AddNode, Inv, CurKnown
<1>2. lists' = [lists EXCEPT ![CurList] = Append(lists[CurList], node)]
  BY DEF AddNode
<1>3. lists[CurList] \in Seq(Node) /\ lists \in [ListKeys -> Seq(Node)]
  BY <1>1 DEF Inv, TypeOK
<1>4. node.el = cur[1]
  OBVIOUS
<1> HIDE DEF node
<1>5. /\ DOMAIN lists'[CurList] = DOMAIN lists[CurList] \cup {Len(lists[CurList]) + 1}
      /\ Len(lists[CurList]) + 1 \notin DOMAIN lists[CurList]
      /\ \A i \in DOMAIN lists[CurList] : lists'[CurList][i] = lists[CurList][i]
      /\ lists'[CurList][Len(lists[CurList]) + 1] = node
  BY <1>1, <1>2, <1>3, AppendFacts
<1>6. \A k \in ListKeys : k # CurList => lists'[k] = lists[k]
  BY <1>2, <1>3
<1>7. UNCHANGED <<sent, passed, kpis, cur>>
  BY DEF AddNode, history
<1>8. ASSUME NEW k \in ListKeys, NEW e, NEW i
      PROVE  InList(k, e, i)' <=>
                (InList(k, e, i) \/ (k = CurList /\ e = cur[1] /\ i = Len(lists[k]) + 1))
  BY <1>4, <1>5, <1>6 DEF InList
<1> QED BY <1>1, <1>5, <1>7, <1>8

LEMMA PublishFacts ==
  ASSUME TypeOK, NEW j \in ListKeys, Publish(j)
  PROVE  /\ \A k \in ListKeys : \A e, i : InList(k, e, i)' <=> k # j /\ InList(k, e, i)
         /\ \A k \in ListKeys : \A e, m, i :
              InSent(k, e, m, i)' <=>
                (InSent(k, e, m, i) \/ (k = j /\ m = Len(sent[j]) + 1 /\ InList(j, e, i)))
         /\ Len(sent[j]) + 1 \notin DOMAIN sent[j]
<1>1. /\ lists \in [ListKeys -> Seq(Node)] /\ sent \in [ListKeys -> Seq(Seq(Node))]
      /\ lists[j] \in Seq(Node) /\ sent[j] \in Seq(Seq(Node))
  BY DEF TypeOK
<1>2. lists' = [lists EXCEPT ![j] = <<>>] /\ sent' = [sent EXCEPT ![j] = Append(sent[j], lists[j])]
  BY DEF Publish, PopAll
<1>3. /\ DOMAIN sent'[j] = DOMAIN sent[j] \cup {Len(sent[j]) + 1}
      /\ Len(sent[j]) + 1 \notin DOMAIN sent[j]
      /\ \A m \in DOMAIN sent[j] : sent'[j][m] = sent[j][m]
      /\ sent'[j][Len(sent[j]) + 1] = lists[j]
  BY <1>1, <1>2, AppendFacts
<1>4. \A k \in ListKeys : k # j => lists'[k] = lists[k] /\ sent'[k] = sent[k]
  BY <1>1, <1>2
<1>5. DOMAIN lists'[j] = {}
  BY <1>1, <1>2
<1>6. ASSUME NEW k \in ListKeys, NEW e, NEW i
      PROVE  InList(k, e, i)' <=> k # j /\ InList(k, e, i)
  BY <1>4, <1>5 DEF InList
<1>7. ASSUME NEW k \in ListKeys, NEW e, NEW m, NEW i
      PROVE  InSent(k, e, m, i)' <=>
                (InSent(k, e, m, i) \/ (k = j /\ m = Len(sent[j]) + 1 /\ InList(j, e, i)))
  BY <1>3, <1>4 DEF InSent, InList
<1> QED BY <1>3, <1>6, <1>7

(* Only AddNode, the publications and FreeSink write lists or sent.        *)
OtherStep ==
  \/ \E command \in {"start-kpis", "stop-kpis"} : OnMessage(command)
  \/ \E ev \in Events : MissEvent(ev) \/ ConsumeEvent(ev)
  \/ GraphLock \/ GraphUnlock \/ JoinObserver \/ Disconnect
  \/ ObserverCheck \/ ObserverLock \/ ObserverUnlock
  \/ Tick \/ Finalize \/ UNCHANGED vars

LEMMA StepCases ==
  ASSUME Inv, [Next]_vars
  PROVE  \/ AddNode
         \/ \E k \in ListKeys : Publish(k) /\ UNCHANGED <<kpis, passed, cur>>
                                /\ (gpc' = gpc \/ gpc' = "unlock")
         \/ FreeSink
         \/ OtherStep
<1>1. CASE GraphPublish
  <2>1. CurList \in ListKeys
    BY <1>1, CurTypes DEF GraphPublish, Inv, CurKnown
  <2> QED BY <1>1, <2>1 DEF GraphPublish, history
<1>2. CASE \E k \in ListKeys : ObserverPublish(k)
  BY <1>2 DEF ObserverPublish, history
<1> QED BY <1>1, <1>2 DEF Next, GraphStep, ObserverStep, OtherStep

LEMMA OtherUnchanged ==
  ASSUME OtherStep
  PROVE  UNCHANGED <<lists, sent>> /\ passed \subseteq passed'
  BY DEF OtherStep, OnMessage, MissEvent, ConsumeEvent, GraphLock, GraphUnlock,
         JoinObserver, Disconnect, ObserverCheck, ObserverLock, ObserverUnlock,
         Tick, Finalize, vars, sinkVars, history

LEMMA FreeFacts ==
  ASSUME FreeSink
  PROVE  /\ \A k \in ListKeys : \A e, i : ~InList(k, e, i)'
         /\ UNCHANGED <<sent, passed>> /\ gpc' = "done" /\ DOMAIN kpis' = {}
  BY DEF FreeSink, history, InList

LEMMA SeenPassedStep == Inv /\ SeenPassed /\ CurComplete /\ [Next]_vars => SeenPassed'
<1> SUFFICES ASSUME Inv, SeenPassed, CurComplete, [Next]_vars,
                    NEW k \in ListKeys, NEW e \in Elements, Seen(k, e)'
             PROVE  /\ k[2] \in Frames /\ k[1] = StreamOf[e]
                    /\ \A s \in StampsOf(e) : Passed(e, k[2], s)'
  BY DEF SeenPassed
<1>1. CASE AddNode
  <2>1. Seen(k, e) \/ (k = CurList /\ e = cur[1])
    BY <1>1, AddNodeFacts DEF Seen, InSent
  <2>2. passed' = passed /\ gpc = "add"
    BY <1>1, AddNodeFacts DEF AddNode
  <2> QED BY <2>1, <2>2 DEF SeenPassed, CurComplete, CurIsNew, CurList, Passed
<1>2. ASSUME NEW j \in ListKeys, Publish(j), UNCHANGED <<kpis, passed, cur>>
      PROVE  Seen(k, e) /\ passed \subseteq passed'
  BY <1>2, PublishFacts DEF Inv, Seen
<1>3. CASE FreeSink
  <2>1. Seen(k, e) /\ passed' = passed
    BY <1>3, FreeFacts DEF Seen, InSent
  <2> QED BY <2>1 DEF SeenPassed, Passed
<1>4. CASE OtherStep
  <2>1. Seen(k, e) /\ passed \subseteq passed'
    BY <1>4, OtherUnchanged DEF Seen, InSent, InList
  <2> QED BY <2>1 DEF SeenPassed, Passed
<1>5. ASSUME Seen(k, e), passed \subseteq passed'
      PROVE  /\ k[2] \in Frames /\ k[1] = StreamOf[e]
             /\ \A s \in StampsOf(e) : Passed(e, k[2], s)'
  BY <1>5 DEF SeenPassed, Passed
<1> QED BY <1>1, <1>2, <1>3, <1>4, <1>5, StepCases

LEMMA UniqueStep == Inv /\ CurComplete /\ Unique /\ [Next]_vars => Unique'
<1> SUFFICES ASSUME Inv, CurComplete, Unique, [Next]_vars,
                    NEW k \in ListKeys, NEW e \in Elements
             PROVE
               /\ \A i, j : InList(k, e, i)' /\ InList(k, e, j)' => i = j
               /\ \A m, i, n, j : InSent(k, e, m, i)' /\ InSent(k, e, n, j)' => m = n /\ i = j
               /\ \A i, m, j : ~(InList(k, e, i)' /\ InSent(k, e, m, j)')
  BY DEF Unique
<1>0. /\ \A i, j : InList(k, e, i) /\ InList(k, e, j) => i = j
      /\ \A m, i, n, j : InSent(k, e, m, i) /\ InSent(k, e, n, j) => m = n /\ i = j
      /\ \A i, m, j : ~(InList(k, e, i) /\ InSent(k, e, m, j))
  BY DEF Unique
<1>1. CASE AddNode
  <2>1. sent' = sent /\ gpc = "add"
    BY <1>1, AddNodeFacts DEF AddNode
  <2>2. \A m, i : InSent(k, e, m, i)' <=> InSent(k, e, m, i)
    BY <2>1 DEF InSent
  <2>3. CASE k = CurList /\ e = cur[1]
    <3>1. ~Seen(k, e)
      BY <2>1, <2>3 DEF CurComplete, CurIsNew, CurList
    <3> QED BY <1>1, <2>2, <2>3, <3>1, AddNodeFacts DEF Seen
  <2>4. CASE ~(k = CurList /\ e = cur[1])
    <3>1. \A i : InList(k, e, i)' <=> InList(k, e, i)
      BY <1>1, <2>4, AddNodeFacts
    <3> QED BY <1>0, <2>2, <3>1
  <2> QED BY <2>3, <2>4
<1>2. ASSUME NEW j \in ListKeys, Publish(j)
      PROVE  /\ \A i, h : InList(k, e, i)' /\ InList(k, e, h)' => i = h
             /\ \A m, i, n, h : InSent(k, e, m, i)' /\ InSent(k, e, n, h)' => m = n /\ i = h
             /\ \A i, m, h : ~(InList(k, e, i)' /\ InSent(k, e, m, h)')
  <2>1. /\ \A i : InList(k, e, i)' <=> k # j /\ InList(k, e, i)
        /\ \A m, i : InSent(k, e, m, i)' <=>
             (InSent(k, e, m, i) \/ (k = j /\ m = Len(sent[j]) + 1 /\ InList(j, e, i)))
        /\ Len(sent[j]) + 1 \notin DOMAIN sent[j]
    BY <1>2, PublishFacts DEF Inv
  <2> QED BY <1>0, <2>1
<1>3. CASE FreeSink
  <2>1. \A i : ~InList(k, e, i)'
    BY <1>3, FreeFacts
  <2>2. \A m, i : InSent(k, e, m, i)' <=> InSent(k, e, m, i)
    BY <1>3, FreeFacts DEF InSent
  <2> QED BY <1>0, <2>1, <2>2
<1>4. CASE OtherStep
  <2>1. /\ \A i : InList(k, e, i)' <=> InList(k, e, i)
        /\ \A m, i : InSent(k, e, m, i)' <=> InSent(k, e, m, i)
    BY <1>4, OtherUnchanged DEF InSent, InList
  <2> QED BY <1>0, <2>1
<1> QED BY <1>1, <1>2, <1>3, <1>4, StepCases

(* What consume() knows of the entry it has just merged an event into.     *)
LEMMA ConsumeFacts ==
  ASSUME Inv, StoredKpis, NEW ev \in Events, ConsumeEvent(ev)
  PROVE  LET key == KpiKey(ev)  p == kpis'[KpiKey(ev)] IN
         /\ key \in DOMAIN kpis' /\ key[1] = ev.el /\ ev.el \in Elements
         /\ key[2] = NoFrame => KindOf[ev.el] = "PCIe" /\ p.at["plugin_end"] = 0
         /\ key[2] # NoFrame =>
              /\ key[2] = ev.fr /\ key[2] \in Frames
              /\ \A s \in StampsOf(ev.el) : p.at[s] # 0 => Passed(ev.el, ev.fr, s)'
              /\ p.stream \in {NoStream, StreamOf[ev.el]}
              /\ p.at["plugin_end"] # 0 => p.stream = StreamOf[ev.el]
<1> DEFINE key      == KpiKey(ev)
           startKey == <<ev.el, NoFrame>>
           isEnd    == KindOf[ev.el] = "PCIe" /\ ev.stamp = "plugin_end"
           orphan   == isEnd /\ startKey \notin DOMAIN kpis
           kpi      == IF isEnd /\ ~orphan
                         THEN [Merged(ev) EXCEPT
                                 !.at["plugin_start"] = kpis[startKey].at["plugin_start"]]
                         ELSE Merged(ev)
<1>1. /\ ev.el \in Elements /\ ev.fr \in Frames /\ ev.stamp \in Stamps
      /\ ev.stamp \in StampsOf(ev.el)
      /\ ev = [el |-> ev.el, fr |-> ev.fr, stamp |-> ev.stamp]
  BY DEF Events
<1>2. kpis' = Store(kpis, key, kpi) /\ passed' = passed \cup {ev} /\ Due(ev)
  BY DEF ConsumeEvent
<1>3. key \in DOMAIN kpis' /\ kpis'[key] = kpi
  BY <1>2 DEF Store
<1>4. key[1] = ev.el /\ key[2] = (IF IsPcieStart(ev) THEN NoFrame ELSE ev.fr)
  BY DEF KpiKey
<1>5. NoFrame \notin Frames
  BY KpiConstants DEF NoFrame, Frames, KpiConstants
<1>6. key \in DOMAIN kpis =>
        /\ kpis[key].at \in [Stamps -> 0 .. NFrames]
        /\ MergeTrace(kpis[key], ev).at = [kpis[key].at EXCEPT ![ev.stamp] = ev.fr]
        /\ MergeTrace(kpis[key], ev).stream =
             (IF kpis[key].stream = NoStream THEN TraceStream(ev) ELSE kpis[key].stream)
  BY DEF Inv, TypeOK, PluginKpi, MergeTrace
<1>7. /\ CreateFromTrace(ev).at = [s \in Stamps |-> IF s = ev.stamp THEN ev.fr ELSE 0]
      /\ CreateFromTrace(ev).stream = TraceStream(ev)
  BY DEF CreateFromTrace
<1>8. Merged(ev) = (IF key \in DOMAIN kpis THEN MergeTrace(kpis[key], ev)
                                           ELSE CreateFromTrace(ev))
  BY DEF Merged
<1>9. /\ kpi.stream = Merged(ev).stream
      /\ \A s \in Stamps : s # "plugin_start" \/ ~isEnd => kpi.at[s] = Merged(ev).at[s]
  <2>1. Merged(ev) \in PluginKpi
    <3>1. CASE key \in DOMAIN kpis
      BY <1>8, <3>1, MergeType DEF Inv, TypeOK
    <3>2. CASE key \notin DOMAIN kpis
      BY <1>8, <3>2, KeyTypes
    <3> QED BY <3>1, <3>2
  <2> QED BY <2>1 DEF PluginKpi
<1> HIDE DEF key, kpi
<1>10. CASE IsPcieStart(ev)
  <2>1. key[2] = NoFrame /\ KindOf[ev.el] = "PCIe" /\ ev.stamp = "plugin_start"
    BY <1>4, <1>10 DEF IsPcieStart
  <2>2. Merged(ev).at["plugin_end"] = 0
    <3>1. CASE key \in DOMAIN kpis
      <4>1. kpis[key].at["plugin_end"] = 0
        BY <2>1, <3>1, <1>4 DEF StoredKpis
      <4> QED BY <4>1, <3>1, <2>1, <1>6, <1>8 DEF Stamps
    <3>2. CASE key \notin DOMAIN kpis
      BY <3>2, <2>1, <1>7, <1>8 DEF Stamps
    <3> QED BY <3>1, <3>2
  <2>3. kpi.at["plugin_end"] = 0
    BY <2>2, <1>9 DEF Stamps
  <2> QED BY <1>1, <1>3, <1>4, <2>1, <2>3 DEF key
<1>11. CASE ~IsPcieStart(ev)
  <2>1. key[2] = ev.fr /\ key[2] \in Frames /\ key[2] # NoFrame
    BY <1>1, <1>4, <1>5, <1>11
  <2>2. key \in DOMAIN kpis =>
          /\ \A s \in StampsOf(ev.el) : kpis[key].at[s] # 0 => Passed(ev.el, ev.fr, s)
          /\ kpis[key].stream \in {NoStream, StreamOf[ev.el]}
          /\ kpis[key].at["plugin_end"] # 0 => kpis[key].stream = StreamOf[ev.el]
    BY <1>4, <2>1 DEF StoredKpis
  <2>3. TraceStream(ev) \in {NoStream, StreamOf[ev.el]}
    BY DEF TraceStream
  <2>4. ev.stamp = "plugin_end" => TraceStream(ev) = StreamOf[ev.el]
    BY <1>11 DEF TraceStream, KernelStamps
  <2>5. StreamOf[ev.el] # NoStream
    BY <1>1, KpiConstants DEF KpiConstants
  <2>6. StampsOf(ev.el) \subseteq Stamps /\ "plugin_start" \in StampsOf(ev.el)
    BY DEF StampsOf, Stamps
  <2>7. /\ \A s \in StampsOf(ev.el) : Merged(ev).at[s] # 0 => Passed(ev.el, ev.fr, s)'
        /\ Merged(ev).stream \in {NoStream, StreamOf[ev.el]}
        /\ Merged(ev).at["plugin_end"] # 0 => Merged(ev).stream = StreamOf[ev.el]
    <3>1. Passed(ev.el, ev.fr, ev.stamp)'
      BY <1>1, <1>2 DEF Passed
    <3>2. \A s : Passed(ev.el, ev.fr, s) => Passed(ev.el, ev.fr, s)'
      BY <1>2 DEF Passed
    <3>3. CASE key \in DOMAIN kpis
      <4>1. \A s \in Stamps : Merged(ev).at[s] = (IF s = ev.stamp THEN ev.fr ELSE kpis[key].at[s])
        BY <1>6, <1>8, <3>3
      <4>2. Merged(ev).stream =
              (IF kpis[key].stream = NoStream THEN TraceStream(ev) ELSE kpis[key].stream)
        BY <1>6, <1>8, <3>3
      <4>3. \A s \in StampsOf(ev.el) : Merged(ev).at[s] # 0 => Passed(ev.el, ev.fr, s)'
        BY <2>2, <2>6, <3>1, <3>2, <3>3, <4>1
      <4>4. Merged(ev).at["plugin_end"] # 0 => Merged(ev).stream = StreamOf[ev.el]
        BY <2>2, <2>4, <2>5, <3>3, <4>1, <4>2 DEF Stamps
      <4> QED BY <2>2, <2>3, <3>3, <4>2, <4>3, <4>4
    <3>4. CASE key \notin DOMAIN kpis
      BY <1>7, <1>8, <2>3, <2>4, <2>6, <3>1, <3>4 DEF Stamps
    <3> QED BY <3>3, <3>4
  <2>8. isEnd => Passed(ev.el, ev.fr, "plugin_start")'
    <3> SUFFICES ASSUME isEnd PROVE Passed(ev.el, ev.fr, "plugin_start")'
      OBVIOUS
    <3> DEFINE st == [el |-> ev.el, fr |-> ev.fr, stamp |-> "plugin_start"]
    <3>1. st \in Events
      BY <1>1, <2>6 DEF Events
    <3>2. Before(st, ev)
      BY DEF Before
    <3> QED BY <1>2, <3>1, <3>2 DEF Due, Passed
  <2>9. \A s \in StampsOf(ev.el) : kpi.at[s] # 0 => Passed(ev.el, ev.fr, s)'
    BY <1>9, <2>6, <2>7, <2>8
  <2>10. kpi.at["plugin_end"] = Merged(ev).at["plugin_end"]
    BY <1>9 DEF Stamps
  <2> QED BY <1>1, <1>3, <1>4, <1>9, <2>1, <2>7, <2>9, <2>10 DEF key
<1> QED BY <1>10, <1>11

LEMMA StoredKpisStep == Inv /\ StoredKpis /\ [Next]_vars => StoredKpis'
<1> SUFFICES ASSUME Inv, StoredKpis, [Next]_vars PROVE StoredKpis'
  OBVIOUS
<1>1. ASSUME NEW ev \in Events, ConsumeEvent(ev) PROVE StoredKpis'
  <2> SUFFICES ASSUME NEW k \in DOMAIN kpis'
               PROVE  /\ k[2] = NoFrame => KindOf[k[1]] = "PCIe" /\ kpis'[k].at["plugin_end"] = 0
                      /\ k[2] \in Frames =>
                           /\ \A s \in StampsOf(k[1]) : kpis'[k].at[s] # 0 => Passed(k[1], k[2], s)'
                           /\ kpis'[k].stream \in {NoStream, StreamOf[k[1]]}
                           /\ kpis'[k].at["plugin_end"] # 0 => kpis'[k].stream = StreamOf[k[1]]
    BY DEF StoredKpis
  <2>1. CASE k = KpiKey(ev)
    <3>1. NoFrame \notin Frames
      BY KpiConstants DEF NoFrame, Frames, KpiConstants
    <3> QED BY <1>1, <2>1, <3>1, ConsumeFacts
  <2>2. CASE k # KpiKey(ev)
    <3>1. k \in DOMAIN kpis /\ kpis'[k] = kpis[k] /\ passed \subseteq passed'
      BY <1>1, <2>2 DEF ConsumeEvent, Store
    <3> QED BY <3>1 DEF StoredKpis, Passed
  <2> QED BY <2>1, <2>2
<1>2. CASE FreeSink
  BY <1>2, FreeFacts DEF StoredKpis
<1>3. CASE GraphUnlock
  BY <1>3 DEF GraphUnlock, Remove, StoredKpis, Passed, history
<1>4. ASSUME UNCHANGED kpis, passed \subseteq passed' PROVE StoredKpis'
  BY <1>4 DEF StoredKpis, Passed
<1>5. CASE \/ \E command \in {"start-kpis", "stop-kpis"} : OnMessage(command)
           \/ \E ev \in Events : MissEvent(ev)
           \/ GraphLock \/ AddNode \/ GraphPublish \/ JoinObserver \/ Disconnect
           \/ ObserverStep \/ Tick \/ Finalize \/ UNCHANGED vars
  <2>1. UNCHANGED kpis /\ passed \subseteq passed'
    BY <1>5 DEF OnMessage, MissEvent, GraphLock, AddNode, GraphPublish, JoinObserver,
         Disconnect, ObserverStep, ObserverCheck, ObserverLock, ObserverUnlock,
         ObserverPublish, Tick, Finalize, vars, sinkVars, history
  <2> QED BY <1>4, <2>1
<1> QED BY <1>1, <1>2, <1>3, <1>5 DEF Next, GraphStep

LEMMA CurCompleteStep ==
  Inv /\ StoredKpis /\ SeenPassed /\ CurComplete /\ [Next]_vars => CurComplete'
<1> SUFFICES ASSUME Inv, StoredKpis, SeenPassed, CurComplete, [Next]_vars,
                    gpc' \in {"lock", "add"}
             PROVE  CurIsNew'
  BY DEF CurComplete
<1>1. ASSUME NEW ev \in Events, ConsumeEvent(ev)
      PROVE  CurIsNew'
  <2> DEFINE key == KpiKey(ev)
  <2>1. /\ cur' = key /\ ev \notin passed /\ UNCHANGED <<lists, sent>>
        /\ \A s \in StampsOf(ev.el) : kpis'[key].at[s] # 0
    BY <1>1 DEF ConsumeEvent, IsReady, Due, Store
  <2>2. "plugin_end" \in StampsOf(ev.el)
    BY DEF StampsOf, Stamps
  <2>3. /\ key[1] = ev.el /\ key[2] = ev.fr /\ key[2] \in Frames /\ ev.el \in Elements
        /\ \A s \in StampsOf(ev.el) : Passed(ev.el, ev.fr, s)'
        /\ kpis'[key].stream = StreamOf[ev.el]
    BY <1>1, <2>1, <2>2, ConsumeFacts
  <2>4. /\ ev.stamp \in StampsOf(ev.el)
        /\ ev = [el |-> ev.el, fr |-> ev.fr, stamp |-> ev.stamp]
    BY DEF Events
  <2>5. ~Passed(ev.el, ev.fr, ev.stamp)
    BY <2>1, <2>4 DEF Passed
  <2>6. <<StreamOf[ev.el], ev.fr>> \in ListKeys
    BY <2>3, KpiConstants DEF ListKeys, KpiConstants
  <2>7. ~Seen(<<StreamOf[ev.el], ev.fr>>, ev.el)
    BY <2>3, <2>4, <2>5, <2>6 DEF SeenPassed
  <2>8. ~Seen(<<StreamOf[ev.el], ev.fr>>, ev.el)'
    BY <2>1, <2>7 DEF Seen, InList, InSent
  <2> QED BY <2>1, <2>3, <2>8 DEF CurIsNew, Passed, Seen, InList, InSent
<1>2. ASSUME gpc \in {"lock", "add"}, UNCHANGED <<kpis, cur>>, passed \subseteq passed',
             \A k \in ListKeys : \A e : Seen(k, e)' => Seen(k, e)
      PROVE  CurIsNew'
  <2>1. <<StreamOf[cur[1]], cur[2]>> \in ListKeys
    <3>1. cur \in KpiKeys
      BY <1>2 DEF Inv, TypeOK, CurKnown
    <3>2. cur[1] \in Elements /\ cur[2] \in Frames
      BY <1>2, <3>1 DEF CurComplete, CurIsNew, KpiKeys
    <3> QED BY <3>2, KpiConstants DEF ListKeys, KpiConstants
  <2>2. CurIsNew
    BY <1>2 DEF CurComplete
  <2>3. ~Seen(<<StreamOf[cur[1]], cur[2]>>, cur[1])'
    <3>1. PICK k \in ListKeys : \E e : k = <<StreamOf[cur[1]], cur[2]>> /\ e = cur[1]
      BY <2>1
    <3>2. PICK e : k = <<StreamOf[cur[1]], cur[2]>> /\ e = cur[1]
      BY <3>1
    <3>3. ~Seen(k, e)'
      BY <1>2, <2>2, <3>2 DEF CurIsNew
    <3>4. k = <<StreamOf[cur'[1]], cur'[2]>> /\ e = cur'[1]
      BY <1>2, <3>2
    <3> QED BY <3>3, <3>4 DEF Seen, InList, InSent
  <2> QED BY <1>2, <2>2, <2>3 DEF CurIsNew, Passed
<1>3. CASE GraphLock \/ (UNCHANGED vars)
  <2>1. gpc \in {"lock", "add"} /\ UNCHANGED <<kpis, cur, passed, lists, sent>>
    BY <1>3 DEF GraphLock, vars, history
  <2>2. \A k \in ListKeys : \A e : Seen(k, e)' => Seen(k, e)
    BY <2>1 DEF Seen, InList, InSent
  <2> QED BY <1>2, <2>1, <2>2
<1>4. ASSUME NEW j \in ListKeys, ObserverPublish(j)
      PROVE  gpc \in {"lock", "add"} /\ UNCHANGED <<kpis, cur, passed>>
             /\ \A k \in ListKeys : \A e : Seen(k, e)' => Seen(k, e)
  <2>1. Publish(j) /\ gpc \in {"lock", "add"} /\ UNCHANGED <<kpis, cur, passed>>
    BY <1>4 DEF ObserverPublish, history
  <2> QED BY <2>1, PublishFacts DEF Inv, Seen
<1>5. CASE \/ \E command \in {"start-kpis", "stop-kpis"} : OnMessage(command)
           \/ ObserverCheck \/ ObserverLock \/ ObserverUnlock \/ Tick
  <2>1. gpc \in {"lock", "add"} /\ UNCHANGED <<kpis, cur, passed, lists, sent>>
    BY <1>5 DEF OnMessage, ObserverCheck, ObserverLock, ObserverUnlock, Tick, history
  <2>2. \A k \in ListKeys : \A e : Seen(k, e)' => Seen(k, e)
    BY <2>1 DEF Seen, InList, InSent
  <2> QED BY <1>2, <2>1, <2>2
<1>6. ~(\/ \E ev \in Events : MissEvent(ev)
        \/ AddNode \/ GraphPublish \/ GraphUnlock \/ JoinObserver \/ Disconnect
        \/ FreeSink \/ Finalize)
  BY DEF MissEvent, AddNode, GraphPublish, GraphUnlock, JoinObserver, Disconnect,
         FreeSink, Finalize
<1> QED
  BY <1>1, <1>2, <1>3, <1>4, <1>5, <1>6 DEF Next, GraphStep, ObserverStep

-----------------------------------------------------------------------------
LEMMA UniqueReported == Unique => ReportedOnce
<1> SUFFICES ASSUME Unique, NEW k \in ListKeys, NEW e \in Elements,
                    NEW p \in Places(k, e), NEW q \in Places(k, e)
             PROVE  p = q
  BY DEF ReportedOnce
<1>1. /\ \A i, j : InList(k, e, i) /\ InList(k, e, j) => i = j
      /\ \A m, i, n, j : InSent(k, e, m, i) /\ InSent(k, e, n, j) => m = n /\ i = j
      /\ \A i, m, j : ~(InList(k, e, i) /\ InSent(k, e, m, j))
  BY DEF Unique
<1>2. ASSUME NEW x \in Places(k, e)
      PROVE  \/ \E i : InList(k, e, i) /\ x = <<0, i>>
             \/ \E m, i : InSent(k, e, m, i) /\ x = <<m, i>>
  BY DEF Places, InList, InSent
<1>3. \/ \E i : InList(k, e, i) /\ p = <<0, i>>
      \/ \E m, i : InSent(k, e, m, i) /\ p = <<m, i>>
  BY <1>2
<1>4. \/ \E i : InList(k, e, i) /\ q = <<0, i>>
      \/ \E m, i : InSent(k, e, m, i) /\ q = <<m, i>>
  BY <1>2
<1> QED BY <1>1, <1>3, <1>4

LEMMA OnceInit == Init => OnceInv
<1> SUFFICES ASSUME Init PROVE OnceInv
  OBVIOUS
<1>1. Inv
  BY InvInit
<1>2. \A k \in ListKeys, e \in Elements :
        /\ \A i : ~InList(k, e, i)
        /\ \A m, i : ~InSent(k, e, m, i)
  BY DEF Init, InList, InSent
<1>3. SeenPassed /\ Unique
  BY <1>2 DEF SeenPassed, Unique, Seen
<1> QED BY <1>1, <1>3 DEF Init, OnceInv, StoredKpis, CurComplete

LEMMA OnceStep == OnceInv /\ [Next]_vars => OnceInv'
BY InvStep, StoredKpisStep, SeenPassedStep, CurCompleteStep, UniqueStep DEF OnceInv

(* Whatever the order of the plugins' and the remote cores' events, and    *)
(* whichever thread publishes, the KPI of a plugin for a frame is in       *)
(* json_kpi_map or in one message, once.                                   *)
THEOREM NeverReportedTwice == Spec => []ReportedOnce
<1>1. Init => OnceInv
  BY OnceInit
<1>2. OnceInv /\ [Next]_vars => OnceInv'
  BY OnceStep
<1>3. OnceInv => ReportedOnce
  BY UniqueReported DEF OnceInv
<1> QED BY <1>1, <1>2, <1>3, PTL DEF Spec

-----------------------------------------------------------------------------
(* Why every reported KPI names its plugin, and why no complete one is     *)
(* lost.                                                                   *)

(* An entry without plugin_id was opened by a remote core, after the START *)
(* of its plugin went by unseen.                                           *)
NamedKpis ==
  \A k \in DOMAIN kpis :
    ~kpis[k].named => /\ KindOf[k[1]] = "Remote" /\ k[2] \in Frames
                      /\ kpis[k].at["plugin_start"] = 0
                      /\ Passed(k[1], k[2], "plugin_start")

CurStarted == gpc \in {"lock", "add"} => kpis[cur].at["plugin_start"] # 0

NodesNamed == \A k \in ListKeys : \A i \in DOMAIN lists[k] : lists[k][i].named

LabelInv == NamedKpis /\ CurStarted /\ NodesNamed

(* An event that was merged, and where its timestamp is until then.        *)
IsMerged(e, f, s) == [el |-> e, fr |-> f, stamp |-> s] \in passed \ missed

HomeOf(e, f, s) ==
  <<e, IF KindOf[e] = "PCIe" /\ s = "plugin_start" THEN NoFrame ELSE f>>

Recorded(e, f, s) ==
  HomeOf(e, f, s) \in DOMAIN kpis /\ kpis[HomeOf(e, f, s)].at[s] # 0

Reported(e, f)  == Seen(<<StreamOf[e], f>>, e)
Converted(e, f) == gpc \in {"lock", "add"} /\ cur = <<e, f>>

(* A KPI that is on its way to be complete has all it got so far.          *)
Gathering(e, f) ==
  /\ \A s \in StampsOf(e) : IsMerged(e, f, s) => Recorded(e, f, s)
  /\ \E s \in StampsOf(e) : ~IsMerged(e, f, s)

CurReported ==
  gpc \in {"publish", "unlock"} => cur[2] \in Frames /\ Reported(cur[1], cur[2])

(* No event of a plugin overtakes one it follows.                          *)
InOrderPassed == \A a, b \in Events : b \in passed /\ Before(a, b) => a \in passed

KeptInv ==
  /\ InOrderPassed /\ CurReported
  /\ \A e \in Elements, f \in Frames :
       freed \/ Reported(e, f) \/ Converted(e, f) \/ Gathering(e, f)

LEMMA MergedFacts ==
  ASSUME Inv, NEW ev \in Events, ConsumeEvent(ev)
  PROVE  LET key == KpiKey(ev)  p == kpis'[KpiKey(ev)]
             start == <<ev.el, NoFrame>> IN
         /\ kpis' = Store(kpis, key, p) /\ p \in PluginKpi
         /\ p.named = (IF key \in DOMAIN kpis THEN kpis[key].named
                                              ELSE ev.stamp \notin KernelStamps)
         /\ \A s \in Stamps :
              p.at[s] = IF /\ KindOf[ev.el] = "PCIe" /\ ev.stamp = "plugin_end"
                           /\ start \in DOMAIN kpis /\ s = "plugin_start"
                          THEN kpis[start].at["plugin_start"]
                        ELSE IF s = ev.stamp THEN ev.fr
                        ELSE IF key \in DOMAIN kpis THEN kpis[key].at[s] ELSE 0
         /\ IF /\ \A s \in StampsOf(ev.el) : p.at[s] # 0
               /\ KindOf[ev.el] = "PCIe" /\ ev.stamp = "plugin_end" => start \in DOMAIN kpis
              THEN gpc' = "lock" /\ cur' = key
              ELSE gpc' = "next" /\ cur' = cur
<1> DEFINE key      == KpiKey(ev)
           startKey == <<ev.el, NoFrame>>
           isEnd    == KindOf[ev.el] = "PCIe" /\ ev.stamp = "plugin_end"
           orphan   == isEnd /\ startKey \notin DOMAIN kpis
           kpi      == IF isEnd /\ ~orphan
                         THEN [Merged(ev) EXCEPT
                                 !.at["plugin_start"] = kpis[startKey].at["plugin_start"]]
                         ELSE Merged(ev)
<1>1. /\ kpis' = Store(kpis, key, kpi)
      /\ IF ~orphan /\ IsReady(ev.el, kpi) THEN gpc' = "lock" /\ cur' = key
                                           ELSE gpc' = "next" /\ cur' = cur
  BY DEF ConsumeEvent
<1>2. kpis'[key] = kpi
  BY <1>1 DEF Store
<1>3. Merged(ev) \in PluginKpi
  <2>1. key \in DOMAIN kpis => kpis[key] \in PluginKpi
    BY DEF Inv, TypeOK
  <2> QED BY <2>1, MergeType, KeyTypes DEF Merged
<1>4. /\ Merged(ev).named = (IF key \in DOMAIN kpis THEN kpis[key].named
                                                    ELSE ev.stamp \notin KernelStamps)
      /\ \A s \in Stamps : Merged(ev).at[s] =
           IF s = ev.stamp THEN ev.fr
           ELSE IF key \in DOMAIN kpis THEN kpis[key].at[s] ELSE 0
  <2>1. CASE key \in DOMAIN kpis
    <3>1. kpis[key].at \in [Stamps -> 0 .. NFrames]
      BY <2>1 DEF Inv, TypeOK, PluginKpi
    <3> QED BY <2>1, <3>1 DEF Merged, MergeTrace
  <2>2. CASE key \notin DOMAIN kpis
    BY <2>2 DEF Merged, CreateFromTrace
  <2> QED BY <2>1, <2>2
<1>5. kpi \in PluginKpi
  <2>1. isEnd /\ ~orphan => kpis[startKey].at["plugin_start"] \in 0 .. NFrames
    BY DEF Inv, TypeOK, PluginKpi, Stamps
  <2> QED BY <1>3, <2>1 DEF PluginKpi
<1>6. /\ kpi.named = Merged(ev).named
      /\ \A s \in Stamps :
           kpi.at[s] = IF isEnd /\ ~orphan /\ s = "plugin_start"
                         THEN kpis[startKey].at["plugin_start"] ELSE Merged(ev).at[s]
  BY <1>3 DEF PluginKpi
<1> HIDE DEF kpi, key, startKey
<1> QED BY <1>1, <1>2, <1>4, <1>5, <1>6 DEF IsReady, key, startKey

(* Once reported, a KPI stays in its list or in a message until the sink   *)
(* is freed.                                                               *)
LEMMA SeenStays ==
  ASSUME Inv, [Next]_vars, ~FreeSink, NEW k \in ListKeys, NEW e, Seen(k, e)
  PROVE  Seen(k, e)'
<1>1. CASE AddNode
  BY <1>1, AddNodeFacts DEF Seen, InSent
<1>2. ASSUME NEW j \in ListKeys, Publish(j) PROVE Seen(k, e)'
  BY <1>2, PublishFacts DEF Inv, Seen
<1>3. CASE OtherStep
  BY <1>3, OtherUnchanged DEF Seen, InSent, InList
<1> QED BY <1>1, <1>2, <1>3, StepCases

LEMMA NamedKpisStep == Inv /\ NamedKpis /\ [Next]_vars => NamedKpis'
<1> SUFFICES ASSUME Inv, NamedKpis, [Next]_vars, NEW k \in DOMAIN kpis', ~kpis'[k].named
             PROVE  /\ KindOf[k[1]] = "Remote" /\ k[2] \in Frames
                    /\ kpis'[k].at["plugin_start"] = 0
                    /\ Passed(k[1], k[2], "plugin_start")'
  BY DEF NamedKpis
<1>1. ASSUME k \in DOMAIN kpis, kpis'[k] = kpis[k], passed \subseteq passed'
      PROVE  /\ KindOf[k[1]] = "Remote" /\ k[2] \in Frames
             /\ kpis'[k].at["plugin_start"] = 0
             /\ Passed(k[1], k[2], "plugin_start")'
  BY <1>1 DEF NamedKpis, Passed
<1>2. ASSUME NEW ev \in Events, ConsumeEvent(ev)
      PROVE  /\ KindOf[k[1]] = "Remote" /\ k[2] \in Frames
             /\ kpis'[k].at["plugin_start"] = 0
             /\ Passed(k[1], k[2], "plugin_start")'
  <2> DEFINE key == KpiKey(ev)
  <2>1. /\ passed' = passed \cup {ev} /\ Due(ev) /\ passed \subseteq passed'
    BY <1>2 DEF ConsumeEvent
  <2>2. CASE k # key
    <3>1. k \in DOMAIN kpis /\ kpis'[k] = kpis[k]
      BY <1>2, <2>2 DEF ConsumeEvent, Store
    <3> QED BY <1>1, <2>1, <3>1
  <2>3. CASE k = key
    <3>1. /\ ev.el \in Elements /\ ev.fr \in Frames /\ ev.stamp \in StampsOf(ev.el)
          /\ ev = [el |-> ev.el, fr |-> ev.fr, stamp |-> ev.stamp]
      BY DEF Events
    <3>2. /\ kpis'[key].named = (IF key \in DOMAIN kpis THEN kpis[key].named
                                                        ELSE ev.stamp \notin KernelStamps)
          /\ \A s \in Stamps :
               kpis'[key].at[s] = IF /\ KindOf[ev.el] = "PCIe" /\ ev.stamp = "plugin_end"
                                     /\ <<ev.el, NoFrame>> \in DOMAIN kpis
                                     /\ s = "plugin_start"
                                    THEN kpis[<<ev.el, NoFrame>>].at["plugin_start"]
                                  ELSE IF s = ev.stamp THEN ev.fr
                                  ELSE IF key \in DOMAIN kpis THEN kpis[key].at[s] ELSE 0
      BY <1>2, MergedFacts
    <3>3. key[1] = ev.el /\ (KindOf[ev.el] # "PCIe" => key[2] = ev.fr)
      BY DEF KpiKey, IsPcieStart
    <3>4. CASE key \in DOMAIN kpis
      <4>1. /\ KindOf[ev.el] = "Remote" /\ kpis[key].at["plugin_start"] = 0
            /\ Passed(ev.el, ev.fr, "plugin_start")
        BY <2>3, <3>2, <3>3, <3>4 DEF NamedKpis
      <4>2. ev.stamp # "plugin_start"
        BY <2>1, <3>1, <4>1 DEF Due, Passed
      <4> QED BY <2>1, <2>3, <3>1, <3>2, <3>3, <3>4, <4>1, <4>2 DEF Passed, Stamps
    <3>5. CASE key \notin DOMAIN kpis
      <4>1. ev.stamp \in KernelStamps
        BY <2>3, <3>2, <3>5
      <4>2. KindOf[ev.el] = "Remote" /\ ev.stamp # "plugin_start"
        BY <3>1, <4>1 DEF StampsOf, KernelStamps
      <4>3. Passed(ev.el, ev.fr, "plugin_start")
        <5>1. [el |-> ev.el, fr |-> ev.fr, stamp |-> "plugin_start"] \in Events
          BY <3>1, <4>2 DEF Events, StampsOf, Stamps
        <5>2. Before([el |-> ev.el, fr |-> ev.fr, stamp |-> "plugin_start"], ev)
          BY <4>2 DEF Before
        <5> QED BY <2>1, <5>1, <5>2 DEF Due, Passed
      <4> QED BY <2>1, <2>3, <3>1, <3>2, <3>3, <3>5, <4>2, <4>3 DEF Passed, Stamps
    <3> QED BY <3>4, <3>5
  <2> QED BY <2>2, <2>3
<1>3. CASE FreeSink
  BY <1>3, FreeFacts
<1>4. CASE GraphUnlock
  BY <1>1, <1>4 DEF GraphUnlock, Remove, history
<1>5. CASE \/ \E command \in {"start-kpis", "stop-kpis"} : OnMessage(command)
           \/ \E ev \in Events : MissEvent(ev)
           \/ GraphLock \/ AddNode \/ GraphPublish \/ JoinObserver \/ Disconnect
           \/ ObserverStep \/ Tick \/ Finalize \/ UNCHANGED vars
  <2>1. UNCHANGED kpis /\ passed \subseteq passed'
    BY <1>5 DEF OnMessage, MissEvent, GraphLock, AddNode, GraphPublish, JoinObserver,
         Disconnect, ObserverStep, ObserverCheck, ObserverLock, ObserverUnlock,
         ObserverPublish, Tick, Finalize, vars, sinkVars, history
  <2> QED BY <1>1, <2>1
<1> QED BY <1>2, <1>3, <1>4, <1>5 DEF Next, GraphStep

(* From the moment it is ready until it is in a list, nobody touches the   *)
(* entry under conversion.                                                 *)
LEMMA CurStays ==
  ASSUME Inv, [Next]_vars, gpc' \in {"lock", "add"}
  PROVE  \/ \E ev \in Events : ConsumeEvent(ev)
         \/ gpc \in {"lock", "add"} /\ UNCHANGED <<kpis, cur>>
<1>1. CASE \/ \E command \in {"start-kpis", "stop-kpis"} : OnMessage(command)
           \/ GraphLock \/ ObserverStep \/ Tick \/ UNCHANGED vars
  BY <1>1 DEF OnMessage, GraphLock, ObserverStep, ObserverCheck, ObserverLock,
       ObserverUnlock, ObserverPublish, Tick, vars, sinkVars, history
<1>2. ~(\/ \E ev \in Events : MissEvent(ev)
        \/ AddNode \/ GraphPublish \/ GraphUnlock \/ JoinObserver \/ Disconnect
        \/ FreeSink \/ Finalize)
  BY DEF MissEvent, AddNode, GraphPublish, GraphUnlock, JoinObserver, Disconnect,
         FreeSink, Finalize
<1> QED BY <1>1, <1>2 DEF Next, GraphStep

LEMMA CurStartedStep == Inv /\ CurStarted /\ [Next]_vars => CurStarted'
<1> SUFFICES ASSUME Inv, CurStarted, [Next]_vars, gpc' \in {"lock", "add"}
             PROVE  kpis'[cur'].at["plugin_start"] # 0
  BY DEF CurStarted
<1>1. ASSUME NEW ev \in Events, ConsumeEvent(ev)
      PROVE  kpis'[cur'].at["plugin_start"] # 0
  <2>1. "plugin_start" \in StampsOf(ev.el)
    BY DEF StampsOf, Stamps
  <2> QED BY <1>1, <2>1, MergedFacts
<1>2. CASE gpc \in {"lock", "add"} /\ UNCHANGED <<kpis, cur>>
  BY <1>2 DEF CurStarted
<1> QED BY <1>1, <1>2, CurStays

LEMMA NodesNamedStep ==
  Inv /\ NamedKpis /\ CurStarted /\ NodesNamed /\ [Next]_vars => NodesNamed'
<1> SUFFICES ASSUME Inv, NamedKpis, CurStarted, NodesNamed, [Next]_vars,
                    NEW k \in ListKeys, NEW i \in DOMAIN lists'[k]
             PROVE  lists'[k][i].named
  BY DEF NodesNamed
<1>0. lists \in [ListKeys -> Seq(Node)]
  BY DEF Inv, TypeOK
<1>1. CASE AddNode
  <2> DEFINE node == [el |-> cur[1], start |-> kpis[cur].at["plugin_start"],
                      named |-> kpis[cur].named]
  <2>1. CurList \in ListKeys /\ node \in Node /\ cur \in DOMAIN kpis
    BY <1>1, CurTypes DEF AddNode, Inv, CurKnown
  <2>2. lists' = [lists EXCEPT ![CurList] = Append(lists[CurList], node)]
    BY <1>1 DEF AddNode
  <2>3. node.named
    BY <1>1, <2>1 DEF AddNode, CurStarted, NamedKpis
  <2> HIDE DEF node
  <2>4. CASE k = CurList
    <3>1. /\ DOMAIN lists'[k] = DOMAIN lists[k] \cup {Len(lists[k]) + 1}
          /\ \A j \in DOMAIN lists[k] : lists'[k][j] = lists[k][j]
          /\ lists'[k][Len(lists[k]) + 1] = node
      BY <1>0, <2>1, <2>2, <2>4, AppendFacts
    <3> QED BY <2>3, <3>1 DEF NodesNamed
  <2>5. CASE k # CurList
    BY <1>0, <2>2, <2>5 DEF NodesNamed
  <2> QED BY <2>4, <2>5
<1>2. ASSUME NEW j \in ListKeys, Publish(j) PROVE lists'[k][i].named
  BY <1>0, <1>2 DEF Publish, PopAll, NodesNamed
<1>3. CASE FreeSink
  BY <1>3 DEF FreeSink
<1>4. CASE OtherStep
  BY <1>4, OtherUnchanged DEF NodesNamed
<1> QED BY <1>1, <1>2, <1>3, <1>4, StepCases

(* A KPI names its plugin and sits in the list of its own stream, although *)
(* remote-core events know neither.                                        *)
THEOREM KpisAreLabelled == Spec => []WellLabelled
<1>1. Init => OnceInv /\ LabelInv
  BY OnceInit DEF Init, LabelInv, NamedKpis, CurStarted, NodesNamed
<1>2. OnceInv /\ LabelInv /\ [Next]_vars => OnceInv' /\ LabelInv'
  BY OnceStep, NamedKpisStep, CurStartedStep, NodesNamedStep DEF OnceInv, LabelInv
<1>3. OnceInv /\ LabelInv => WellLabelled
  <2> SUFFICES ASSUME OnceInv, LabelInv, NEW k \in ListKeys, NEW i \in DOMAIN lists[k]
               PROVE  lists[k][i].named /\ StreamOf[lists[k][i].el] = k[1]
    BY DEF WellLabelled
  <2>1. lists[k][i] \in Node
    BY DEF OnceInv, Inv, TypeOK
  <2>2. lists[k][i].el \in Elements /\ Seen(k, lists[k][i].el)
    BY <2>1 DEF Node, Seen, InList
  <2> QED BY <2>2 DEF OnceInv, SeenPassed, LabelInv, NodesNamed
<1> QED BY <1>1, <1>2, <1>3, PTL DEF Spec

LEMMA CurReportedStep ==
  Inv /\ CurComplete /\ CurReported /\ [Next]_vars => CurReported'
<1> SUFFICES ASSUME Inv, CurComplete, CurReported, [Next]_vars, gpc' \in {"publish", "unlock"}
             PROVE  cur'[2] \in Frames /\ Reported(cur[1], cur[2])'
  BY DEF CurReported
<1>1. CASE AddNode
  <2>1. /\ CurIsNew /\ CurList = <<StreamOf[cur[1]], cur[2]>>
    BY <1>1 DEF AddNode, CurComplete, CurIsNew, CurList
  <2>2. PICK k \in ListKeys, e \in {cur[1]} : k = CurList
    BY <1>1, AddNodeFacts
  <2>3. PICK i : i = Len(lists[k]) + 1
    OBVIOUS
  <2>4. InList(k, e, i)' /\ cur' = cur
    BY <1>1, <2>2, <2>3, AddNodeFacts
  <2>5. Seen(k, e)'
    BY <2>4 DEF Seen, InList
  <2>6. k = <<StreamOf[cur'[1]], cur'[2]>> /\ e = cur'[1] /\ cur'[2] \in Frames
    BY <2>1, <2>2, <2>4 DEF CurIsNew
  <2> QED BY <2>5, <2>6 DEF Reported, Seen, InList, InSent
<1>2. CASE ~AddNode
  <2>1. /\ gpc \in {"publish", "unlock"} /\ cur' = cur /\ ~FreeSink
    BY <1>2 DEF Next, GraphStep, ObserverStep, OnMessage, MissEvent, ConsumeEvent, GraphLock,
         GraphPublish, GraphUnlock, JoinObserver, Disconnect, FreeSink, ObserverCheck,
         ObserverLock, ObserverUnlock, ObserverPublish, Tick, Finalize, vars
  <2>2. cur[2] \in Frames /\ Reported(cur[1], cur[2])
    BY <2>1 DEF CurReported
  <2>3. <<StreamOf[cur[1]], cur[2]>> \in ListKeys
    <3>1. cur \in KpiKeys
      BY <2>1 DEF Inv, TypeOK, CurKnown
    <3> QED BY <2>2, <3>1, KpiConstants DEF ListKeys, KpiKeys, KpiConstants
  <2>4. PICK k \in ListKeys, e \in {cur[1]} : k = <<StreamOf[cur[1]], cur[2]>>
    BY <2>3
  <2>5. Seen(k, e)'
    BY <2>1, <2>2, <2>4, SeenStays DEF Reported
  <2> QED BY <2>1, <2>2, <2>4, <2>5 DEF Reported, Seen, InList, InSent
<1> QED BY <1>1, <1>2

(* An entry keeps the timestamps it has when an event is merged, and gets  *)
(* that of the event.                                                      *)
LEMMA RecordedGrows ==
  ASSUME Inv, NEW ev \in Events, ConsumeEvent(ev), NEW e \in Elements, NEW f \in Frames,
         NEW s \in StampsOf(e),
         Recorded(e, f, s) \/ ev = [el |-> e, fr |-> f, stamp |-> s]
  PROVE  Recorded(e, f, s)'
<1> DEFINE key == KpiKey(ev)
           home == HomeOf(e, f, s)
<1>0. NoFrame \notin Frames /\ 0 \notin Frames
  BY KpiConstants DEF NoFrame, Frames, KpiConstants
<1>1. /\ ev.el \in Elements /\ ev.fr \in Frames /\ ev.stamp \in StampsOf(ev.el) /\ ev.fr # 0
      /\ s \in Stamps
  BY <1>0 DEF Events, StampsOf, Stamps
<1>2. kpis' = Store(kpis, key, kpis'[key])
  BY MergedFacts
<1>3. CASE home # key
  <2>1. ev # [el |-> e, fr |-> f, stamp |-> s]
    BY <1>3 DEF HomeOf, KpiKey, IsPcieStart
  <2>2. Recorded(e, f, s) /\ home \in DOMAIN kpis' /\ kpis'[home] = kpis[home]
    BY <1>2, <1>3, <2>1 DEF Recorded, Store
  <2> QED BY <2>2 DEF Recorded, HomeOf
<1>4. CASE home = key
  <2>1. key \in DOMAIN kpis' /\ ev.el = e
    BY <1>2, <1>4 DEF Store, HomeOf, KpiKey
  <2>2. ~(KindOf[ev.el] = "PCIe" /\ ev.stamp = "plugin_end" /\ s = "plugin_start")
    <3> SUFFICES ASSUME KindOf[ev.el] = "PCIe", ev.stamp = "plugin_end", s = "plugin_start"
                 PROVE  FALSE
      OBVIOUS
    <3>1. home[2] = NoFrame /\ key[2] = ev.fr
      BY <2>1 DEF HomeOf, KpiKey, IsPcieStart
    <3> QED BY <1>0, <1>1, <1>4, <3>1
  <2>3. kpis'[key].at[s] = IF s = ev.stamp THEN ev.fr
                           ELSE IF key \in DOMAIN kpis THEN kpis[key].at[s] ELSE 0
    BY <1>1, <2>2, MergedFacts
  <2>4. s = ev.stamp \/ (key \in DOMAIN kpis /\ kpis[key].at[s] # 0)
    <3>1. CASE Recorded(e, f, s)
      BY <1>4, <3>1 DEF Recorded
    <3>2. CASE ev = [el |-> e, fr |-> f, stamp |-> s]
      BY <3>2
    <3> QED BY <3>1, <3>2
  <2> HIDE DEF key
  <2>5. kpis'[key].at[s] # 0
    BY <1>1, <2>3, <2>4
  <2> QED BY <1>4, <2>1, <2>5 DEF Recorded, HomeOf
<1> QED BY <1>3, <1>4

(* The last event of a KPI makes it ready, also when it is the END of a    *)
(* PCIe source, which takes the START from the entry of its own.           *)
LEMMA LastEventConverts ==
  ASSUME Inv, InOrderPassed, NEW ev \in Events, ConsumeEvent(ev),
         \A s \in StampsOf(ev.el) : Recorded(ev.el, ev.fr, s)',
         \A s \in StampsOf(ev.el) \ {ev.stamp} :
           IsMerged(ev.el, ev.fr, s) /\ Recorded(ev.el, ev.fr, s)
  PROVE  gpc' = "lock" /\ cur' = <<ev.el, ev.fr>>
<1> DEFINE key == KpiKey(ev)
<1>0. NoFrame \notin Frames /\ 0 \notin Frames
  BY KpiConstants DEF NoFrame, Frames, KpiConstants
<1>1. /\ ev.el \in Elements /\ ev.fr \in Frames /\ ev.stamp \in StampsOf(ev.el) /\ ev.fr # 0
      /\ StampsOf(ev.el) \subseteq Stamps
      /\ "plugin_start" \in StampsOf(ev.el) /\ "plugin_end" \in StampsOf(ev.el)
  BY <1>0 DEF Events, StampsOf, Stamps
<1>2. ~IsPcieStart(ev)
  <2> SUFFICES ASSUME IsPcieStart(ev) PROVE FALSE
    OBVIOUS
  <2> DEFINE end == [el |-> ev.el, fr |-> ev.fr, stamp |-> "plugin_end"]
  <2>1. ev.stamp = "plugin_start"
    BY DEF IsPcieStart
  <2>2. end \in passed /\ end \in Events
    BY <1>1, <2>1 DEF IsMerged, Events
  <2>3. Before(ev, end)
    BY <2>1 DEF Before
  <2> QED BY <2>2, <2>3 DEF InOrderPassed, ConsumeEvent, Due
<1>3. key = <<ev.el, ev.fr>>
  BY <1>2 DEF KpiKey
<1>4. CASE KindOf[ev.el] # "PCIe"
  <2>1. \A s \in StampsOf(ev.el) : kpis'[key].at[s] # 0
    BY <1>3, <1>4 DEF Recorded, HomeOf
  <2> HIDE DEF key
  <2> QED BY <1>3, <1>4, <2>1, MergedFacts DEF key
<1>5. CASE KindOf[ev.el] = "PCIe"
  <2>1. ev.stamp = "plugin_end" /\ StampsOf(ev.el) = {"plugin_start", "plugin_end"}
    BY <1>1, <1>2, <1>5 DEF IsPcieStart, StampsOf
  <2>2. /\ <<ev.el, NoFrame>> \in DOMAIN kpis
        /\ kpis[<<ev.el, NoFrame>>].at["plugin_start"] # 0
    <3>1. Recorded(ev.el, ev.fr, "plugin_start")
      BY <2>1
    <3> QED BY <1>5, <3>1 DEF Recorded, HomeOf
  <2>3. kpis'[key].at["plugin_start"] # 0
    BY <1>1, <1>5, <2>1, <2>2, MergedFacts
  <2>4. kpis'[key].at["plugin_end"] # 0
    BY <1>3, <2>1 DEF Recorded, HomeOf
  <2>5. \A s \in StampsOf(ev.el) : kpis'[key].at[s] # 0
    BY <2>1, <2>3, <2>4
  <2> QED BY <1>3, <1>5, <2>1, <2>2, <2>5, MergedFacts
<1> QED BY <1>4, <1>5

LEMMA InOrderPassedStep == InOrderPassed /\ [Next]_vars => InOrderPassed'
<1> SUFFICES ASSUME InOrderPassed, [Next]_vars PROVE InOrderPassed'
  OBVIOUS
<1>1. ASSUME NEW ev \in Events, Due(ev), passed' = passed \cup {ev} PROVE InOrderPassed'
  BY <1>1 DEF Due, InOrderPassed
<1>2. CASE \E ev \in Events : MissEvent(ev) \/ ConsumeEvent(ev)
  BY <1>1, <1>2 DEF MissEvent, ConsumeEvent
<1>3. CASE ~\E ev \in Events : MissEvent(ev) \/ ConsumeEvent(ev)
  <2>1. passed' = passed
    BY <1>3 DEF Next, GraphStep, ObserverStep, OnMessage, GraphLock, AddNode, GraphPublish,
         GraphUnlock, JoinObserver, Disconnect, FreeSink, ObserverCheck, ObserverLock,
         ObserverUnlock, ObserverPublish, Tick, Finalize, vars, history
  <2> QED BY <2>1 DEF InOrderPassed
<1> QED BY <1>2, <1>3

(* Every step but the conversion keeps what was reported or gathered.      *)
LEMMA GatheringStays ==
  ASSUME NEW e, NEW f, Gathering(e, f), passed' \ missed' = passed \ missed,
         \A s \in StampsOf(e) : Recorded(e, f, s) => Recorded(e, f, s)'
  PROVE  Gathering(e, f)'
BY DEF Gathering, IsMerged

LEMMA NothingLostStep ==
  ASSUME Inv, CurComplete, KeptInv, [Next]_vars, NEW e \in Elements, NEW f \in Frames
  PROVE  freed' \/ Reported(e, f)' \/ Converted(e, f)' \/ Gathering(e, f)'
<1>0. /\ freed \/ Reported(e, f) \/ Converted(e, f) \/ Gathering(e, f)
      /\ InOrderPassed /\ CurReported
  BY DEF KeptInv
<1>1. CASE FreeSink
  BY <1>1 DEF FreeSink
<1>2. CASE ~FreeSink /\ Reported(e, f)
  <2>1. PICK k \in ListKeys : k = <<StreamOf[e], f>>
    BY KpiConstants DEF ListKeys, KpiConstants
  <2>2. Seen(k, e)'
    BY <1>2, <2>1, SeenStays DEF Reported
  <2> QED BY <2>1, <2>2 DEF Reported, Seen, InList, InSent
<1>3. CASE ~FreeSink /\ freed
  BY <1>3 DEF Next, GraphStep, ObserverStep, OnMessage, MissEvent, ConsumeEvent, GraphLock,
     AddNode, GraphPublish, GraphUnlock, JoinObserver, Disconnect, FreeSink, ObserverCheck,
     ObserverLock, ObserverUnlock, ObserverPublish, Tick, Finalize, vars, sinkVars
<1>4. CASE Converted(e, f)
  <2>1. CASE AddNode
    <3>1. gpc' \in {"publish", "unlock"} /\ cur' = cur
      BY <2>1 DEF AddNode
    <3>2. CurReported'
      BY <1>0, CurReportedStep
    <3>3. Reported(cur[1], cur[2])' /\ cur = <<e, f>>
      BY <1>4, <3>1, <3>2 DEF CurReported, Converted
    <3> QED BY <3>1, <3>3 DEF Reported, Seen, InList, InSent
  <2>2. CASE ~AddNode
    BY <1>4, <2>2 DEF Converted, Next, GraphStep, ObserverStep, OnMessage, MissEvent,
       ConsumeEvent, GraphLock, GraphPublish, GraphUnlock, JoinObserver, Disconnect,
       FreeSink, ObserverCheck, ObserverLock, ObserverUnlock, ObserverPublish, Tick,
       Finalize, vars
  <2> QED BY <2>1, <2>2
<1>5. CASE Gathering(e, f) /\ ~FreeSink /\ ~Reported(e, f)
  <2>1. ASSUME NEW ev \in Events, ConsumeEvent(ev)
        PROVE  Converted(e, f)' \/ Gathering(e, f)'
    <3>1. /\ passed' = passed \cup {ev} /\ missed' = missed /\ ev \notin passed /\ missed \subseteq passed
      BY <2>1 DEF ConsumeEvent, Due, Inv, TypeOK
    <3>2. \A s : IsMerged(e, f, s)' <=> IsMerged(e, f, s) \/ ev = [el |-> e, fr |-> f, stamp |-> s]
      BY <3>1 DEF IsMerged
    <3>3. \A s \in StampsOf(e) : IsMerged(e, f, s)' => Recorded(e, f, s)'
      BY <1>5, <2>1, <3>2, RecordedGrows DEF Gathering
    <3>4. CASE \E s \in StampsOf(e) : ~IsMerged(e, f, s)'
      BY <3>3, <3>4 DEF Gathering
    <3>5. CASE \A s \in StampsOf(e) : IsMerged(e, f, s)'
      <4>1. PICK t \in StampsOf(e) : ~IsMerged(e, f, t)
        BY <1>5 DEF Gathering
      <4>2. ev = [el |-> e, fr |-> f, stamp |-> t]
        BY <3>2, <3>5, <4>1
      <4>3. ev.el = e /\ ev.fr = f /\ ev.stamp = t
        BY <4>2
      <4>4. \A s \in StampsOf(e) \ {t} : IsMerged(e, f, s) /\ Recorded(e, f, s)
        <5>1. ASSUME NEW s \in StampsOf(e) \ {t} PROVE ev # [el |-> e, fr |-> f, stamp |-> s]
          BY <4>2
        <5> QED BY <1>5, <3>2, <3>5, <5>1 DEF Gathering
      <4>5. \A s \in StampsOf(e) : Recorded(e, f, s)'
        BY <3>3, <3>5
      <4>6. gpc' = "lock" /\ cur' = <<ev.el, ev.fr>>
        <5>1. \A s \in StampsOf(ev.el) : Recorded(ev.el, ev.fr, s)'
          BY <4>3, <4>5 DEF Recorded, HomeOf
        <5>2. \A s \in StampsOf(ev.el) \ {ev.stamp} :
                IsMerged(ev.el, ev.fr, s) /\ Recorded(ev.el, ev.fr, s)
          BY <4>3, <4>4
        <5> QED BY <1>0, <2>1, <5>1, <5>2, LastEventConverts
      <4> QED BY <4>3, <4>6 DEF Converted
    <3> QED BY <3>4, <3>5
  <2>2. ASSUME NEW ev \in Events, MissEvent(ev) PROVE Gathering(e, f)'
    <3>1. passed' \ missed' = passed \ missed /\ UNCHANGED kpis
      BY <2>2 DEF MissEvent, Due
    <3> QED BY <1>5, <3>1, GatheringStays DEF Recorded, HomeOf
  <2>3. CASE GraphUnlock
    <3>1. cur[2] \in Frames /\ Reported(cur[1], cur[2]) /\ cur \in KpiKeys
      BY <1>0, <2>3 DEF GraphUnlock, CurReported, Inv, CurKnown, TypeOK
    <3>2. cur # <<e, f>> /\ cur # <<e, NoFrame>>
      BY <1>5, <3>1, KpiConstants DEF NoFrame, Frames, KpiConstants
    <3>3. \A s : HomeOf(e, f, s) # cur
      BY <3>2 DEF HomeOf
    <3>4. \A s : Recorded(e, f, s) => Recorded(e, f, s)'
      BY <2>3, <3>3 DEF GraphUnlock, Remove, Recorded, HomeOf
    <3>5. passed' \ missed' = passed \ missed
      BY <2>3 DEF GraphUnlock, history
    <3> QED BY <1>5, <3>4, <3>5, GatheringStays
  <2>4. CASE ~(GraphUnlock \/ \E ev \in Events : MissEvent(ev) \/ ConsumeEvent(ev))
    <3>1. UNCHANGED <<kpis, passed, missed>>
      BY <1>5, <2>4 DEF Next, GraphStep, ObserverStep, OnMessage, GraphLock, AddNode,
         GraphPublish, JoinObserver, Disconnect, FreeSink, ObserverCheck, ObserverLock,
         ObserverUnlock, ObserverPublish, Tick, Finalize, vars, sinkVars, history
    <3> QED BY <1>5, <3>1, GatheringStays DEF Recorded, HomeOf
  <2> QED BY <2>1, <2>2, <2>3, <2>4
<1> QED BY <1>0, <1>1, <1>2, <1>3, <1>4, <1>5

(* A plugin whose events of a frame were all merged has its KPI reported,  *)
(* waiting or being converted until the sink is freed.                     *)
THEOREM NoCompleteKpiIsLost == Spec => []CompleteIsReported
<1>1. Init => OnceInv /\ KeptInv
  <2> SUFFICES ASSUME Init PROVE KeptInv
    BY OnceInit
  <2>1. \A e, f, s : ~IsMerged(e, f, s)
    BY DEF Init, IsMerged
  <2>2. \A e : "plugin_end" \in StampsOf(e)
    BY DEF StampsOf, Stamps
  <2>3. \A e, f : Gathering(e, f)
    BY <2>1, <2>2 DEF Gathering
  <2> QED BY <2>3 DEF Init, KeptInv, CurReported, InOrderPassed
<1>2. OnceInv /\ KeptInv /\ [Next]_vars => OnceInv' /\ KeptInv'
  <2> SUFFICES ASSUME OnceInv, KeptInv, [Next]_vars PROVE OnceInv' /\ KeptInv'
    OBVIOUS
  <2>1. OnceInv'
    BY OnceStep
  <2>2. InOrderPassed' /\ CurReported'
    BY InOrderPassedStep, CurReportedStep DEF OnceInv, KeptInv
  <2>3. \A e \in Elements, f \in Frames :
          freed' \/ Reported(e, f)' \/ Converted(e, f)' \/ Gathering(e, f)'
    BY NothingLostStep DEF OnceInv
  <2> QED BY <2>1, <2>2, <2>3 DEF KeptInv
<1>3. KeptInv => CompleteIsReported
  <2> SUFFICES ASSUME KeptInv, NEW e \in Elements, NEW f \in Frames,
                      \A s \in StampsOf(e) : [el |-> e, fr |-> f, stamp |-> s] \in passed \ missed
               PROVE  \/ freed
                      \/ Places(<<StreamOf[e], f>>, e) # {}
                      \/ gpc \in {"lock", "add"} /\ cur = <<e, f>>
    BY DEF CompleteIsReported
  <2>1. ~Gathering(e, f)
    BY DEF Gathering, IsMerged
  <2>2. Reported(e, f) => Places(<<StreamOf[e], f>>, e) # {}
    <3> DEFINE k == <<StreamOf[e], f>>
    <3>1. \A i : InList(k, e, i) => <<0, i>> \in Places(k, e)
      BY DEF InList, Places
    <3>2. \A m, i : InSent(k, e, m, i) => <<m, i>> \in Places(k, e)
      <4> SUFFICES ASSUME NEW m, NEW i, InSent(k, e, m, i) PROVE <<m, i>> \in Places(k, e)
        OBVIOUS
      <4>1. <<m, i>> \in {<<m, j>> : j \in {j \in DOMAIN sent[k][m] : sent[k][m][j].el = e}}
        BY DEF InSent
      <4> QED BY <4>1 DEF InSent, Places
    <3> QED BY <3>1, <3>2 DEF Reported, Seen
  <2> QED BY <2>1, <2>2 DEF KeptInv, Converted
<1> QED BY <1>1, <1>2, <1>3, PTL DEF Spec

-----------------------------------------------------------------------------
(* The sink implements KpiReport, step by step: AddNode measures, a        *)
(* publication of either thread reports, FreeSink closes, and everything   *)
(* else changes nothing that KpiReport sees.                               *)
Waiting(k)  == ElementsIn(lists[k])
Messages(k) == [m \in DOMAIN sent[k] |-> ElementsIn(sent[k][m])]

LEMMA ElementsInList ==
  \A k, e : e \in Waiting(k) <=> \E i : InList(k, e, i)
BY DEF Waiting, ElementsIn, InList

LEMMA MessagesType ==
  ASSUME TypeOK, NEW k \in ListKeys
  PROVE  Messages(k) \in Seq(SUBSET Elements) /\ Waiting(k) \in SUBSET Elements
<1>1. lists[k] \in Seq(Node) /\ sent[k] \in Seq(Seq(Node))
  BY DEF TypeOK
<1>2. ASSUME NEW q \in Seq(Node) PROVE ElementsIn(q) \in SUBSET Elements
  <2>1. \A i \in DOMAIN q : q[i].el \in Elements
    <3>1. \A i \in DOMAIN q : q[i] \in Node
      OBVIOUS
    <3> QED BY <3>1 DEF Node
  <2> QED BY <2>1 DEF ElementsIn
<1>3. \A m \in 1 .. Len(sent[k]) : ElementsIn(sent[k][m]) \in SUBSET Elements
  BY <1>1, <1>2
<1>4. [m \in 1 .. Len(sent[k]) |-> ElementsIn(sent[k][m])] \in Seq(SUBSET Elements)
  BY <1>1, <1>3
<1>5. DOMAIN sent[k] = 1 .. Len(sent[k])
  BY <1>1
<1> QED BY <1>1, <1>2, <1>4, <1>5 DEF Messages, Waiting

LEMMA AddNodeMeasures ==
  ASSUME OnceInv, AddNode
  PROVE  Report!Next
<1>1. /\ CurList \in ListKeys /\ cur[1] \in Elements /\ ~freed /\ ~freed'
      /\ gpc = "add" /\ cur \in DOMAIN kpis /\ sent' = sent
  BY CurTypes DEF AddNode, OnceInv, Inv, CurKnown, TearDownOrder, sinkVars, TypeOK, KpiKeys
<1>2. ~Seen(CurList, cur[1])
  BY <1>1 DEF OnceInv, CurComplete, CurIsNew, CurList
<1>3. PICK k \in ListKeys, e \in Elements : k = CurList /\ e = cur[1]
  BY <1>1
<1>4. \A j \in ListKeys : Waiting(j)' = (IF j = k THEN Waiting(j) \cup {e} ELSE Waiting(j))
  <2> SUFFICES ASSUME NEW j \in ListKeys, NEW x
               PROVE  x \in Waiting(j)' <=> x \in Waiting(j) \/ (j = k /\ x = e)
    BY DEF Waiting, ElementsIn
  <2>1. x \in Waiting(j)' <=> \E i : InList(j, x, i)'
    BY DEF Waiting, ElementsIn, InList
  <2>2. \A i : InList(j, x, i)' <=>
          (InList(j, x, i) \/ (j = k /\ x = e /\ i = Len(lists[j]) + 1))
    BY <1>3, AddNodeFacts DEF OnceInv
  <2> QED BY <2>1, <2>2, ElementsInList
<1>5. \A m : \A i : ~InSent(k, e, m, i) /\ ~InList(k, e, i)
  BY <1>2, <1>3 DEF Seen
<1>6. e \notin Waiting(k) /\ \A m \in DOMAIN sent[k] : e \notin ElementsIn(sent[k][m])
  BY <1>5, ElementsInList DEF InSent, ElementsIn
<1>7. [j \in ListKeys |-> Waiting(j)]' =
        [[j \in ListKeys |-> Waiting(j)] EXCEPT ![k] = @ \cup {e}]
  BY <1>4
<1>8. Report!Measure(e, k)
  <2>1. e \notin Report!Reported(k)
    BY <1>6 DEF Report!Reported
  <2>2. e \notin [j \in ListKeys |-> ElementsIn(lists[j])][k] \cup Report!Reported(k)
    BY <1>6, <2>1 DEF Waiting
  <2>3. UNCHANGED <<~freed, [j \in ListKeys |-> Messages(j)]>>
    BY <1>1 DEF Messages
  <2> QED BY <1>1, <1>7, <2>2, <2>3 DEF Report!Measure, Waiting, Messages
<1> QED BY <1>8 DEF Report!Next

LEMMA PublishReports ==
  ASSUME Inv, NEW k \in ListKeys, Publish(k), lists[k] # <<>>, ~freed, ~freed'
  PROVE  Report!Next
<1>1. /\ lists \in [ListKeys -> Seq(Node)] /\ sent \in [ListKeys -> Seq(Seq(Node))]
      /\ lists[k] \in Seq(Node) /\ sent[k] \in Seq(Seq(Node))
  BY DEF Inv, TypeOK
<1>2. lists' = [lists EXCEPT ![k] = <<>>] /\ sent' = [sent EXCEPT ![k] = Append(sent[k], lists[k])]
  BY DEF Publish, PopAll
<1>3. Waiting(k) # {}
  <2>1. 1 \in DOMAIN lists[k]
    BY <1>1
  <2> QED BY <2>1 DEF Waiting, ElementsIn
<1>4. \A j \in ListKeys : Waiting(j)' = (IF j = k THEN {} ELSE Waiting(j))
  BY <1>1, <1>2 DEF Waiting, ElementsIn
<1>5. [j \in ListKeys |-> Waiting(j)]' = [[j \in ListKeys |-> Waiting(j)] EXCEPT ![k] = {}]
  BY <1>4
<1>6. Messages(k)' = Append(Messages(k), Waiting(k))
  <2>1. Messages(k) \in Seq(SUBSET Elements) /\ Waiting(k) \in SUBSET Elements
    BY MessagesType DEF Inv
  <2>2. /\ DOMAIN sent'[k] = DOMAIN sent[k] \cup {Len(sent[k]) + 1}
        /\ \A m \in DOMAIN sent[k] : sent'[k][m] = sent[k][m]
        /\ sent'[k][Len(sent[k]) + 1] = lists[k]
        /\ Len(sent[k]) + 1 \notin DOMAIN sent[k]
    BY <1>1, <1>2, AppendFacts
  <2>3. DOMAIN Messages(k) = DOMAIN sent[k] /\ Len(Messages(k)) = Len(sent[k])
    BY <1>1, <2>1 DEF Messages
  <2>4. /\ DOMAIN Append(Messages(k), Waiting(k)) = DOMAIN sent[k] \cup {Len(sent[k]) + 1}
        /\ \A m \in DOMAIN sent[k] : Append(Messages(k), Waiting(k))[m] = ElementsIn(sent[k][m])
        /\ Append(Messages(k), Waiting(k))[Len(sent[k]) + 1] = ElementsIn(lists[k])
    <3>1. \A m \in DOMAIN sent[k] : Messages(k)[m] = ElementsIn(sent[k][m])
      BY DEF Messages
    <3> QED BY <2>1, <2>3, <3>1, AppendFacts DEF Waiting
  <2>5. /\ DOMAIN Messages(k)' = DOMAIN sent'[k]
        /\ \A m \in DOMAIN sent'[k] : Messages(k)'[m] = ElementsIn(sent'[k][m])
    BY DEF Messages
  <2>6. \A m \in DOMAIN sent'[k] : Messages(k)'[m] = Append(Messages(k), Waiting(k))[m]
    BY <2>2, <2>4, <2>5
  <2>7. Append(Messages(k), Waiting(k)) \in Seq(SUBSET Elements)
    BY <2>1
  <2>8. /\ Messages(k)' = [m \in DOMAIN Messages(k)' |-> Messages(k)'[m]]
        /\ Append(Messages(k), Waiting(k)) =
             [m \in DOMAIN Append(Messages(k), Waiting(k)) |-> Append(Messages(k), Waiting(k))[m]]
    BY <2>7 DEF Messages
  <2> QED BY <2>2, <2>4, <2>5, <2>6, <2>8
<1>7. \A j \in ListKeys : j # k => Messages(j)' = Messages(j)
  BY <1>1, <1>2 DEF Messages
<1>8. [j \in ListKeys |-> Messages(j)]' =
        [[j \in ListKeys |-> Messages(j)] EXCEPT ![k] = Append(@, Waiting(k))]
  BY <1>6, <1>7
<1>9. Report!Report(k)
  BY <1>3, <1>5, <1>8 DEF Report!Report, Waiting, Messages
<1> QED BY <1>9 DEF Report!Next

LEMMA FreeSinkCloses ==
  ASSUME Inv, FreeSink
  PROVE  Report!Next
<1>1. ~freed /\ freed' /\ sent' = sent /\ \A j \in ListKeys : lists'[j] = <<>>
  BY DEF FreeSink, Inv, TearDownOrder
<1>2. \A j \in ListKeys : ElementsIn(lists'[j]) = {}
  BY <1>1 DEF ElementsIn
<1>3. Report!Close
  BY <1>1, <1>2 DEF Report!Close
<1> QED BY <1>3 DEF Report!Next

(* Whatever the two threads, the clock and the commands do, a KPI is taken *)
(* from the maps and published as if its group were handled in one step,   *)
(* and once only.                                                          *)
THEOREM SinkImplementsReport == Spec => ImplementsReport
<1>1. Init => Report!Init
  BY DEF Init, Report!Init, ElementsIn
<1>2. OnceInv /\ [Next]_vars => [Report!Next]_(Report!reportVars)
  <2> SUFFICES ASSUME OnceInv, [Next]_vars PROVE Report!Next \/ UNCHANGED Report!reportVars
    OBVIOUS
  <2>1. CASE AddNode
    BY <2>1, AddNodeMeasures
  <2>2. CASE FreeSink
    BY <2>2, FreeSinkCloses DEF OnceInv
  <2>3. CASE GraphPublish
    <3>1. /\ CurList \in ListKeys /\ Publish(CurList) /\ lists[CurList] # <<>>
          /\ ~freed /\ ~freed'
      BY <2>3, CurTypes DEF GraphPublish, OnceInv, Inv, CurKnown, PublishedListExists,
         TearDownOrder, sinkVars, TypeOK
    <3> QED BY <3>1, PublishReports DEF OnceInv
  <2>4. ASSUME NEW k \in ListKeys, ObserverPublish(k) PROVE Report!Next
    <3>1. Publish(k) /\ lists[k] # <<>> /\ ~freed /\ ~freed'
      BY <2>4 DEF ObserverPublish, OnceInv, Inv, PublishedListExists, TearDownOrder, sinkVars
    <3> QED BY <3>1, PublishReports DEF OnceInv
  <2>5. CASE OtherStep
    <3>1. UNCHANGED <<freed, lists, sent>>
      BY <2>5 DEF OtherStep, OnMessage, MissEvent, ConsumeEvent, GraphLock, GraphUnlock,
         JoinObserver, Disconnect, ObserverCheck, ObserverLock, ObserverUnlock,
         Tick, Finalize, vars, sinkVars, history
    <3> QED BY <3>1 DEF Report!reportVars, ElementsIn
  <2> QED BY <2>1, <2>2, <2>3, <2>4, <2>5 DEF Next, GraphStep, ObserverStep, OtherStep
<1>3. Init => OnceInv
  BY OnceInit
<1>4. OnceInv /\ [Next]_vars => OnceInv'
  BY OnceStep
<1> QED BY <1>1, <1>2, <1>3, <1>4, PTL DEF Spec, ImplementsReport, Report!Spec

-----------------------------------------------------------------------------
(* Why the start time of a KPI is that of its own frame as long as nobody  *)
(* sends stop-kpis.                                                        *)
NeverStopped == [][push => push']_push

(* The entry <plugin, frame -1> holds the last START that went by.         *)
LastIs(e, v) ==
  /\ kpis[<<e, NoFrame>>].at["plugin_start"] = v
  /\ Passed(e, v, "plugin_start")
  /\ \A f \in Frames : Passed(e, f, "plugin_start") => f <= v

LastStart ==
  \A e \in Elements : <<e, NoFrame>> \in DOMAIN kpis => \E v \in Frames : LastIs(e, v)

OwnStarts ==
  \A k \in DOMAIN kpis : k[2] \in Frames => kpis[k].at["plugin_start"] \in {0, k[2]}

StartInv ==
  /\ IsFiniteSet(missed)
  /\ ~push => DOMAIN kpis = {}
  /\ InOrderPassed /\ LastStart /\ OwnStarts /\ StartIsOwn

(* Without stop-kpis and without loss, nothing is missed once an event was *)
(* merged.                                                                 *)
LEMMA MissedBefore ==
  ASSUME MaxLost = 0, StartInv, NEW ev \in Events, MissEvent(ev)
  PROVE  DOMAIN kpis = {} /\ kpis' = kpis
<1>1. Cardinality(missed) \in Nat
  BY FS_CardinalityType DEF StartInv
<1>2. ~push
  BY <1>1 DEF MissEvent
<1> QED BY <1>2 DEF StartInv, MissEvent

LEMMA LastStartStep == MaxLost = 0 /\ Inv /\ StoredKpis /\ StartInv /\ [Next]_vars => LastStart'
<1> SUFFICES ASSUME MaxLost = 0, Inv, StoredKpis, StartInv, [Next]_vars, NEW e \in Elements,
                    <<e, NoFrame>> \in DOMAIN kpis'
             PROVE  \E v \in Frames : LastIs(e, v)'
  BY DEF LastStart
<1> DEFINE start == <<e, NoFrame>>
<1>1. ASSUME start \in DOMAIN kpis, kpis'[start] = kpis[start],
             \A f \in Frames : Passed(e, f, "plugin_start")' <=> Passed(e, f, "plugin_start")
      PROVE  \E v \in Frames : LastIs(e, v)'
  <2>1. PICK v \in Frames : LastIs(e, v)
    BY <1>1 DEF StartInv, LastStart
  <2>2. LastIs(e, v)'
    BY <1>1, <2>1 DEF LastIs
  <2> QED BY <2>2
<1>2. ASSUME NEW ev \in Events, ConsumeEvent(ev)
      PROVE  \E v \in Frames : LastIs(e, v)'
  <2> DEFINE key == KpiKey(ev)
  <2>0. NoFrame \notin Frames /\ Frames \subseteq Int
    BY KpiConstants DEF NoFrame, Frames, KpiConstants
  <2>1. /\ ev.el \in Elements /\ ev.fr \in Frames /\ ev.stamp \in Stamps
        /\ ev = [el |-> ev.el, fr |-> ev.fr, stamp |-> ev.stamp]
        /\ passed' = passed \cup {ev} /\ Due(ev)
    BY <1>2 DEF Events, ConsumeEvent
  <2>2. CASE IsPcieStart(ev) /\ ev.el = e
    <3>1. key = start /\ ev.stamp = "plugin_start" /\ KindOf[e] = "PCIe"
      BY <2>2 DEF KpiKey, IsPcieStart
    <3>2. kpis'[start].at["plugin_start"] = ev.fr
      BY <1>2, <2>1, <3>1, MergedFacts
    <3>3. Passed(e, ev.fr, "plugin_start")'
      BY <2>1, <2>2, <3>1 DEF Passed
    <3>4. ASSUME NEW f \in Frames, Passed(e, f, "plugin_start")' PROVE f <= ev.fr
      <4> DEFINE st == [el |-> e, fr |-> f, stamp |-> "plugin_start"]
      <4>1. st \in passed \/ f = ev.fr
        BY <2>1, <3>4 DEF Passed
      <4>2. st \in Events
        BY <2>1, <2>2, <3>1 DEF Events, StampsOf, Stamps
      <4>3. ev.fr < f => Before(ev, st)
        BY <2>2, <3>1 DEF Before
      <4>4. ~(st \in passed /\ ev.fr < f)
        BY <2>1, <4>2, <4>3 DEF StartInv, InOrderPassed, Due
      <4> QED BY <2>0, <2>1, <4>1, <4>4
    <3> QED BY <2>1, <3>2, <3>3, <3>4 DEF LastIs
  <2>3. CASE ~(IsPcieStart(ev) /\ ev.el = e)
    <3>1. key # start
      BY <2>0, <2>1, <2>3 DEF KpiKey
    <3>2. start \in DOMAIN kpis /\ kpis'[start] = kpis[start]
      BY <1>2, <3>1 DEF ConsumeEvent, Store
    <3>3. KindOf[e] = "PCIe"
      BY <2>0, <3>2 DEF StoredKpis
    <3>4. \A f \in Frames : Passed(e, f, "plugin_start")' <=> Passed(e, f, "plugin_start")
      BY <2>1, <2>3, <3>3 DEF Passed, IsPcieStart
    <3> QED BY <1>1, <3>2, <3>4
  <2> QED BY <2>2, <2>3
<1>3. CASE \E ev \in Events : MissEvent(ev)
  BY <1>3, MissedBefore
<1>4. CASE FreeSink
  BY <1>4, FreeFacts
<1>5. CASE ~(FreeSink \/ \E ev \in Events : MissEvent(ev) \/ ConsumeEvent(ev))
  <2>1. passed' = passed /\ start \in DOMAIN kpis /\ kpis'[start] = kpis[start]
    BY <1>5 DEF Next, GraphStep, ObserverStep, OnMessage, GraphLock, AddNode, GraphPublish,
         GraphUnlock, Remove, JoinObserver, Disconnect, ObserverCheck, ObserverLock,
         ObserverUnlock, ObserverPublish, Tick, Finalize, vars, sinkVars, history
  <2> QED BY <1>1, <2>1 DEF Passed
<1> QED BY <1>2, <1>3, <1>4, <1>5

LEMMA OwnStartsStep == Inv /\ StoredKpis /\ StartInv /\ [Next]_vars => OwnStarts'
<1> SUFFICES ASSUME Inv, StoredKpis, StartInv, [Next]_vars, NEW k \in DOMAIN kpis', k[2] \in Frames
             PROVE  kpis'[k].at["plugin_start"] \in {0, k[2]}
  BY DEF OwnStarts
<1>1. ASSUME NEW ev \in Events, ConsumeEvent(ev)
      PROVE  kpis'[k].at["plugin_start"] \in {0, k[2]}
  <2> DEFINE key   == KpiKey(ev)
             start == <<ev.el, NoFrame>>
  <2>0. NoFrame \notin Frames /\ Frames \subseteq Int
    BY KpiConstants DEF NoFrame, Frames, KpiConstants
  <2>1. /\ ev.el \in Elements /\ ev.fr \in Frames /\ ev.stamp \in Stamps
        /\ ev = [el |-> ev.el, fr |-> ev.fr, stamp |-> ev.stamp] /\ Due(ev)
    BY <1>1 DEF Events, ConsumeEvent
  <2>2. CASE k # key
    <3>1. k \in DOMAIN kpis /\ kpis'[k] = kpis[k]
      BY <1>1, <2>2 DEF ConsumeEvent, Store
    <3> QED BY <3>1 DEF StartInv, OwnStarts
  <2>3. CASE k = key
    <3>1. key[2] = ev.fr /\ (key \in DOMAIN kpis => kpis[key].at["plugin_start"] \in {0, ev.fr})
      BY <2>0, <2>3 DEF KpiKey, StartInv, OwnStarts
    <3>2. CASE KindOf[ev.el] = "PCIe" /\ ev.stamp = "plugin_end" /\ start \in DOMAIN kpis
      <4> DEFINE last == kpis[start].at["plugin_start"]
                 st   == [el |-> ev.el, fr |-> ev.fr, stamp |-> "plugin_start"]
                 stl  == [el |-> ev.el, fr |-> last, stamp |-> "plugin_start"]
      <4>1. last \in Frames /\ stl \in passed /\ (st \in passed => ev.fr <= last)
        BY <2>1, <3>2 DEF StartInv, LastStart, LastIs, Passed
      <4>2. st \in Events /\ stl \in Events
        BY <2>1, <3>2, <4>1 DEF Events, StampsOf, Stamps
      <4>3. st \in passed
        BY <2>1, <3>2, <4>2 DEF Due, Before
      <4>4. ~(ev.fr < last)
        BY <2>1, <3>2, <4>1, <4>2 DEF StartInv, InOrderPassed, Due, Before
      <4>5. kpis'[key].at["plugin_start"] = last
        BY <1>1, <3>2, MergedFacts DEF Stamps
      <4> QED BY <2>0, <2>1, <2>3, <3>1, <4>1, <4>3, <4>4, <4>5
    <3>3. CASE ~(KindOf[ev.el] = "PCIe" /\ ev.stamp = "plugin_end" /\ start \in DOMAIN kpis)
      <4>1. kpis'[key].at["plugin_start"] =
              IF "plugin_start" = ev.stamp THEN ev.fr
              ELSE IF key \in DOMAIN kpis THEN kpis[key].at["plugin_start"] ELSE 0
        BY <1>1, <3>3, MergedFacts DEF Stamps
      <4> QED BY <2>3, <3>1, <4>1
    <3> QED BY <3>2, <3>3
  <2> QED BY <2>2, <2>3
<1>2. CASE FreeSink
  BY <1>2, FreeFacts
<1>3. CASE ~(FreeSink \/ \E ev \in Events : ConsumeEvent(ev))
  <2>1. k \in DOMAIN kpis /\ kpis'[k] = kpis[k]
    BY <1>3 DEF Next, GraphStep, ObserverStep, OnMessage, MissEvent, GraphLock, AddNode,
         GraphPublish, GraphUnlock, Remove, JoinObserver, Disconnect, ObserverCheck,
         ObserverLock, ObserverUnlock, ObserverPublish, Tick, Finalize, vars, sinkVars, history
  <2> QED BY <2>1 DEF StartInv, OwnStarts
<1> QED BY <1>1, <1>2, <1>3

LEMMA StartIsOwnStep ==
  Inv /\ CurComplete /\ CurStarted /\ StartInv /\ [Next]_vars => StartIsOwn'
<1> SUFFICES ASSUME Inv, CurComplete, CurStarted, StartInv, [Next]_vars,
                    NEW k \in ListKeys, NEW i \in DOMAIN lists'[k]
             PROVE  lists'[k][i].start = k[2]
  BY DEF StartIsOwn
<1>0. lists \in [ListKeys -> Seq(Node)] /\ \A j \in DOMAIN lists[k] : lists[k][j].start = k[2]
  BY DEF Inv, TypeOK, StartInv, StartIsOwn
<1>1. CASE AddNode
  <2> DEFINE node == [el |-> cur[1], start |-> kpis[cur].at["plugin_start"],
                      named |-> kpis[cur].named]
  <2>1. /\ CurList \in ListKeys /\ node \in Node /\ cur \in DOMAIN kpis
        /\ CurList[2] = cur[2] /\ gpc = "add"
    BY <1>1, CurTypes DEF AddNode, Inv, CurKnown, CurList
  <2>2. lists' = [lists EXCEPT ![CurList] = Append(lists[CurList], node)]
    BY <1>1 DEF AddNode
  <2>3. node.start = cur[2]
    BY <2>1 DEF CurComplete, CurIsNew, CurStarted, StartInv, OwnStarts
  <2> HIDE DEF node
  <2>4. CASE k = CurList
    <3>1. /\ DOMAIN lists'[k] = DOMAIN lists[k] \cup {Len(lists[k]) + 1}
          /\ \A j \in DOMAIN lists[k] : lists'[k][j] = lists[k][j]
          /\ lists'[k][Len(lists[k]) + 1] = node
      BY <1>0, <2>1, <2>2, <2>4, AppendFacts
    <3> QED BY <1>0, <2>1, <2>3, <2>4, <3>1
  <2>5. CASE k # CurList
    BY <1>0, <2>2, <2>5
  <2> QED BY <2>4, <2>5
<1>2. ASSUME NEW j \in ListKeys, Publish(j) PROVE lists'[k][i].start = k[2]
  BY <1>0, <1>2 DEF Publish, PopAll
<1>3. CASE FreeSink
  BY <1>3 DEF FreeSink
<1>4. CASE OtherStep
  BY <1>0, <1>4, OtherUnchanged
<1> QED BY <1>1, <1>2, <1>3, <1>4, StepCases

LEMMA StartInvStep ==
  ASSUME MaxLost = 0, OnceInv, LabelInv, StartInv, [Next]_vars, push => push'
  PROVE  StartInv'
<1>1. LastStart' /\ OwnStarts' /\ StartIsOwn' /\ InOrderPassed'
  BY LastStartStep, OwnStartsStep, StartIsOwnStep, InOrderPassedStep
     DEF OnceInv, LabelInv, StartInv
<1>2. CASE \E ev \in Events : MissEvent(ev)
  <2>1. PICK ev \in Events : MissEvent(ev)
    BY <1>2
  <2>2. missed' = missed \cup {ev}
    BY <2>1 DEF MissEvent
  <2>3. IsFiniteSet(missed')
    BY <2>2, FS_AddElement DEF StartInv
  <2>4. DOMAIN kpis' = {}
    BY <2>1, MissedBefore
  <2> QED BY <1>1, <2>3, <2>4 DEF StartInv
<1>3. CASE ~\E ev \in Events : MissEvent(ev)
  <2>1. missed' = missed
    BY <1>3 DEF Next, GraphStep, ObserverStep, OnMessage, ConsumeEvent, GraphLock, AddNode,
         GraphPublish, GraphUnlock, JoinObserver, Disconnect, FreeSink, ObserverCheck,
         ObserverLock, ObserverUnlock, ObserverPublish, Tick, Finalize, vars, history
  <2>2. ~push' => DOMAIN kpis' = {}
    <3>1. CASE FreeSink
      BY <3>1, FreeFacts
    <3>2. CASE \E ev \in Events : ConsumeEvent(ev)
      BY <3>2 DEF ConsumeEvent
    <3>3. CASE ~(FreeSink \/ \E ev \in Events : ConsumeEvent(ev))
      <4>1. DOMAIN kpis' \subseteq DOMAIN kpis
        BY <1>3, <3>3 DEF Next, GraphStep, ObserverStep, OnMessage, GraphLock, AddNode,
         GraphPublish, GraphUnlock, Remove, JoinObserver, Disconnect, ObserverCheck,
         ObserverLock, ObserverUnlock, ObserverPublish, Tick, Finalize, vars, sinkVars, history
      <4> QED BY <4>1 DEF StartInv
    <3> QED BY <3>1, <3>2, <3>3
  <2> QED BY <1>1, <2>1, <2>2 DEF StartInv
<1> QED BY <1>2, <1>3

(* When no event is lost and nobody sends stop-kpis, a reported KPI starts *)
(* at the START event of its own frame, however often start-kpis is sent.  *)
(* Without the hypothesis it does not: see the finding about kpi_sender.c. *)
THEOREM StartsAreOwn ==
  ASSUME MaxLost = 0
  PROVE  Spec /\ NeverStopped => []StartIsOwn
<1>1. Init => OnceInv /\ LabelInv /\ StartInv
  <2> SUFFICES ASSUME Init PROVE LabelInv /\ StartInv
    BY OnceInit
  <2>1. IsFiniteSet(missed)
    BY FS_EmptySet DEF Init
  <2>2. StartInv
    BY <2>1 DEF Init, StartInv, InOrderPassed, LastStart, OwnStarts, StartIsOwn
  <2> QED BY <2>2 DEF Init, LabelInv, NamedKpis, CurStarted, NodesNamed
<1>2. /\ OnceInv /\ LabelInv /\ StartInv /\ [Next]_vars /\ [push => push']_push
      => OnceInv' /\ LabelInv' /\ StartInv'
  BY OnceStep, NamedKpisStep, CurStartedStep, NodesNamedStep, StartInvStep
     DEF OnceInv, LabelInv
<1>3. StartInv => StartIsOwn
  BY DEF StartInv
<1> QED BY <1>1, <1>2, <1>3, PTL DEF Spec, NeverStopped

-----------------------------------------------------------------------------
(* Why a frame leaves in one message when its KPIs follow each other       *)
(* within MaxGap, and plugins_count counts every plugin of the stream.     *)
StreamElements(s) == {e \in Elements : StreamOf[e] = s}

CountsEveryPlugin ==
  IsFiniteSet(Elements) /\ \A s \in Streams : Cardinality(StreamElements(s)) <= PluginsCount

(* A list to which a KPI may still come is younger than the threshold, and *)
(* neither thread is about to publish it.                                  *)
InTime ==
  /\ \A k \in ListKeys : lists[k] # <<>> /\ Outstanding(k) => age[k] <= MaxGap
  /\ opc = "scan" => \A k \in expired : ~Outstanding(k)
  /\ gpc = "publish" => Len(lists[CurList]) >= PluginsCount

Final ==
  \A k \in ListKeys :
    sent[k] # <<>> => Len(sent[k]) = 1 /\ lists[k] = <<>> /\ ~Outstanding(k)

(* Nothing comes back: no step makes a list wait for a KPI again.          *)
LEMMA OutstandingShrinks ==
  ASSUME OnceInv, OnceInv', [Next]_vars, NEW k \in ListKeys, Outstanding(k)'
  PROVE  Outstanding(k)
<1>1. passed \subseteq passed'
  BY DEF Next, GraphStep, ObserverStep, OnMessage, MissEvent, ConsumeEvent, GraphLock, AddNode,
     GraphPublish, GraphUnlock, JoinObserver, Disconnect, FreeSink, ObserverCheck,
     ObserverLock, ObserverUnlock, ObserverPublish, Tick, Finalize, vars, history
<1>2. CASE \E ev \in Events \ passed' : <<StreamOf[ev.el], ev.fr>> = k
  BY <1>1, <1>2 DEF Outstanding
<1>3. CASE gpc' \in {"lock", "add"} /\ CurList' = k
  <2>1. ASSUME NEW ev \in Events, ConsumeEvent(ev) PROVE Outstanding(k)
    <3>1. gpc' = "lock" /\ cur' = KpiKey(ev) /\ ev \in Events \ passed
      BY <1>3, <2>1, MergedFacts DEF OnceInv, ConsumeEvent, Due
    <3>2. cur'[2] \in Frames /\ kpis'[cur'].stream = StreamOf[cur'[1]]
      BY <1>3 DEF OnceInv, CurComplete, CurIsNew
    <3>3. NoFrame \notin Frames
      BY KpiConstants DEF NoFrame, Frames, KpiConstants
    <3>4. cur'[1] = ev.el /\ cur'[2] = ev.fr
      BY <3>1, <3>2, <3>3 DEF KpiKey
    <3>5. k = <<StreamOf[ev.el], ev.fr>>
      BY <1>3, <3>2, <3>4 DEF CurList
    <3> QED BY <3>1, <3>5 DEF Outstanding
  <2>2. CASE gpc \in {"lock", "add"} /\ UNCHANGED <<kpis, cur>>
    BY <1>3, <2>2 DEF Outstanding, CurList
  <2> QED BY <1>3, <2>1, <2>2, CurStays DEF OnceInv
<1> QED BY <1>2, <1>3 DEF Outstanding

(* A list of plugins_count nodes holds every plugin of its stream.         *)
LEMMA FullIsOver ==
  ASSUME CountsEveryPlugin, OnceInv, gpc = "publish", CurList \in ListKeys,
         lists[CurList] # <<>>, Len(lists[CurList]) >= PluginsCount
  PROVE  ~Outstanding(CurList)
<1>0. PICK k \in ListKeys : k = CurList
  OBVIOUS
<1> DEFINE n == Len(lists[k])
           S == {lists[k][i].el : i \in 1 .. n}
           T == StreamElements(k[1])
           f == [i \in 1 .. n |-> lists[k][i].el]
<1>1. /\ lists[k] \in Seq(Node) /\ n \in Nat /\ n # 0 /\ DOMAIN lists[k] = 1 .. n
      /\ n >= PluginsCount
  BY <1>0 DEF OnceInv, Inv, TypeOK
<1>2. \A i \in 1 .. n : lists[k][i].el \in Elements /\ InList(k, lists[k][i].el, i)
  <2>1. \A i \in 1 .. n : lists[k][i] \in Node
    BY <1>1
  <2> QED BY <1>1, <2>1 DEF InList, Node
<1>3. lists[k][1].el \in S /\ \A e \in S : e \in Elements /\ Seen(k, e)
  BY <1>1, <1>2 DEF Seen
<1>4. \A e \in S : /\ k[2] \in Frames /\ k[1] = StreamOf[e] /\ e \in T
                   /\ \A s \in StampsOf(e) : Passed(e, k[2], s)
  <2> HIDE DEF S
  <2> QED BY <1>3 DEF OnceInv, SeenPassed, StreamElements
<1>5. T \subseteq Elements /\ IsFiniteSet(T) /\ Cardinality(T) <= PluginsCount
  <2>1. k[1] \in Streams
    <3> HIDE DEF S
    <3> QED BY <1>3, <1>4, KpiConstants DEF KpiConstants
  <2> QED BY <2>1, FS_Subset DEF CountsEveryPlugin, StreamElements
<1>6. Cardinality(S) = n /\ IsFiniteSet(S)
  <2>1. \A i, j \in 1 .. n : f[i] = f[j] => i = j
    BY <1>2 DEF OnceInv, Unique, InList
  <2>2. f \in Bijection(1 .. n, S)
    BY <2>1 DEF Bijection, Injection, Surjection, IsInjective
  <2>3. ExistsBijection(1 .. n, S)
    BY <2>2 DEF ExistsBijection
  <2> HIDE DEF S, f, n
  <2> QED BY <1>1, <2>3, FS_CountingElements, FS_NatBijection
<1>7. S = T
  <2> HIDE DEF S, T, n
  <2>1. Cardinality(S) <= Cardinality(T)
    BY <1>4, <1>5, FS_Subset
  <2>2. Cardinality(T) \in Nat
    BY <1>5, FS_CardinalityType
  <2>3. Cardinality(S) = Cardinality(T)
    BY <1>1, <1>5, <1>6, <2>1, <2>2, KpiConstants DEF KpiConstants
  <2> QED BY <1>4, <1>5, <2>3, FS_Subset
<1>8. ASSUME NEW ev \in Events, <<StreamOf[ev.el], ev.fr>> = k PROVE ev \in passed
  <2>1. /\ ev.el \in Elements /\ ev.stamp \in StampsOf(ev.el) /\ ev.fr = k[2]
        /\ ev = [el |-> ev.el, fr |-> ev.fr, stamp |-> ev.stamp] /\ StreamOf[ev.el] = k[1]
    BY <1>8 DEF Events
  <2>2. ev.el \in S
    BY <1>7, <2>1 DEF StreamElements
  <2> QED BY <1>4, <2>1, <2>2 DEF Passed
<1> QED BY <1>0, <1>8 DEF Outstanding

LEMMA InTimeStep ==
  ASSUME MaxGap <= Threshold, OnceInv, OnceInv', InTime, [Next]_vars
  PROVE  InTime'
<1>0. /\ lists \in [ListKeys -> Seq(Node)] /\ age \in [ListKeys -> 0 .. Threshold + 1]
      /\ MaxGap \in Nat /\ Threshold \in Nat /\ Inv
  BY KpiConstants DEF OnceInv, Inv, TypeOK, KpiConstants
<1>1. ASSUME NEW k \in ListKeys, lists'[k] # <<>>, Outstanding(k)' PROVE age'[k] <= MaxGap
  <2>1. Outstanding(k)
    BY <1>1, OutstandingShrinks
  <2>2. lists[k] # <<>> => age[k] <= MaxGap /\ age[k] \in Int
    BY <1>0, <2>1 DEF InTime
  <2>3. CASE AddNode
    <3>1. CurList \in ListKeys
      BY <1>0, <2>3, AddNodeFacts
    <3>2. CASE k = CurList
      BY <1>0, <2>3, <3>2 DEF AddNode
    <3>3. CASE k # CurList
      BY <1>0, <1>1, <2>2, <2>3, <3>3 DEF AddNode
    <3> QED BY <3>2, <3>3
  <2>4. ASSUME NEW j \in ListKeys, Publish(j) PROVE age'[k] <= MaxGap
    BY <1>0, <1>1, <2>2, <2>4 DEF Publish, PopAll
  <2>5. CASE FreeSink
    BY <1>1, <2>5 DEF FreeSink
  <2>6. CASE Tick
    BY <1>0, <1>1, <2>1, <2>6 DEF Tick
  <2>7. CASE OtherStep /\ ~Tick
    <3>1. UNCHANGED <<lists, age>>
      BY <2>7 DEF OtherStep, OnMessage, MissEvent, ConsumeEvent, GraphLock, GraphUnlock,
         JoinObserver, Disconnect, ObserverCheck, ObserverLock, ObserverUnlock,
         Finalize, vars, sinkVars, history
    <3> QED BY <1>1, <2>2, <3>1
  <2> QED BY <1>0, <2>3, <2>4, <2>5, <2>6, <2>7, StepCases
<1>2. ASSUME opc' = "scan", NEW k \in expired' PROVE ~Outstanding(k)'
  <2>1. k \in ListKeys
    BY <1>2 DEF OnceInv, Inv, TypeOK
  <2>2. CASE ObserverLock
    <3>1. lists[k] # <<>> /\ age[k] > Threshold
      BY <1>2, <2>2 DEF ObserverLock, IsStale
    <3>2. ~Outstanding(k)
      BY <1>0, <2>1, <3>1 DEF InTime
    <3> QED BY <2>1, <3>2, OutstandingShrinks
  <2>3. CASE ~ObserverLock
    <3>1. opc = "scan" /\ expired' \subseteq expired
      BY <1>2, <2>3 DEF Next, GraphStep, ObserverStep, OnMessage, MissEvent, ConsumeEvent,
         GraphLock, AddNode, GraphPublish, GraphUnlock, JoinObserver, Disconnect, FreeSink,
         ObserverCheck, ObserverUnlock, ObserverPublish, Tick, Finalize, vars
    <3>2. ~Outstanding(k)
      BY <1>2, <3>1 DEF InTime
    <3> QED BY <2>1, <3>2, OutstandingShrinks
  <2> QED BY <2>2, <2>3
<1>3. ASSUME gpc' = "publish" PROVE Len(lists'[CurList']) >= PluginsCount
  <2>1. CASE AddNode
    <3>1. CurList \in ListKeys /\ UNCHANGED <<kpis, cur>>
      BY <1>0, <2>1, AddNodeFacts
    <3>2. CurList' = CurList
      BY <3>1 DEF CurList
    <3>3. Len(lists'[CurList]) >= PluginsCount
      BY <1>0, <1>3, <2>1, <3>1 DEF AddNode
    <3> QED BY <3>2, <3>3
  <2>2. CASE ~AddNode
    <3>1. gpc = "publish" /\ UNCHANGED <<kpis, cur, lists>>
      <4>1. opc # "scan" \/ gpc # "publish"
        BY <1>0 DEF Inv, LockHeld
      <4> QED BY <1>3, <2>2, <4>1 DEF Next, GraphStep, ObserverStep, OnMessage, MissEvent,
         ConsumeEvent, GraphLock, GraphPublish, GraphUnlock, JoinObserver, Disconnect, FreeSink,
         ObserverCheck, ObserverLock, ObserverUnlock, ObserverPublish, Tick, Finalize, vars
    <3> QED BY <3>1 DEF InTime, CurList
  <2> QED BY <2>1, <2>2
<1> QED BY <1>1, <1>2, <1>3 DEF InTime

LEMMA PublishOnce ==
  ASSUME OnceInv, OnceInv', Final, [Next]_vars, NEW j \in ListKeys, Publish(j),
         lists[j] # <<>>, ~Outstanding(j)
  PROVE  Final'
<1> SUFFICES ASSUME NEW k \in ListKeys, sent'[k] # <<>>
             PROVE  Len(sent'[k]) = 1 /\ lists'[k] = <<>> /\ ~Outstanding(k)'
  BY DEF Final
<1>0. lists \in [ListKeys -> Seq(Node)] /\ sent \in [ListKeys -> Seq(Seq(Node))]
  BY DEF OnceInv, Inv, TypeOK
<1>1. CASE k = j
  <2>1. sent[j] = <<>>
    BY DEF Final
  <2>2. sent'[j] = Append(sent[j], lists[j]) /\ lists'[j] = <<>>
    BY <1>0 DEF Publish, PopAll
  <2>3. lists[j] \in Seq(Node) /\ sent[j] \in Seq(Seq(Node)) /\ Len(sent[j]) = 0
    BY <1>0, <2>1
  <2>4. Len(Append(sent[j], lists[j])) = Len(sent[j]) + 1
    BY <2>3
  <2> QED BY <1>1, <2>2, <2>3, <2>4, OutstandingShrinks
<1>2. CASE k # j
  BY <1>0, <1>2, OutstandingShrinks DEF Publish, PopAll, Final
<1> QED BY <1>1, <1>2

LEMMA FinalStep ==
  ASSUME CountsEveryPlugin, OnceInv, OnceInv', InTime, Final, [Next]_vars
  PROVE  Final'
<1>0. Inv /\ lists \in [ListKeys -> Seq(Node)] /\ sent \in [ListKeys -> Seq(Seq(Node))]
  BY DEF OnceInv, Inv, TypeOK
<1>1. CASE GraphPublish
  <2>1. /\ CurList \in ListKeys /\ Publish(CurList) /\ lists[CurList] # <<>> /\ gpc = "publish"
        /\ Len(lists[CurList]) >= PluginsCount
    BY <1>0, <1>1, CurTypes DEF GraphPublish, Inv, CurKnown, PublishedListExists, TypeOK, InTime
  <2>2. ~Outstanding(CurList)
    BY <2>1, FullIsOver
  <2> QED BY <2>1, <2>2, PublishOnce
<1>2. ASSUME NEW j \in ListKeys, ObserverPublish(j) PROVE Final'
  <2>1. Publish(j) /\ lists[j] # <<>> /\ ~Outstanding(j)
    BY <1>0, <1>2 DEF ObserverPublish, Inv, PublishedListExists, InTime
  <2> QED BY <2>1, PublishOnce
<1>3. CASE AddNode
  <2> SUFFICES ASSUME NEW k \in ListKeys, sent'[k] # <<>>
               PROVE  Len(sent'[k]) = 1 /\ lists'[k] = <<>> /\ ~Outstanding(k)'
    BY DEF Final
  <2>1. sent' = sent /\ Outstanding(CurList)
    BY <1>3 DEF AddNode, Outstanding
  <2>2. k # CurList
    BY <2>1 DEF Final
  <2> QED BY <1>0, <1>3, <2>1, <2>2, OutstandingShrinks DEF Final, AddNode
<1>4. CASE FreeSink
  BY <1>4, OutstandingShrinks DEF Final, FreeSink
<1>5. CASE OtherStep
  BY <1>5, OtherUnchanged, OutstandingShrinks DEF Final
<1> QED BY <1>1, <1>2, <1>3, <1>4, <1>5 DEF Next, GraphStep, ObserverStep, OtherStep

(* "combine all plugins kpi into single kpi message": a frame whose KPIs   *)
(* follow each other within the threshold is published once, by whichever  *)
(* thread finds it complete or old.                                        *)
THEOREM FrameInOneMessage ==
  ASSUME MaxGap <= Threshold, CountsEveryPlugin
  PROVE  Spec => []SingleMessage
<1>1. Init => OnceInv /\ InTime /\ Final
  BY OnceInit DEF Init, InTime, Final
<1>2. OnceInv /\ InTime /\ Final /\ [Next]_vars => OnceInv' /\ InTime' /\ Final'
  BY OnceStep, InTimeStep, FinalStep
<1>3. OnceInv /\ Final => SingleMessage
  <2> SUFFICES ASSUME OnceInv, Final, NEW k \in ListKeys PROVE Len(sent[k]) <= 1
    BY DEF SingleMessage
  <2>1. CASE sent[k] = <<>>
    <3>1. Len(sent[k]) = 0
      BY <2>1
    <3> QED BY <3>1
  <2>2. CASE sent[k] # <<>>
    <3>1. Len(sent[k]) = 1
      BY <2>2 DEF Final
    <3> QED BY <3>1
  <2> QED BY <2>1, <2>2
<1> QED BY <1>1, <1>2, <1>3, PTL DEF Spec
=============================================================================

------------------------------ MODULE KpiSender ------------------------------
(***************************************************************************)
(* The babeltrace sink component "kpi_sink" of the live trace reader.      *)
(*                                                                         *)
(* Four actors share one struct kpi_sender_sink:                           *)
(*   - the graph thread, which calls consume() for every LTTng event and   *)
(*     finally sink_finalize();                                            *)
(*   - the observer thread, which every 100 ms publishes the frames that   *)
(*     nobody updated for THRESHOLD_TIME_MS;                               *)
(*   - the mosquitto thread, which runs mqtt_on_message();                 *)
(*   - the clock.                                                          *)
(* plugin_kpi_map belongs to the graph thread.  json_kpi_map is shared     *)
(* and guarded by mutex_json_kpi.  push_to_mqtt is shared and unguarded.   *)
(*                                                                         *)
(* Abstractions: an element is a plugin instance on one stream, standing   *)
(* for its hash; a timestamp is the frame of the occurrence that was       *)
(* stamped (0 = field not set); last_updated is kept as the age of the     *)
(* list, in observer periods, saturating just above the threshold; an      *)
(* event that LTTng drops, that a plugin with transmit = FALSE does not    *)
(* emit, or that trace_parse_from_message rejects never reaches the maps.  *)
(***************************************************************************)
EXTENDS Integers, Sequences, FiniteSets

CONSTANTS
  Elements,      (* plugin instances that transmit KPIs                     *)
  Streams,       (* stream ids                                              *)
  NoStream,      (* the empty stream_id                                     *)
  StreamOf,      (* the stream of each element                              *)
  KindOf,        (* "A65", "Remote" (CVU, MLA) or "PCIe", by plugin type    *)
  NFrames,       (* frames 1..NFrames                                       *)
  PluginsCount,  (* plugins_count: KPIs that complete a frame               *)
  Threshold,     (* THRESHOLD_TIME_MS, in observer periods                  *)
  MaxGap,        (* longest time a frame with events to come is left alone  *)
  MaxCommands,   (* bound on the start-kpis / stop-kpis commands            *)
  MaxLost,       (* bound on the events that never reach the maps           *)
  MayFinalize    (* whether the graph may be torn down                      *)

Kinds == {"A65", "Remote", "PCIe"}

ASSUME KpiConstants ==
  /\ NoStream \notin Streams
  /\ StreamOf \in [Elements -> Streams]
  /\ KindOf \in [Elements -> Kinds]
  /\ NFrames \in Nat /\ PluginsCount \in Nat
  /\ Threshold \in Nat /\ MaxGap \in Nat
  /\ MaxCommands \in Nat /\ MaxLost \in Nat
  /\ MayFinalize \in BOOLEAN

Frames  == 1 .. NFrames
NoFrame == 0 - 1     \* the frame_id -1 that a PCIe START event carries

Stamps       == {"plugin_start", "plugin_end", "kernel_start", "kernel_end"}
KernelStamps == {"kernel_start", "kernel_end"}

(* A plugin_kpi_t, a node of a json_kpi_list_t, and the keys of both maps. *)
PluginKpi == [at : [Stamps -> 0 .. NFrames], named : BOOLEAN,
              stream : Streams \cup {NoStream}]
NoKpi     == <<>>
KpiKeys   == Elements \X (Frames \cup {NoFrame})
Node      == [el : Elements, start : 0 .. NFrames, named : BOOLEAN]
ListKeys  == (Streams \cup {NoStream}) \X (Frames \cup {NoFrame})

StampsOf(e) == IF KindOf[e] = "Remote"
                 THEN Stamps ELSE {"plugin_start", "plugin_end"}
Events == {ev \in [el : Elements, fr : Frames, stamp : Stamps] :
             ev.stamp \in StampsOf(ev.el)}

VARIABLES
  push,      (* push_to_mqtt                                                *)
  running,   (* is_running                                                  *)
  connected, (* mosquitto connected: callbacks may run                      *)
  freed,     (* sink_finalize has destroyed the maps and the struct         *)
  mutex,     (* holder of mutex_json_kpi: "none", "graph" or "observer"     *)
  kpis,      (* plugin_kpi_map, a function on the keys it stores            *)
  lists,     (* json_kpi_map: nodes of each list, <<>> when there is none   *)
  age,       (* observer periods since last_updated of each list            *)
  gpc, cur,  (* graph thread: where it is, and the KPI it converts          *)
  opc,       (* observer thread: where it is                                *)
  expired,   (* lists its pass found over the threshold and has still to do *)
  commands,  (* MQTT commands handled                                       *)
  passed,    (* history: events that went by                                *)
  missed,    (* history: those of them that were not merged                 *)
  sent       (* history: messages published for each list key               *)

sinkVars == <<push, running, connected, freed>>
history  == <<commands, passed, missed>>
vars == <<push, running, connected, freed, mutex, kpis, lists, age,
          gpc, cur, opc, expired, commands, passed, missed, sent>>

-----------------------------------------------------------------------------
(* Order in which the plugins emit: START first, the kernel pair in order, *)
(* and a PCIe source handles one buffer at a time.                         *)
Before(a, b) ==
  /\ a.el = b.el
  /\ \/ a.fr = b.fr /\ a.stamp = "plugin_start" /\ b.stamp # "plugin_start"
     \/ a.fr = b.fr /\ a.stamp = "kernel_start" /\ b.stamp = "kernel_end"
     \/ a.fr < b.fr /\ KindOf[a.el] = "PCIe"

Due(ev) == ev \in Events \ passed /\ \A a \in Events : Before(a, ev) => a \in passed

(* trace_generate_request_id_from_trace: the PCIe START event knows        *)
(* neither its stream nor its frame.                                       *)
IsPcieStart(ev) == KindOf[ev.el] = "PCIe" /\ ev.stamp = "plugin_start"

KpiKey(ev) == <<ev.el, IF IsPcieStart(ev) THEN NoFrame ELSE ev.fr>>

(* Remote-core events carry no stream_id and no plugin_id.                 *)
TraceStream(ev) == IF ev.stamp \in KernelStamps \/ IsPcieStart(ev)
                     THEN NoStream ELSE StreamOf[ev.el]

CreateFromTrace(ev) ==
  [at     |-> [s \in Stamps |-> IF s = ev.stamp THEN ev.fr ELSE 0],
   named  |-> ev.stamp \notin KernelStamps,
   stream |-> TraceStream(ev)]

(* Faulty variant: a timestamp that is set already is kept.                *)
MergeKeepsFirst(p, ev) == IF p.at[ev.stamp] = 0
                            THEN [p EXCEPT !.at[ev.stamp] = ev.fr] ELSE p

MergeTrace(p, ev) ==
  [at     |-> [p.at EXCEPT ![ev.stamp] = ev.fr],
   named  |-> p.named,
   stream |-> IF p.stream = NoStream THEN TraceStream(ev) ELSE p.stream]

Merged(ev) == IF KpiKey(ev) \in DOMAIN kpis
                THEN MergeTrace(kpis[KpiKey(ev)], ev)
                ELSE CreateFromTrace(ev)

(* The hash table operations used on plugin_kpi_map.                       *)
Store(m, k, v) == [x \in DOMAIN m \cup {k} |-> IF x = k THEN v ELSE m[x]]
Remove(m, k)   == [x \in DOMAIN m \ {k} |-> m[x]]

(* Faulty variant: the kernel pair alone makes a remote-core KPI ready.    *)
IsReadyOnKernelPair(e, p) ==
  \A s \in (IF KindOf[e] = "Remote" THEN KernelStamps ELSE StampsOf(e)) : p.at[s] # 0

(* Faulty variant: all four timestamps are asked of every plugin type.     *)
IsReadyOnAllStamps(e, p) == \A s \in Stamps : p.at[s] # 0

(* A remote-core KPI needs its four timestamps, any other only the pair of *)
(* the plugin.                                                             *)
IsReady(e, p) == \A s \in StampsOf(e) : p.at[s] # 0

(* Faulty variant: nobody waits for the mutex.                             *)
LockIgnored == TRUE

LockFree == mutex = "none"

(* Faulty variant: the observer only publishes lists that are full.        *)
IsStaleAndFull(k) == age[k] > Threshold /\ Len(lists[k]) >= PluginsCount

(* Faulty variant: the threshold leaves out INSURANCE_DELAY_MS.            *)
IsStaleEarly(k) == lists[k] # <<>> /\ age[k] >= Threshold

IsStale(k) == lists[k] # <<>> /\ age[k] > Threshold

(* Faulty variant: publishing does not pop the nodes it put in the message.*)
PopNothing(k) == lists[k]

PopAll(k) == <<>>

-----------------------------------------------------------------------------
Init ==
  /\ push = FALSE /\ running = TRUE /\ connected = TRUE /\ freed = FALSE
  /\ mutex = "none"
  /\ kpis = [k \in {} |-> 0]
  /\ lists = [k \in ListKeys |-> <<>>]
  /\ age = [k \in ListKeys |-> 0]
  /\ gpc = "next" /\ cur = NoKpi
  /\ opc = "check" /\ expired = {}
  /\ commands = 0 /\ passed = {} /\ missed = {}
  /\ sent = [k \in ListKeys |-> <<>>]

(* mqtt_on_message, for a command addressed to this pid and pipeline_id.   *)
OnMessage(command) ==
  /\ connected /\ commands < MaxCommands
  /\ push' = (command = "start-kpis")
  /\ commands' = commands + 1
  /\ UNCHANGED <<running, connected, freed, mutex, kpis, lists, age, gpc, cur,
                 opc, expired, passed, missed, sent>>

(* An event that is never merged: consume() sees it while push_to_mqtt is  *)
(* false, or it does not reach consume(), or it does not parse.            *)
MissEvent(ev) ==
  /\ gpc = "next" /\ Due(ev)
  /\ push => Cardinality(missed) < MaxLost
  /\ passed' = passed \cup {ev} /\ missed' = missed \cup {ev}
  /\ UNCHANGED <<sinkVars, mutex, kpis, lists, age, gpc, cur, opc, expired,
                 commands, sent>>

(* consume(), up to the decision to convert: one event is merged into      *)
(* plugin_kpi_map.  A PCIe END takes its start time from the entry of the  *)
(* last PCIe START; without one the event is dropped half way.             *)
ConsumeEvent(ev) ==
  LET key      == KpiKey(ev)
      startKey == <<ev.el, NoFrame>>
      isEnd    == KindOf[ev.el] = "PCIe" /\ ev.stamp = "plugin_end"
      orphan   == isEnd /\ startKey \notin DOMAIN kpis
      kpi      == IF isEnd /\ ~orphan
                    THEN [Merged(ev) EXCEPT
                            !.at["plugin_start"] = kpis[startKey].at["plugin_start"]]
                    ELSE Merged(ev)
  IN
  /\ gpc = "next" /\ push /\ Due(ev)
  /\ passed' = passed \cup {ev}
  /\ kpis' = Store(kpis, key, kpi)
  /\ IF ~orphan /\ IsReady(ev.el, kpi)
       THEN gpc' = "lock" /\ cur' = key
       ELSE UNCHANGED <<gpc, cur>>
  /\ UNCHANGED <<sinkVars, mutex, lists, age, opc, expired, commands, missed, sent>>

(* The list the KPI being converted belongs to.                            *)
CurList == <<kpis[cur].stream, cur[2]>>

GraphLock ==
  /\ gpc = "lock" /\ LockFree
  /\ mutex' = "graph" /\ gpc' = "add"
  /\ UNCHANGED <<sinkVars, kpis, lists, age, cur, opc, expired, history, sent>>

(* json_kpi_list_add_json_node, then json_kpi_list_is_full.                *)
AddNode ==
  LET node == [el |-> cur[1], start |-> kpis[cur].at["plugin_start"],
               named |-> kpis[cur].named]
      list == Append(lists[CurList], node)
  IN
  /\ gpc = "add"
  /\ lists' = [lists EXCEPT ![CurList] = list]
  /\ age' = [age EXCEPT ![CurList] = 0]
  /\ gpc' = IF Len(list) >= PluginsCount THEN "publish" ELSE "unlock"
  /\ UNCHANGED <<sinkVars, mutex, kpis, cur, opc, expired, history, sent>>

(* publish_pipeline_kpi: one message with every node of the list, which    *)
(* json_kpi_list_make_pipeline_kpi pops until the table forgets it.        *)
Publish(k) ==
  /\ sent' = [sent EXCEPT ![k] = Append(@, lists[k])]
  /\ lists' = [lists EXCEPT ![k] = PopAll(k)]
  /\ age' = [age EXCEPT ![k] = 0]

GraphPublish ==
  /\ gpc = "publish"
  /\ Publish(CurList)
  /\ gpc' = "unlock"
  /\ UNCHANGED <<sinkVars, mutex, kpis, cur, opc, expired, history>>

(* pthread_mutex_unlock, then plugin_kpi_list_remove_plugin_kpi_by_key.    *)
GraphUnlock ==
  /\ gpc = "unlock"
  /\ mutex' = "none"
  /\ kpis' = Remove(kpis, cur)
  /\ gpc' = "next" /\ cur' = NoKpi
  /\ UNCHANGED <<sinkVars, lists, age, opc, expired, history, sent>>

-----------------------------------------------------------------------------
(* observer_thread_func.  is_running is read outside the mutex; the clock  *)
(* is read once per pass, so the stale lists are known when it starts.     *)
ObserverCheck ==
  /\ opc = "check"
  /\ opc' = IF running THEN "lock" ELSE "exit"
  /\ UNCHANGED <<sinkVars, mutex, kpis, lists, age, gpc, cur, expired, history, sent>>

ObserverLock ==
  /\ opc = "lock" /\ LockFree
  /\ mutex' = "observer" /\ opc' = "scan"
  /\ expired' = {k \in ListKeys : IsStale(k)}
  /\ UNCHANGED <<sinkVars, kpis, lists, age, gpc, cur, history, sent>>

ObserverPublish(k) ==
  /\ opc = "scan" /\ k \in expired
  /\ Publish(k)
  /\ expired' = expired \ {k}
  /\ UNCHANGED <<sinkVars, mutex, kpis, gpc, cur, opc, history>>

ObserverUnlock ==
  /\ opc = "scan" /\ expired = {}
  /\ mutex' = "none" /\ opc' = "check"
  /\ UNCHANGED <<sinkVars, kpis, lists, age, gpc, cur, expired, history, sent>>

-----------------------------------------------------------------------------
(* A list some event of whose frame is still to come or being added.       *)
Outstanding(k) ==
  \/ \E ev \in Events \ passed : <<StreamOf[ev.el], ev.fr>> = k
  \/ gpc \in {"lock", "add"} /\ CurList = k

(* One observer period goes by.                                            *)
Tick ==
  /\ ~freed
  /\ \E k \in ListKeys : lists[k] # <<>> /\ age[k] <= Threshold
  /\ \A k \in ListKeys : lists[k] # <<>> /\ Outstanding(k) => age[k] < MaxGap
  /\ age' = [k \in ListKeys |-> IF lists[k] # <<>> /\ age[k] <= Threshold
                                  THEN age[k] + 1 ELSE age[k]]
  /\ UNCHANGED <<sinkVars, mutex, kpis, lists, gpc, cur, opc, expired, history, sent>>

-----------------------------------------------------------------------------
(* Faulty variant: sink_finalize forgets to stop the observer.             *)
LeaveRunning == running' = running

StopRunning == running' = FALSE

(* Faulty variant: sink_finalize does not join the observer.               *)
NoJoin == TRUE

ObserverJoined == opc = "exit"

(* sink_finalize, on the graph thread between two calls of consume().      *)
Finalize ==
  /\ MayFinalize /\ gpc = "next"
  /\ StopRunning
  /\ gpc' = "join"
  /\ UNCHANGED <<push, connected, freed, mutex, kpis, lists, age, cur, opc,
                 expired, history, sent>>

JoinObserver ==
  /\ gpc = "join" /\ ObserverJoined
  /\ gpc' = "disconnect"
  /\ UNCHANGED <<sinkVars, mutex, kpis, lists, age, cur, opc, expired, history, sent>>

(* mqtt_disconnect stops the mosquitto thread.                             *)
Disconnect ==
  /\ gpc = "disconnect"
  /\ connected' = FALSE /\ gpc' = "free"
  /\ UNCHANGED <<push, running, freed, mutex, kpis, lists, age, cur, opc,
                 expired, history, sent>>

FreeSink ==
  /\ gpc = "free"
  /\ freed' = TRUE /\ gpc' = "done"
  /\ kpis' = [k \in {} |-> 0]
  /\ lists' = [k \in ListKeys |-> <<>>]
  /\ UNCHANGED <<push, running, connected, mutex, age, cur, opc, expired, history, sent>>

-----------------------------------------------------------------------------
GraphStep ==
  \/ GraphLock \/ AddNode \/ GraphPublish \/ GraphUnlock
  \/ JoinObserver \/ Disconnect \/ FreeSink

ObserverStep ==
  \/ ObserverCheck \/ ObserverLock \/ ObserverUnlock
  \/ \E k \in ListKeys : ObserverPublish(k)

Next ==
  \/ \E command \in {"start-kpis", "stop-kpis"} : OnMessage(command)
  \/ \E ev \in Events : MissEvent(ev) \/ ConsumeEvent(ev)
  \/ GraphStep
  \/ ObserverStep
  \/ Tick
  \/ Finalize

(* A thread that is runnable runs.  The graph thread, blocked on the mutex *)
(* while the observer comes and goes, gets it in the 100 ms the observer   *)
(* sleeps: strong fairness.  Events, commands and tear-down may never come.*)
Fairness ==
  /\ WF_vars(GraphStep) /\ SF_vars(GraphLock)
  /\ WF_vars(ObserverStep)
  /\ WF_vars(Tick)

Spec == Init /\ [][Next]_vars
FairSpec == Spec /\ Fairness

-----------------------------------------------------------------------------
(* Every variable holds a value of the kind its C field can hold.          *)
TypeOK ==
  /\ push \in BOOLEAN /\ running \in BOOLEAN /\ connected \in BOOLEAN
  /\ freed \in BOOLEAN
  /\ mutex \in {"none", "graph", "observer"}
  /\ DOMAIN kpis \subseteq KpiKeys
  /\ \A k \in DOMAIN kpis : kpis[k] \in PluginKpi
  /\ lists \in [ListKeys -> Seq(Node)]
  /\ age \in [ListKeys -> 0 .. Threshold + 1]
  /\ gpc \in {"next", "lock", "add", "publish", "unlock",
              "join", "disconnect", "free", "done"}
  /\ cur \in KpiKeys \cup {NoKpi}
  /\ opc \in {"check", "lock", "scan", "exit"}
  /\ expired \subseteq ListKeys
  /\ commands \in 0 .. MaxCommands
  /\ passed \subseteq Events /\ missed \subseteq passed
  /\ sent \in [ListKeys -> Seq(Seq(Node))]

(* The two threads are never inside mutex_json_kpi together, and whoever   *)
(* is about to publish a list still finds it in the table:                 *)
(* publish_pipeline_kpi dereferences the looked-up list and its first node *)
(* without a check.                                                        *)
PublishedListExists ==
  /\ gpc = "publish" => lists[CurList] # <<>>
  /\ opc = "scan" => \A k \in expired : lists[k] # <<>>

(* Nothing touches the struct or its maps after sink_finalize freed them:  *)
(* the observer is gone and no callback can run.                           *)
NothingRunsAfterFree == freed => opc = "exit" /\ ~connected /\ mutex = "none"

Places(k, e) ==
  {<<0, i>> : i \in {j \in DOMAIN lists[k] : lists[k][j].el = e}} \cup
  UNION {{<<m, i>> : i \in {j \in DOMAIN sent[k][m] : sent[k][m][j].el = e}} :
           m \in DOMAIN sent[k]}

(* The KPI of one plugin for one frame waits in json_kpi_map or was        *)
(* published, and never in two places, whatever thread published it.       *)
ReportedOnce ==
  \A k \in ListKeys, e \in Elements : \A p, q \in Places(k, e) : p = q

(* A plugin whose events of a frame were all merged has its KPI reported,  *)
(* waiting, or being converted, until the sink is freed: no order of the   *)
(* plugin's and the remote core's events loses one.                        *)
CompleteIsReported ==
  \A e \in Elements, f \in Frames :
    (\A s \in StampsOf(e) : [el |-> e, fr |-> f, stamp |-> s] \in passed \ missed)
      => \/ freed
         \/ Places(<<StreamOf[e], f>>, e) # {}
         \/ gpc \in {"lock", "add"} /\ cur = <<e, f>>

(* Every reported KPI names its plugin and sits in the list of its own     *)
(* stream, although remote-core events know neither.                       *)
WellLabelled ==
  \A k \in ListKeys : \A i \in DOMAIN lists[k] :
    lists[k][i].named /\ StreamOf[lists[k][i].el] = k[1]

(* "add a start timestamp for this KPI": a reported KPI starts at the      *)
(* START event of its own frame.                                           *)
StartIsOwn ==
  \A k \in ListKeys : \A i \in DOMAIN lists[k] : lists[k][i].start = k[2]

(* "combine all plugins kpi into single kpi message": when no KPI of a     *)
(* frame is later than MaxGap after the previous one, a frame is published *)
(* in one message.                                                         *)
SingleMessage == \A k \in ListKeys : Len(sent[k]) <= 1

(* A KPI that waits in json_kpi_map does not wait for ever, even if the    *)
(* frame never completes.                                                  *)
EventuallyPublished == \A k \in ListKeys : lists[k] # <<>> ~> lists[k] = <<>>

(* The sink implements KpiReport: whatever the two threads, the clock and  *)
(* the commands do, a KPI is taken from the maps and published as if its   *)
(* group were handled in one step, and once only.                          *)
ElementsIn(nodes) == {nodes[i].el : i \in DOMAIN nodes}

Report == INSTANCE KpiReport WITH
  Plugins  <- Elements,
  Groups   <- ListKeys,
  open     <- ~freed,
  waiting  <- [k \in ListKeys |-> ElementsIn(lists[k])],
  messages <- [k \in ListKeys |-> [m \in DOMAIN sent[k] |-> ElementsIn(sent[k][m])]]

ImplementsReport == Report!Spec

(* sink_finalize always returns.                                           *)
FinalizeReturns == gpc = "join" ~> gpc = "done"
=============================================================================

------------------------------ MODULE KpiReport ------------------------------
(***************************************************************************)
(* What the KPI sink promises, without its maps, its lock and its threads: *)
(* the KPI of a plugin for a group (a frame of a stream) is measured once, *)
(* waits with the others of its group, and leaves in one message together  *)
(* with everything that waits for that group; nothing is measured or sent  *)
(* after the sink is closed.                                               *)
(***************************************************************************)
EXTENDS Naturals, Sequences

CONSTANTS Plugins, Groups

VARIABLES
  open,     \* the sink has not been closed
  waiting,  \* KPIs of each group that no message holds yet
  messages  \* messages sent for each group, each a set of KPIs

reportVars == <<open, waiting, messages>>

Reported(g) == UNION {messages[g][m] : m \in DOMAIN messages[g]}

Init ==
  /\ open = TRUE
  /\ waiting = [g \in Groups |-> {}]
  /\ messages = [g \in Groups |-> <<>>]

(* A KPI is complete.                                                      *)
Measure(p, g) ==
  /\ open
  /\ p \notin waiting[g] \cup Reported(g)
  /\ waiting' = [waiting EXCEPT ![g] = @ \cup {p}]
  /\ UNCHANGED <<open, messages>>

(* One message takes everything that waits for the group.                  *)
Report(g) ==
  /\ open
  /\ waiting[g] # {}
  /\ messages' = [messages EXCEPT ![g] = Append(@, waiting[g])]
  /\ waiting' = [waiting EXCEPT ![g] = {}]
  /\ UNCHANGED open

(* What still waits is discarded.                                          *)
Close ==
  /\ open
  /\ open' = FALSE
  /\ waiting' = [g \in Groups |-> {}]
  /\ UNCHANGED messages

Next ==
  \/ \E p \in Plugins, g \in Groups : Measure(p, g)
  \/ \E g \in Groups : Report(g)
  \/ Close

Spec == Init /\ [][Next]_reportVars
=============================================================================

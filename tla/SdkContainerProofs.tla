------------------------- MODULE SdkContainerProofs -------------------------
(***************************************************************************)
(* What start.py and stop.py promise about the SDK's container, for every  *)
(* number of terminals, ports, failures and events from outside.           *)
(*                                                                         *)
(* The name of the container is the only lock there is: docker run fails   *)
(* when the name is taken.  So, until somebody removes a container that is *)
(* being configured, the run in the middle of configuring is the one that  *)
(* created the container its commands reach by that name (Creator), and    *)
(* what it has done so far is what its step counter says (Counted).        *)
(***************************************************************************)
EXTENDS SdkContainer, TLAPS

Places == {"off", "daemon", "restart", "image", "look", "lookAll", "start", "dir",
           "run", "configure", "enter", "shell", "exit", "ask", "askRemove"}

TypeOK ==
  /\ pc \in [Starts \cup Stops -> Places]
  /\ DOMAIN port = Starts /\ n \in [Starts -> Nat]
  /\ conf \in [AllSteps -> Nat]
  /\ cont.state \in {"none", "created", "running", "stopped"}
  /\ cont.state # "none" => cont.by \in Starts
  /\ DOMAIN cont = {"state", "port", "by", "no"}

(* A run configures the container that is there, which it created and      *)
(* published on its own port.                                              *)
Creator(p) ==
  pc[p] = "configure" =>
    cont.state # "none" /\ cont.by = p /\ cont.port = port[p]

(* It has applied the steps before n, each once, and none from n on.       *)
Counted(p) ==
  pc[p] = "configure" =>
    /\ n[p] \in DOMAIN Steps
    /\ \A i \in DOMAIN Steps : conf[Steps[i]] = IF i < n[p] THEN 1 ELSE 0

(* Behind the last step, it has applied them all.                          *)
Complete(p) ==
  pc[p] \in {"enter", "shell"} /\ cont.by = p => \A s \in AllSteps : conf[s] = 1

Setup == \A p \in Starts : Creator(p) /\ Counted(p) /\ Complete(p)

(* Whoever created a container is past creating it.                        *)
PastCreation ==
  \A p \in Starts : cont.by = p => pc[p] \in {"configure", "enter", "shell", "exit"}

Inv ==
  /\ TypeOK /\ PastCreation
  /\ ~orphan => Setup /\ ConfiguredOnce /\ PortFileIsPublished

-----------------------------------------------------------------------------
(* The steps are different ones.                                           *)
LEMMA StepsDistinct ==
  /\ DOMAIN Steps = 1 .. 9 /\ Len(Steps) = 9
  /\ \A i \in 1 .. 9 : Steps[i] \in AllSteps
  /\ \A s \in AllSteps : \E i \in 1 .. 9 : s = Steps[i]
  /\ \A i, j \in 1 .. 9 : Steps[i] = Steps[j] => i = j
BY DEF Steps, AllSteps

LEMMA InitInv == Init => Inv
<1> SUFFICES ASSUME Init PROVE Inv
  OBVIOUS
<1>1. cont.state = "none" /\ cont.by = None /\ DOMAIN cont = {"state", "port", "by", "no"}
  BY DEF Init
<1>2. TypeOK
  <2>1. pc \in [Starts \cup Stops -> Places]
    BY DEF Init, Places
  <2>2. DOMAIN port = Starts /\ n \in [Starts -> Nat] /\ conf \in [AllSteps -> Nat]
    BY DEF Init
  <2> QED BY <1>1, <2>1, <2>2 DEF TypeOK
<1>3. \A p \in Starts : pc[p] = "off" /\ cont.by # p
  BY <1>1, SdkConstants DEF Init
<1>4. PastCreation /\ Setup
  BY <1>3 DEF PastCreation, Setup, Creator, Counted, Complete
<1>5. ConfiguredOnce /\ PortFileIsPublished
  BY DEF Init, ConfiguredOnce, PortFileIsPublished
<1> QED BY <1>2, <1>4, <1>5 DEF Inv

(* A step that creates, removes and configures nothing, and takes a run    *)
(* neither into the configuration nor behind it.                           *)
Past == {"configure", "enter", "shell", "exit"}

LEMMA Kept ==
  ASSUME Inv, UNCHANGED <<conf, portFile, orphan>>,
         cont'.by = cont.by, cont'.port = cont.port, DOMAIN cont' = DOMAIN cont,
         cont'.state \in {"none", "created", "running", "stopped"},
         cont'.state = "none" <=> cont.state = "none",
         pc' \in [Starts \cup Stops -> Places],
         DOMAIN port' = Starts, n' \in [Starts -> Nat],
         \A q \in Starts :
           \/ pc'[q] = pc[q] /\ port'[q] = port[q] /\ n'[q] = n[q]
           \/ /\ pc'[q] # "configure"
              /\ pc[q] \in Past =>
                   pc'[q] = "exit" \/ (pc[q] = "enter" /\ pc'[q] = "shell")
  PROVE  Inv'
<1>1. TypeOK'
  BY DEF Inv, TypeOK
<1>2. \A q \in Starts : cont.by = q => pc[q] \in Past
  BY DEF Inv, PastCreation, Past
<1>3. PastCreation'
  BY <1>2 DEF PastCreation, Past
<1>4. ASSUME Setup PROVE Setup'
  <2>1. \A q \in Starts : Creator(q)' /\ Counted(q)'
    BY <1>4 DEF Setup, Creator, Counted
  <2>2. \A q \in Starts : Complete(q)'
    BY <1>2, <1>4 DEF Setup, Complete, Past
  <2> QED BY <2>1, <2>2 DEF Setup
<1>5. ~orphan => ConfiguredOnce' /\ PortFileIsPublished'
  BY DEF Inv, ConfiguredOnce, PortFileIsPublished
<1> QED BY <1>1, <1>3, <1>4, <1>5 DEF Inv

(* A command of one run that leaves the container alone.                   *)
LEMMA OnlyMoves ==
  ASSUME Inv, NEW p \in Starts \cup Stops, NEW l \in Places, Goto(p, l),
         UNCHANGED <<dock, port, n, orphan>>,
         l # "configure",
         pc[p] \in Past => l = "exit" \/ (pc[p] = "enter" /\ l = "shell")
  PROVE  Inv'
<1>1. \A q \in Starts \cup Stops : pc'[q] = IF q = p THEN l ELSE pc[q]
  BY DEF Goto, Inv, TypeOK
<1>2. pc' \in [Starts \cup Stops -> Places]
  BY DEF Goto, Inv, TypeOK
<1>3. DOMAIN port' = Starts /\ n' \in [Starts -> Nat] /\ cont' = cont
      /\ cont.state \in {"none", "created", "running", "stopped"}
  BY DEF dock, Inv, TypeOK
<1> QED BY <1>1, <1>2, <1>3, Kept DEF dock

(* The fields of the container that starting and stopping leave alone.     *)
LEMMA StateOnly ==
  ASSUME Inv, NEW st \in {"created", "running", "stopped"}, cont.state # "none",
         cont' = [cont EXCEPT !.state = st]
  PROVE  /\ cont'.by = cont.by /\ cont'.port = cont.port /\ DOMAIN cont' = DOMAIN cont
         /\ cont'.state = st
BY DEF Inv, TypeOK

LEMMA HaltedKeeps ==
  ASSUME Inv, cont' = Halted
  PROVE  /\ cont'.by = cont.by /\ cont'.port = cont.port /\ DOMAIN cont' = DOMAIN cont
         /\ cont'.state \in {"none", "created", "running", "stopped"}
         /\ cont'.state = "none" <=> cont.state = "none"
BY DEF Inv, TypeOK, Halted

-----------------------------------------------------------------------------
(* start.py                                                                *)
LEMMA FindPortInv ==
  ASSUME Inv, NEW p \in Starts, FindPort(p)
  PROVE  Inv'
<1>1. pc' \in [Starts \cup Stops -> Places] /\ pc'[p] # "configure" /\ pc[p] = "off"
  BY DEF FindPort, Goto, Inv, TypeOK, Places
<1>2. \A q \in Starts : q # p => pc'[q] = pc[q] /\ port'[q] = port[q] /\ n'[q] = n[q]
  BY DEF FindPort, Goto, Inv, TypeOK
<1>3. DOMAIN port' = Starts /\ n' \in [Starts -> Nat] /\ cont' = cont
      /\ cont.state \in {"none", "created", "running", "stopped"}
  BY DEF FindPort, dock, Inv, TypeOK
<1> QED BY <1>1, <1>2, <1>3, Kept DEF FindPort, dock, Past

LEMMA LookingInv ==
  ASSUME Inv, NEW p \in Starts,
         CheckDaemon(p) \/ CheckImage(p) \/ LookRunning(p) \/ LookStopped(p) \/ Enter(p)
  PROVE  Inv'
<1>1. PICK l \in Places : Only(p, l) /\ l # "configure"
                          /\ (pc[p] \in Past => l = "exit" \/ (pc[p] = "enter" /\ l = "shell"))
  BY DEF CheckDaemon, CheckImage, LookRunning, LookStopped, Enter, Places, Past
<1> QED BY <1>1, OnlyMoves DEF Only

LEMMA RestartDaemonInv ==
  ASSUME Inv, NEW p \in Starts, RestartDaemon(p)
  PROVE  Inv'
<1>1. pc' \in [Starts \cup Stops -> Places] /\ pc'[p] # "configure" /\ pc[p] = "restart"
  BY DEF RestartDaemon, Goto, Inv, TypeOK, Places
<1>2. n' \in [Starts -> Nat]
  BY DEF RestartDaemon, Inv, TypeOK
<1>3. \A q \in Starts : q # p => pc'[q] = pc[q] /\ n'[q] = n[q]
  BY DEF RestartDaemon, Goto, Inv, TypeOK
<1>4. DOMAIN port' = Starts /\ port' = port /\ UNCHANGED <<conf, portFile, orphan>>
  BY DEF RestartDaemon, Inv, TypeOK
<1>5. cont' = Halted
  BY DEF RestartDaemon
<1> QED BY <1>1, <1>2, <1>3, <1>4, <1>5, HaltedKeeps, Kept DEF Past

LEMMA StartStoppedInv ==
  ASSUME Inv, NEW p \in Starts, StartStopped(p)
  PROVE  Inv'
<1>1. pc' \in [Starts \cup Stops -> Places] /\ pc'[p] # "configure" /\ pc[p] = "start"
  BY DEF StartStopped, Goto, Inv, TypeOK, Places
<1>2. \A q \in Starts : q # p => pc'[q] = pc[q]
  BY DEF StartStopped, Goto, Inv, TypeOK
<1>3. DOMAIN port' = Starts /\ n' \in [Starts -> Nat]
      /\ UNCHANGED <<port, n, conf, portFile, orphan>>
  BY DEF StartStopped, Inv, TypeOK
<1>4. \/ cont' = cont
      \/ cont.state # "none" /\ cont' = [cont EXCEPT !.state = "running"]
  BY DEF StartStopped
<1>5. /\ cont'.by = cont.by /\ cont'.port = cont.port /\ DOMAIN cont' = DOMAIN cont
      /\ cont'.state \in {"none", "created", "running", "stopped"}
      /\ cont'.state = "none" <=> cont.state = "none"
  BY <1>4, StateOnly DEF Inv, TypeOK
<1> QED BY <1>1, <1>2, <1>3, <1>5, Kept DEF Past

LEMMA ChooseDirectoryInv ==
  ASSUME Inv, NEW p \in Starts, ChooseDirectory(p)
  PROVE  Inv'
<1>1. CASE \E l \in {"exit", "run"} : Only(p, l)
  BY <1>1, OnlyMoves DEF Only, Places, ChooseDirectory, Past
<1>2. CASE n' = [n EXCEPT ![p] = @ + 1] /\ UNCHANGED <<dock, pc, port, orphan>>
  <2>1. n' \in [Starts -> Nat] /\ \A q \in Starts : q # p => n'[q] = n[q]
    BY <1>2 DEF Inv, TypeOK
  <2>2. cont' = cont /\ cont.state \in {"none", "created", "running", "stopped"}
        /\ pc[p] = "dir" /\ DOMAIN port' = Starts
    BY <1>2 DEF dock, Inv, TypeOK, ChooseDirectory
  <2> QED BY <1>2, <2>1, <2>2, Kept DEF dock, Past, Inv, TypeOK
<1> QED BY <1>1, <1>2 DEF ChooseDirectory

(* The container is new: nothing is configured, and no other run is in the *)
(* middle of configuring, since the name was free.                         *)
LEMMA DockerRunInv ==
  ASSUME Inv, NEW p \in Starts, DockerRun(p)
  PROVE  Inv'
<1>1. pc' \in [Starts \cup Stops -> Places] /\ pc'[p] \in {"configure", "exit"} /\ pc[p] = "run"
  BY DEF DockerRun, Goto, Inv, TypeOK, Places
<1>2. n' \in [Starts -> Nat] /\ n'[p] = 1 /\ \A q \in Starts : q # p => n'[q] = n[q]
  BY DEF DockerRun, Inv, TypeOK
<1>3. \A q \in Starts : q # p => pc'[q] = pc[q]
  BY DEF DockerRun, Goto, Inv, TypeOK
<1>4. DOMAIN port' = Starts /\ port' = port /\ orphan' = orphan
  BY DEF DockerRun, Inv, TypeOK
<1>5. CASE daemon /\ cont.state = "none"
  <2>1. /\ cont'.state \in {"created", "running"} /\ cont'.by = p /\ cont'.port = port[p]
        /\ DOMAIN cont' = {"state", "port", "by", "no"}
        /\ conf' = [s \in AllSteps |-> 0] /\ portFile' = None
    BY <1>5 DEF DockerRun
  <2>2. TypeOK'
    BY <1>1, <1>2, <1>4, <2>1 DEF TypeOK
  <2>3. PastCreation'
    BY <1>1, <2>1 DEF PastCreation
  <2>4. ASSUME Setup PROVE Setup'
    <3>1. \A q \in Starts : q # p => pc'[q] # "configure"
      BY <1>3, <1>5, <2>4 DEF Setup, Creator
    <3>2. \A i \in DOMAIN Steps : conf'[Steps[i]] = 0 /\ ~(i < 1) /\ 1 \in DOMAIN Steps
      BY <2>1, StepsDistinct
    <3>3. \A q \in Starts : Creator(q)' /\ Counted(q)'
      <4>1. ASSUME NEW q \in Starts, pc'[q] = "configure" PROVE q = p
        BY <3>1, <4>1
      <4>2. Creator(p)'
        BY <1>4, <2>1 DEF Creator
      <4>3. Counted(p)'
        <5>1. n'[p] = 1 /\ 1 \in 1 .. 9
          BY <1>2
        <5>2. \A i \in 1 .. 9 : conf'[Steps[i]] = IF i < n'[p] THEN 1 ELSE 0
          BY <5>1, <3>2, StepsDistinct
        <5> QED BY ONLY <5>1, <5>2, StepsDistinct DEF Counted
      <4> QED BY <4>1, <4>2, <4>3 DEF Creator, Counted
    <3>4. \A q \in Starts : Complete(q)'
      BY <1>1, <2>1 DEF Complete
    <3> QED BY <3>3, <3>4 DEF Setup
  <2>5. ConfiguredOnce' /\ PortFileIsPublished'
    BY <2>1 DEF ConfiguredOnce, PortFileIsPublished
  <2> QED BY <1>4, <2>2, <2>3, <2>4, <2>5 DEF Inv
<1>6. CASE ~(daemon /\ cont.state = "none")
  <2>1. UNCHANGED <<cont, conf, portFile>> /\ pc'[p] = "exit"
    BY <1>6 DEF DockerRun, Goto, Inv, TypeOK
  <2>2. cont.state \in {"none", "created", "running", "stopped"}
    BY DEF Inv, TypeOK
  <2> QED BY <1>1, <1>2, <1>3, <1>4, <2>1, <2>2, Kept DEF Past
<1> QED BY <1>5, <1>6

(* The next step of the one run that configures.                           *)
LEMMA ConfigureInv ==
  ASSUME Inv, NEW p \in Starts, Configure(p)
  PROVE  Inv'
<1>1. /\ pc[p] = "configure" /\ cont' = cont /\ port' = port /\ orphan' = orphan
      /\ pc'[p] = IF n[p] = 9 THEN "enter" ELSE "configure"
      /\ pc' \in [Starts \cup Stops -> Places]
      /\ \A q \in Starts : q # p => pc'[q] = pc[q]
  BY StepsDistinct DEF Configure, Goto, Inv, TypeOK, Places
<1>2. /\ n' \in [Starts -> Nat] /\ n'[p] = n[p] + 1 /\ n[p] \in Nat
      /\ \A q \in Starts : q # p => n'[q] = n[q]
  BY DEF Configure, Inv, TypeOK
<1>3. conf' = [conf EXCEPT ![Steps[n[p]]] = @ + 1]
  BY DEF Configure
<1>4. conf' \in [AllSteps -> Nat]
  <2>1. conf' = [s \in AllSteps |-> IF s = Steps[n[p]] THEN conf[s] + 1 ELSE conf[s]]
    BY <1>3 DEF Inv, TypeOK
  <2>2. \A s \in AllSteps : conf[s] \in Nat /\ conf[s] + 1 \in Nat
    BY DEF Inv, TypeOK
  <2> QED BY <2>1, <2>2
<1>5. TypeOK'
  BY <1>1, <1>2, <1>4 DEF Inv, TypeOK
<1>6. PastCreation'
  BY <1>1 DEF Inv, PastCreation
<1>7. ASSUME ~orphan PROVE Setup' /\ ConfiguredOnce' /\ PortFileIsPublished'
  <2>1. /\ cont.state # "none" /\ cont.by = p /\ cont.port = port[p]
        /\ n[p] \in 1 .. 9
        /\ \A i \in 1 .. 9 : conf[Steps[i]] = IF i < n[p] THEN 1 ELSE 0
        /\ \A q \in Starts : q # p => pc[q] # "configure"
    BY <1>1, <1>7, StepsDistinct DEF Inv, Setup, Creator, Counted
  <2>2. \A i \in 1 .. 9 : conf'[Steps[i]] = IF i < n[p] + 1 THEN 1 ELSE 0
    <3>1. \A i \in 1 .. 9 : conf'[Steps[i]] = IF i = n[p] THEN conf[Steps[i]] + 1
                                                          ELSE conf[Steps[i]]
      BY <1>3, <2>1, StepsDistinct DEF Inv, TypeOK
    <3> QED BY <2>1, <3>1
  <2>3. \A q \in Starts : Creator(q)' /\ Counted(q)'
    BY <1>1, <1>2, <2>1, <2>2, StepsDistinct DEF Creator, Counted
  <2>4. n[p] = 9 => \A s \in AllSteps : conf'[s] = 1
    BY <2>2, StepsDistinct
  <2>5. \A q \in Starts : Complete(q)'
    BY <1>1, <2>1, <2>4 DEF Complete
  <2>6. ConfiguredOnce'
    <3>1. \A s \in AllSteps : \E i \in 1 .. 9 : s = Steps[i] /\ conf'[s] <= 1
      BY <2>2, StepsDistinct
    <3> QED BY <3>1 DEF ConfiguredOnce
  <2>7. PortFileIsPublished'
    BY <1>1, <1>7, <2>1 DEF Inv, PortFileIsPublished, Configure
  <2> QED BY <2>3, <2>5, <2>6, <2>7 DEF Setup
<1> QED BY <1>1, <1>5, <1>6, <1>7 DEF Inv

LEMMA ConfigureFailsInv ==
  ASSUME Inv, NEW p \in Starts, ConfigureFails(p)
  PROVE  Inv'
BY OnlyMoves DEF ConfigureFails, Places

-----------------------------------------------------------------------------
(* stop.py                                                                 *)
LEMMA ListInv ==
  ASSUME Inv, NEW q \in Stops, List(q)
  PROVE  Inv'
<1>1. PICK l \in {"ask", "exit"} : Goto(q, l)
  BY DEF List
<1> QED BY <1>1, OnlyMoves DEF List, Places, Past

LEMMA StopContainerInv ==
  ASSUME Inv, NEW q \in Stops, StopContainer(q)
  PROVE  Inv'
<1>1. pc' \in [Starts \cup Stops -> Places] /\ pc'[q] # "configure" /\ pc[q] = "ask"
  BY DEF StopContainer, Goto, Inv, TypeOK, Places
<1>2. \A p \in Starts : p # q => pc'[p] = pc[p]
  BY DEF StopContainer, Goto, Inv, TypeOK
<1>3. DOMAIN port' = Starts /\ n' \in [Starts -> Nat]
      /\ UNCHANGED <<port, n, conf, portFile, orphan>>
  BY DEF StopContainer, Inv, TypeOK
<1>4. \/ cont' = cont
      \/ cont.state # "none" /\ cont' = [cont EXCEPT !.state = "stopped"]
  BY DEF StopContainer, Known
<1>5. /\ cont'.by = cont.by /\ cont'.port = cont.port /\ DOMAIN cont' = DOMAIN cont
      /\ cont'.state \in {"none", "created", "running", "stopped"}
      /\ cont'.state = "none" <=> cont.state = "none"
  BY <1>4, StateOnly DEF Inv, TypeOK
<1> QED BY <1>1, <1>2, <1>3, <1>5, Kept DEF Past

(* The name is free again: nobody is configuring, or there is an orphan.   *)
LEMMA RemoveContainerInv ==
  ASSUME Inv, NEW q \in Stops, RemoveContainer(q)
  PROVE  Inv'
<1>1. /\ pc' \in [Starts \cup Stops -> Places] /\ pc[q] = "askRemove"
      /\ \A p \in Starts : pc'[p] = IF p = q THEN "exit" ELSE pc[p]
      /\ UNCHANGED <<port, n, conf, portFile>>
  BY DEF RemoveContainer, Goto, Inv, TypeOK, Places
<1>2. CASE UNCHANGED <<cont, orphan>>
  <2>1. cont.state \in {"none", "created", "running", "stopped"}
        /\ DOMAIN port' = Starts /\ n' \in [Starts -> Nat]
    BY <1>1 DEF Inv, TypeOK
  <2> QED BY <1>1, <1>2, <2>1, Kept DEF Past
<1>3. CASE /\ cont.state # "none" /\ cont' = [cont EXCEPT !.state = "none"]
           /\ orphan' = (orphan \/ pc[cont.by] = "configure")
  <2>1. /\ cont'.by = cont.by /\ cont'.port = cont.port /\ cont'.state = "none"
        /\ DOMAIN cont' = {"state", "port", "by", "no"} /\ cont.by \in Starts
    BY <1>3 DEF Inv, TypeOK
  <2>2. TypeOK'
    BY <1>1, <2>1 DEF Inv, TypeOK
  <2>3. PastCreation'
    BY <1>1, <2>1 DEF Inv, PastCreation
  <2>4. ASSUME ~orphan' PROVE Setup' /\ ConfiguredOnce' /\ PortFileIsPublished'
    <3>1. ~orphan /\ pc[cont.by] # "configure"
      BY <1>3, <2>4
    <3>2. \A p \in Starts : pc'[p] # "configure"
      BY <1>1, <3>1 DEF Inv, Setup, Creator
    <3>3. \A p \in Starts : Creator(p)' /\ Counted(p)'
      BY <3>2 DEF Creator, Counted
    <3>4. \A p \in Starts : Complete(p)'
      BY <1>1, <2>1, <3>1 DEF Inv, Setup, Complete
    <3> QED BY <1>1, <2>1, <3>1, <3>3, <3>4
            DEF Inv, Setup, ConfiguredOnce, PortFileIsPublished
  <2> QED BY <2>2, <2>3, <2>4 DEF Inv
<1> QED BY <1>2, <1>3 DEF RemoveContainer, Known

(* The daemon and the other programs.                                      *)
LEMMA OutsideInv ==
  ASSUME Inv, Outside
  PROVE  Inv'
<1>1. UNCHANGED <<conf, portFile, orphan, pc, port, n>>
  BY DEF Outside
<1>2. cont' = cont \/ cont' = Halted
  BY DEF Outside, DaemonDies, PortMoves
<1>3. /\ cont'.by = cont.by /\ cont'.port = cont.port /\ DOMAIN cont' = DOMAIN cont
      /\ cont'.state \in {"none", "created", "running", "stopped"}
      /\ cont'.state = "none" <=> cont.state = "none"
  BY <1>2, HaltedKeeps DEF Inv, TypeOK
<1> QED BY <1>1, <1>3, Kept DEF Inv, TypeOK

LEMMA StutterInv ==
  ASSUME Inv, UNCHANGED vars
  PROVE  Inv'
BY DEF vars, Inv, TypeOK, PastCreation, Setup, Creator, Counted, Complete,
       ConfiguredOnce, PortFileIsPublished

-----------------------------------------------------------------------------
(* The inductive invariant.                                                *)
THEOREM InvHolds == Spec => []Inv
<1>1. ASSUME Inv, NEW p \in Starts, StartStep(p) PROVE Inv'
  BY <1>1, FindPortInv, LookingInv, RestartDaemonInv, StartStoppedInv, ChooseDirectoryInv,
     DockerRunInv, ConfigureInv, ConfigureFailsInv DEF StartStep
<1>2. ASSUME Inv, NEW q \in Stops, StopStep(q) PROVE Inv'
  BY <1>2, ListInv, StopContainerInv, RemoveContainerInv DEF StopStep
<1>3. Inv /\ [Next]_vars => Inv'
  BY <1>1, <1>2, OutsideInv, StutterInv DEF Next
<1> QED BY InitInv, <1>3, PTL DEF Spec

(* Nothing is appended twice to the container's files, however many runs   *)
(* found no container at the same time.                                    *)
THEOREM ContainerIsConfiguredOnce == Spec => []ConfiguredOnce
<1>1. Inv => ConfiguredOnce
  BY DEF Inv, ConfiguredOnce
<1> QED BY <1>1, InvHolds, PTL

(* A run that created the container and reached its shell has applied      *)
(* every step of the configuration.                                        *)
THEOREM CreatorSetsUpCompletely == Spec => []OwnSetupComplete
<1>1. Inv => OwnSetupComplete
  BY DEF Inv, OwnSetupComplete, Setup, Complete
<1> QED BY <1>1, InvHolds, PTL

(* The port saved in the container is the one docker publishes.            *)
THEOREM SavedPortIsPublished == Spec => []PortFileIsPublished
<1>1. Inv => PortFileIsPublished
  BY DEF Inv, PortFileIsPublished
<1> QED BY <1>1, InvHolds, PTL
=============================================================================

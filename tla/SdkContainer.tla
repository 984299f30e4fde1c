---------------------------- MODULE SdkContainer ----------------------------
(***************************************************************************)
(* start.py and stop.py: several people's terminals run them against one   *)
(* docker daemon and the one container of the SDK.  start.py picks a port, *)
(* brings the daemon up, enters the container if it runs, starts it if it  *)
(* is stopped, and otherwise creates it and configures it by a row of      *)
(* docker commands, each of which exits the program when it fails.         *)
(*                                                                         *)
(* External: the daemon, its container and its ports, and the processes    *)
(* that take ports.  Abstractions: the Linux paths; a configuration step   *)
(* is a group of commands that touch the same file or right.               *)
(***************************************************************************)
EXTENDS Integers, Sequences, FiniteSets

CONSTANTS
  Starts, Stops,  (* runs of start.py and of stop.py                       *)
  Ports,          (* the ports find_available_port() goes through          *)
  MaxEvents,      (* bound on what happens to daemon and ports from outside *)
  MaxFaults,      (* bound on the docker commands that fail                *)
  MaxRetries,     (* bound on the times the user answers 'r'               *)
  None

ASSUME SdkConstants ==
  /\ Ports \subseteq Nat /\ MaxEvents \in Nat /\ MaxFaults \in Nat
  /\ MaxRetries \in Nat
  /\ None \notin Starts \cup Stops \cup Ports

(* The configuration of a new container, in the order of the code; docker  *)
(* cp is all that some of the steps do.                                    *)
Steps == <<"passwd", "shadow", "group", "sudoers", "dockerGroup", "home",
           "port", "simaai", "rsyslog">>
AllSteps == {Steps[i] : i \in DOMAIN Steps}
Copied == {"passwd", "shadow", "group", "port"}

VARIABLES
  daemon,     (* the docker daemon runs                                    *)
  image,      (* the SDK's image is installed                              *)
  cont,       (* the container: state, published port, creator, number     *)
  conf,       (* how often each step was applied to it                     *)
  portFile,   (* /home/docker/.simaai/.port in it                          *)
  busy,       (* ports other programs use                                  *)
  pc,         (* where each run is                                         *)
  port,       (* PORT of a start.py                                        *)
  n,          (* its retry_count, its next step, or its 'r' answers        *)
  seen,       (* the container number a stop.py took from docker ps        *)
  orphan,     (* history: a container was removed while being configured   *)
  faults, events

dock == <<daemon, cont, conf, portFile>>
vars == <<daemon, image, cont, conf, portFile, busy, pc, port, n, seen, orphan,
          faults, events>>

Ended == {"shell", "exit"}
Up == daemon /\ cont.state = "running"
Published == IF Up THEN {cont.port} ELSE {}
InUse == busy \cup Published

Init ==
  /\ daemon \in BOOLEAN /\ image \in BOOLEAN
  /\ cont = [state |-> "none", port |-> None, by |-> None, no |-> 0]
  /\ conf = [s \in AllSteps |-> 0] /\ portFile = None
  /\ busy \in SUBSET Ports
  /\ pc = [p \in Starts \cup Stops |-> "off"]
  /\ port = [p \in Starts |-> None] /\ n = [p \in Starts |-> 0]
  /\ seen = [p \in Stops |-> 0]
  /\ orphan = FALSE /\ faults = 0 /\ events = 0

Goto(p, l) == pc' = [pc EXCEPT ![p] = l]
Only(p, l) == Goto(p, l) /\ UNCHANGED <<dock, image, busy, port, n, seen, orphan, faults, events>>

FirstFree == CHOOSE q \in Ports \ InUse : \A r \in Ports \ InUse : q <= r

(* find_available_port(): the first port nobody uses now.  Nothing holds   *)
(* it from here to docker run.                                             *)
FindPort(p) ==
  /\ pc[p] = "off"
  /\ IF Ports \subseteq InUse
       THEN Goto(p, "exit") /\ UNCHANGED port
       ELSE Goto(p, "daemon") /\ port' = [port EXCEPT ![p] = FirstFree]
  /\ UNCHANGED <<dock, image, busy, n, seen, orphan, faults, events>>

(* docker ps; the user agrees to start the daemon or does not.             *)
CheckDaemon(p) ==
  /\ pc[p] = "daemon"
  /\ \/ daemon /\ Only(p, "image")
     \/ ~daemon /\ \E answer \in {"restart", "exit"} : Only(p, answer)

(* One try of systemctl restart docker.service, which stops what ran.  The *)
(* third try ends the program even when it succeeds.                       *)
Halted == [cont EXCEPT !.state = IF @ = "running" THEN "stopped" ELSE @]

RestartDaemon(p) ==
  /\ pc[p] = "restart"
  /\ \E start_flag \in BOOLEAN :
       /\ daemon' = start_flag /\ cont' = Halted
       /\ Goto(p, IF n[p] = 2 THEN "exit" ELSE IF start_flag THEN "image" ELSE "restart")
  /\ n' = [n EXCEPT ![p] = IF pc'[p] = "restart" THEN @ + 1 ELSE 0]
  /\ UNCHANGED <<image, conf, portFile, busy, port, seen, orphan, faults, events>>

(* docker images, docker ps and docker ps -a: three commands.              *)
CheckImage(p) ==
  /\ pc[p] = "image"
  /\ Only(p, IF daemon /\ image THEN "look" ELSE "exit")

LookRunning(p) ==
  /\ pc[p] = "look"
  /\ Only(p, IF ~daemon THEN "exit" ELSE IF Up THEN "enter" ELSE "lookAll")

LookStopped(p) ==
  /\ pc[p] = "lookAll"
  /\ Only(p, IF ~daemon THEN "exit" ELSE IF cont.state # "none" THEN "start" ELSE "dir")

(* docker start.                                                           *)
StartStopped(p) ==
  /\ pc[p] = "start"
  /\ IF daemon /\ cont.state # "none" /\ (Up \/ cont.port \notin busy)
       THEN cont' = [cont EXCEPT !.state = "running"] /\ Goto(p, "enter")
       ELSE Goto(p, "exit") /\ UNCHANGED cont
  /\ UNCHANGED <<daemon, conf, portFile, image, busy, port, n, seen, orphan, faults, events>>

(* netstat finds the port taken, or the user chooses the work directory.   *)
ChooseDirectory(p) ==
  /\ pc[p] = "dir"
  /\ \/ port[p] \in InUse /\ Only(p, "exit")
     \/ port[p] \notin InUse /\ \E answer \in {"run", "exit"} : Only(p, answer)
     \/ /\ port[p] \notin InUse /\ n[p] < MaxRetries
        /\ n' = [n EXCEPT ![p] = @ + 1]
        /\ UNCHANGED <<dock, image, busy, pc, port, seen, orphan, faults, events>>

(* Faulty variant: docker run is not checked.                              *)
DockerRunUnchecked(p) ==
  /\ pc[p] = "run"
  /\ IF daemon /\ cont.state = "none"
       THEN /\ cont' = [state |-> IF port[p] \in busy THEN "created" ELSE "running",
                        port |-> port[p], by |-> p, no |-> cont.no + 1]
            /\ conf' = [s \in AllSteps |-> 0] /\ portFile' = None
       ELSE UNCHANGED <<cont, conf, portFile>>
  /\ Goto(p, "configure")
  /\ n' = [n EXCEPT ![p] = 1]
  /\ UNCHANGED <<daemon, image, busy, port, seen, orphan, faults, events>>

(* docker run: the name must be free; when the port is not, the container  *)
(* is made but does not start, and the program exits.                      *)
DockerRun(p) ==
  /\ pc[p] = "run"
  /\ IF daemon /\ cont.state = "none"
       THEN /\ cont' = [state |-> IF port[p] \in busy THEN "created" ELSE "running",
                        port |-> port[p], by |-> p, no |-> cont.no + 1]
            /\ conf' = [s \in AllSteps |-> 0] /\ portFile' = None
            /\ Goto(p, IF port[p] \in busy THEN "exit" ELSE "configure")
       ELSE Goto(p, "exit") /\ UNCHANGED <<cont, conf, portFile>>
  /\ n' = [n EXCEPT ![p] = 1]
  /\ UNCHANGED <<daemon, image, busy, port, seen, orphan, faults, events>>

(* docker cp reaches a stopped container too, docker exec does not.        *)
Reached(p) == IF Steps[n[p]] \in Copied THEN daemon /\ cont.state # "none" ELSE Up

(* Faulty variant: the port is searched again when it is saved.            *)
ConfigurePortAgain(p) ==
  /\ pc[p] = "configure" /\ Reached(p)
  /\ conf' = [conf EXCEPT ![Steps[n[p]]] = @ + 1]
  /\ portFile' = IF Steps[n[p]] = "port" /\ Ports \ InUse # {} THEN FirstFree ELSE portFile
  /\ n' = [n EXCEPT ![p] = @ + 1]
  /\ Goto(p, IF n[p] = Len(Steps) THEN "enter" ELSE "configure")
  /\ UNCHANGED <<daemon, image, cont, busy, port, seen, orphan, faults, events>>

(* The next step: it addresses the container by its name.                  *)
Configure(p) ==
  /\ pc[p] = "configure" /\ Reached(p)
  /\ conf' = [conf EXCEPT ![Steps[n[p]]] = @ + 1]
  /\ portFile' = IF Steps[n[p]] = "port" THEN port[p] ELSE portFile
  /\ n' = [n EXCEPT ![p] = @ + 1]
  /\ Goto(p, IF n[p] = Len(Steps) THEN "enter" ELSE "configure")
  /\ UNCHANGED <<daemon, image, cont, busy, port, seen, orphan, faults, events>>

(* Faulty variant: the program goes on after a command that failed.        *)
ConfigureGoesOn(p) ==
  /\ pc[p] = "configure"
  /\ IF Reached(p) THEN faults < MaxFaults /\ faults' = faults + 1 ELSE UNCHANGED faults
  /\ n' = [n EXCEPT ![p] = @ + 1]
  /\ Goto(p, IF n[p] = Len(Steps) THEN "enter" ELSE "configure")
  /\ UNCHANGED <<dock, image, busy, port, seen, orphan, events>>

(* run_command(): a command that fails exits, and what was done stays.     *)
ConfigureFails(p) ==
  /\ pc[p] = "configure"
  /\ IF Reached(p) THEN faults < MaxFaults /\ faults' = faults + 1 ELSE UNCHANGED faults
  /\ Goto(p, "exit")
  /\ UNCHANGED <<dock, image, busy, port, n, seen, orphan, events>>

(* docker exec -it bash.                                                   *)
Enter(p) ==
  /\ pc[p] = "enter"
  /\ Only(p, IF Up THEN "shell" ELSE "exit")

StartStep(p) ==
  \/ FindPort(p) \/ CheckDaemon(p) \/ RestartDaemon(p) \/ CheckImage(p)
  \/ LookRunning(p) \/ LookStopped(p) \/ StartStopped(p) \/ ChooseDirectory(p)
  \/ DockerRun(p) \/ Configure(p) \/ ConfigureFails(p) \/ Enter(p)
----------------------------------------------------------------------------
(* stop.py: the ids of the running containers, then one question to stop   *)
(* and one to remove.  An id of a container that is gone raises.           *)
List(q) ==
  /\ pc[q] = "off"
  /\ IF Up THEN Goto(q, "ask") /\ seen' = [seen EXCEPT ![q] = cont.no]
           ELSE Goto(q, "exit") /\ UNCHANGED seen
  /\ UNCHANGED <<dock, image, busy, port, n, orphan, faults, events>>

Known(q) == daemon /\ cont.state # "none" /\ cont.no = seen[q]

StopContainer(q) ==
  /\ pc[q] = "ask"
  /\ \/ /\ Known(q)
        /\ cont' = [cont EXCEPT !.state = "stopped"]
        /\ Goto(q, "askRemove")
     \/ Goto(q, "exit") /\ UNCHANGED cont
  /\ UNCHANGED <<daemon, conf, portFile, image, busy, port, n, seen, orphan, faults, events>>

(* docker rm refuses a container that runs again.                          *)
RemoveContainer(q) ==
  /\ pc[q] = "askRemove"
  /\ \/ /\ Known(q) /\ cont.state # "running"
        /\ cont' = [cont EXCEPT !.state = "none"]
        /\ orphan' = (orphan \/ pc[cont.by] = "configure")
     \/ UNCHANGED <<cont, orphan>>
  /\ Goto(q, "exit")
  /\ UNCHANGED <<daemon, conf, portFile, image, busy, port, n, seen, faults, events>>

StopStep(q) == List(q) \/ StopContainer(q) \/ RemoveContainer(q)
----------------------------------------------------------------------------
(* From outside: the daemon goes down and takes the container with it;     *)
(* another program takes a port or gives it back.                          *)
DaemonDies ==
  /\ daemon /\ daemon' = FALSE
  /\ cont' = Halted
  /\ UNCHANGED busy

PortMoves ==
  /\ \E q \in Ports \ Published :
       busy' = IF q \in busy THEN busy \ {q} ELSE busy \cup {q}
  /\ UNCHANGED <<daemon, cont>>

Outside ==
  /\ events < MaxEvents /\ events' = events + 1
  /\ DaemonDies \/ PortMoves
  /\ UNCHANGED <<conf, portFile, image, pc, port, n, seen, orphan, faults>>

Next == \/ \E p \in Starts : StartStep(p)
        \/ \E q \in Stops : StopStep(q)
        \/ Outside

Spec == Init /\ [][Next]_vars

----------------------------------------------------------------------------
(* Nothing is appended twice to the container's files, although every step *)
(* reaches it by its name: of two runs that both found no container only   *)
(* one goes on.  Not so once a container was removed under its creator.    *)
ConfiguredOnce == ~orphan => \A s \in AllSteps : conf[s] <= 1

(* A run that created the container and reached its shell has configured   *)
(* it completely, whatever stopped and started it meanwhile.               *)
OwnSetupComplete ==
  ~orphan => \A p \in Starts :
    pc[p] = "shell" /\ cont.by = p => \A s \in AllSteps : conf[s] = 1

(* The port saved in the container is the one docker publishes.            *)
PortFileIsPublished == ~orphan /\ portFile # None => portFile = cont.port

============================================================================

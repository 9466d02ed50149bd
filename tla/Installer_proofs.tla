--------------------------- MODULE Installer_proofs ---------------------------
(***************************************************************************)
(* What the two answers of the installer are worth, for every set of       *)
(* binaries and clients, any sequence of commands and any reboots.  Each   *)
(* theorem names the faults it has to exclude; TLC finds it false with     *)
(* them (runs install_lost and remove_ignored).                            *)
(***************************************************************************)
EXTENDS Installer, TLAPS

Running == driver.state # "stopped"

\* The driver has a service and, until its file is moved away, the file it was
\* loaded from.  A command that is under way has said nothing yet.
SystemInv ==
  /\ Running => service # "none"
  /\ InUse => file = driver.image
  /\ run.pc # "off" => said = NothingSaid /\ run.result # "none"
  /\ run.pc \in {"copy", "create", "start"} => run.op = "i"
  /\ run.pc \in {"exists", "stop", "unregister", "delete", "move", "delay"} => run.op = "r"
  /\ run.pc \in {"create", "start"} => file = run.binary /\ file # "none"
  /\ run.pc = "start" => service = "installed" /\ driver = Unloaded
Inv == TypeOK /\ SystemInv

\* Without "volume" and "start": nothing is ever doomed, so that what was
\* installed stays.
InstallInv ==
  /\ ~doomed
  /\ run.pc = "delay" => file = "none"
  /\ said.op = "i" /\ said.result = "SUCCESS" =>
       /\ run.pc = "off" /\ service = "installed" /\ file = said.binary /\ file # "none"
       /\ driver = Loaded(said.binary)

\* Without "scm": a file is touched only when its service is gone or marked.
RemoveInv ==
  /\ run.pc \in {"delete", "move", "delay"} => service # "installed"
  /\ Running /\ ~driver.inPlace => service = "marked"
  /\ said.op = "r" /\ said.result = "SUCCESS" =>
       /\ run.pc = "off" /\ service # "installed" /\ (file = "none" \/ doomed)
       /\ said.rebooted => service = "none" /\ file = "none" /\ driver = Unloaded
-----------------------------------------------------------------------------
(***************************************************************************)
(* What the records are, once: the steps below use only these facts.       *)
(***************************************************************************)
LEMMA IdleIs ==
  /\ Idle \in RunState /\ Idle.pc = "off" /\ Idle.op = "none"
  /\ NothingSaid \in Report /\ NothingSaid.op = "none" /\ NothingSaid.rebooted = FALSE
  BY DEF Idle, NothingSaid, RunState, Report, Stages, Files, Results

LEMMA DriverIs ==
  /\ Unloaded.state = "stopped" /\ Unloaded.inPlace = FALSE
  /\ \A f \in Binaries :
       /\ Loaded(f) \in LoadedDriver /\ Loaded(f).state = "running"
       /\ Loaded(f).image = f /\ Loaded(f).inPlace = TRUE
  BY DEF Unloaded, Loaded, LoadedDriver

LEMMA LoadedIs ==
  ASSUME TypeOK
  PROVE  /\ Running <=> driver # Unloaded
         /\ Running => driver \in LoadedDriver
         /\ driver.inPlace \in BOOLEAN /\ driver.state \in {"stopped", "running", "stopping"}
<1>1. CASE driver = Unloaded
  BY <1>1, DriverIs DEF Running
<1>2. CASE driver \in LoadedDriver
  <2>1. driver.state \in {"running", "stopping"} /\ driver.inPlace \in BOOLEAN
    BY <1>2 DEF LoadedDriver
  <2>2. driver # Unloaded
    BY <2>1, DriverIs
  <2>3. QED  BY <1>2, <2>1, <2>2 DEF Running
<1>3. QED  BY <1>1, <1>2 DEF TypeOK

LEMMA StoppingIs ==
  ASSUME NEW d \in LoadedDriver
  PROVE  LET s == [d EXCEPT !.state = "stopping"] IN
         /\ s \in LoadedDriver /\ s.state = "stopping" /\ s.image = d.image
         /\ s.inPlace = d.inPlace
  BY DEF LoadedDriver

\* Moving the file of a driver that is not loaded changes nothing.
LEMMA UnloadedIsMoved == [Unloaded EXCEPT !.inPlace = FALSE] = Unloaded
<1> DEFINE m == [Unloaded EXCEPT !.inPlace = FALSE]
<1>1. m = [x \in DOMAIN Unloaded |-> IF x = "inPlace" THEN FALSE ELSE Unloaded[x]]
  BY Zenon
<1>2. Unloaded = [x \in DOMAIN Unloaded |-> Unloaded[x]]
  BY Zenon DEF Unloaded
<1>3. \A x : Unloaded[x] = IF x = "inPlace" THEN FALSE ELSE Unloaded[x]
  BY DriverIs
<1>4. QED  BY <1>1, <1>2, <1>3, Zenon

LEMMA MovedIs ==
  ASSUME TypeOK
  PROVE  LET m == [driver EXCEPT !.inPlace = FALSE] IN
         /\ m \in {Unloaded} \cup LoadedDriver /\ m.inPlace = FALSE /\ m.state = driver.state
         /\ driver = Unloaded => m = Unloaded
<1>1. CASE driver = Unloaded
  BY <1>1, UnloadedIsMoved, DriverIs
<1>2. CASE driver \in LoadedDriver
  <2>1. LET m == [driver EXCEPT !.inPlace = FALSE] IN
          m \in LoadedDriver /\ m.inPlace = FALSE /\ m.state = driver.state
    BY <1>2 DEF LoadedDriver
  <2>2. driver # Unloaded
    BY <1>2, DriverIs DEF LoadedDriver
  <2>3. QED  BY <2>1, <2>2
<1>3. QED  BY <1>1, <1>2 DEF TypeOK

LEMMA GoIs ==
  ASSUME TypeOK, NEW pc \in Stages, Go(pc)
  PROVE  /\ run' \in RunState /\ run'.pc = pc /\ run'.op = run.op
         /\ run'.binary = run.binary /\ run'.result = run.result /\ said' = said
  BY DEF TypeOK, Go, RunState

LEMMA ExitIs ==
  ASSUME TypeOK, NEW result \in Results, Exit(result)
  PROVE  /\ run' = Idle /\ run'.pc = "off" /\ run' \in RunState
         /\ said' \in Report /\ said'.op = run.op /\ said'.binary = run.binary
         /\ said'.result = result /\ said'.rebooted = FALSE
<1>1. run.op \in {"none", "i", "r"} /\ run.binary \in Files
  BY DEF TypeOK, RunState
<1>2. said' = [op |-> run.op, binary |-> run.binary, result |-> result, rebooted |-> FALSE]
      /\ run' = Idle
  BY DEF Exit
<1>3. said' \in Report
  BY <1>1, <1>2 DEF Report
<1>4. QED  BY <1>2, <1>3, IdleIs

LEMMA RunIs ==
  ASSUME TypeOK
  PROVE  /\ run.pc \in Stages /\ run.binary \in Files /\ run.result \in Results
         /\ said.op \in {"none", "i", "r"}
  BY DEF TypeOK, RunState, Report
-----------------------------------------------------------------------------
LEMMA InitOK == Init => Inv /\ InstallInv /\ RemoveInv
<1> SUFFICES ASSUME Init PROVE Inv /\ InstallInv /\ RemoveInv
  OBVIOUS
<1>1. driver.state = "stopped" /\ run.pc = "off" /\ said.op = "none"
  BY IdleIs, DriverIs DEF Init
<1>2. TypeOK
  BY <1>1, IdleIs DEF Init, TypeOK, Files
<1>3. SystemInv
  BY <1>1 DEF SystemInv, Running, InUse
<1>4. InstallInv
  BY <1>1 DEF Init, InstallInv
<1>5. RemoveInv
  BY <1>1 DEF RemoveInv, Running
<1>6. QED  BY <1>2, <1>3, <1>4, <1>5 DEF Inv

LEMMA CommandOK ==
  ASSUME Inv, Command
  PROVE  /\ Inv' /\ said' = NothingSaid /\ said'.op = "none" /\ run'.pc \in {"copy", "exists"}
         /\ UNCHANGED system
<1>1. /\ run' \in RunState /\ run'.result = "SUCCESS"
      /\ \/ run'.pc = "copy" /\ run'.op = "i"
         \/ run'.pc = "exists" /\ run'.op = "r"
  BY DEF Command, RunState, Stages, Files, Results
<1>2. said' = NothingSaid /\ UNCHANGED system
  BY DEF Command
<1>3. TypeOK'
  BY <1>1, <1>2, IdleIs DEF Inv, TypeOK, system
<1>4. SystemInv'
  BY <1>1, <1>2 DEF Inv, SystemInv, system, Running, InUse
<1>5. QED  BY <1>1, <1>2, <1>3, <1>4, IdleIs DEF Inv

LEMMA CopyBinaryOK ==
  ASSUME Inv, CopyBinary
  PROVE  Inv'
<1>1. run.pc = "copy" /\ run.op = "i" /\ run.binary \in Files /\ said = NothingSaid
      /\ run.result # "none"
  BY RunIs DEF Inv, SystemInv, CopyBinary
<1>2. CASE Exit("FAILURE") /\ UNCHANGED file
  BY <1>1, <1>2, ExitIs DEF Inv, TypeOK, SystemInv, CopyBinary, Running, InUse, Results
<1>3. CASE file' = run.binary /\ Go("create") /\ ~InUse /\ run.binary # "none"
  BY <1>1, <1>3, GoIs DEF Inv, TypeOK, SystemInv, CopyBinary, Running, InUse, Stages
<1>4. QED  BY <1>2, <1>3 DEF CopyBinary

LEMMA EcIOServiceInstallOK ==
  ASSUME Inv, EcIOServiceInstall
  PROVE  Inv'
<1>1. run.pc = "create" /\ run.op = "i" /\ file = run.binary /\ said = NothingSaid
      /\ run.result # "none" /\ file # "none"
  BY DEF Inv, SystemInv, EcIOServiceInstall
<1>2. CASE Exit("FAILURE") /\ UNCHANGED service
  BY <1>1, <1>2, ExitIs DEF Inv, TypeOK, SystemInv, EcIOServiceInstall, Running, InUse, Results
<1>3. CASE service = "none" /\ service' = "installed" /\ Go("start")
  <2>1. driver = Unloaded /\ UNCHANGED <<file, driver>>
    BY <1>3, LoadedIs DEF Inv, SystemInv, EcIOServiceInstall
  <2>2. QED
    BY <1>1, <1>3, <2>1, GoIs, DriverIs
    DEF Inv, TypeOK, SystemInv, EcIOServiceInstall, Running, InUse, Stages
<1>4. QED  BY <1>2, <1>3 DEF EcIOServiceInstall

LEMMA EcIOServiceStartOK ==
  ASSUME Inv, EcIOServiceStart
  PROVE  /\ Inv' /\ run.pc = "start" /\ run.op = "i" /\ service = "installed"
         /\ file = run.binary /\ file \in Binaries /\ run' = Idle /\ said'.op = "i"
         /\ said'.binary = run.binary /\ UNCHANGED <<file, doomed, service>>
         /\ said'.result = "SUCCESS" => driver' = Loaded(file)
<1>1. run.pc = "start" /\ run.op = "i" /\ file = run.binary /\ file \in Binaries
      /\ service = "installed" /\ driver = Unloaded /\ UNCHANGED <<file, doomed, service, open>>
  BY DEF Inv, TypeOK, SystemInv, EcIOServiceStart, Files
<1>2. \/ Exit("FAILURE") /\ UNCHANGED driver
      \/ Exit("SUCCESS") /\ driver' = Loaded(file)
  BY <1>1, DriverIs DEF EcIOServiceStart
<1>3. /\ run' = Idle /\ run'.pc = "off" /\ run' \in RunState /\ said' \in Report /\ said'.op = "i"
      /\ said'.binary = run.binary /\ said'.result # "none"
      /\ said'.result = "SUCCESS" => driver' = Loaded(file)
  BY <1>1, <1>2, ExitIs DEF Inv, Results
<1>4. TypeOK'
  BY <1>1, <1>2, <1>3, DriverIs DEF Inv, TypeOK
<1>5. SystemInv'
  BY <1>1, <1>2, <1>3, DriverIs DEF SystemInv, Running, InUse
<1>6. QED  BY <1>1, <1>3, <1>4, <1>5 DEF Inv

LEMMA EcIOServiceExistsOK ==
  ASSUME Inv, EcIOServiceExists
  PROVE  Inv'
<1>1. run.pc = "exists" /\ run.op = "r" /\ UNCHANGED system /\ said = NothingSaid
      /\ run.result # "none" /\ (Go("stop") \/ Go("delete"))
  BY DEF Inv, SystemInv, EcIOServiceExists
<1>2. /\ run' \in RunState /\ run'.pc \in {"stop", "delete"} /\ run'.op = "r"
      /\ run'.result # "none" /\ said' = said
  BY <1>1, GoIs DEF Inv, Stages
<1>3. QED  BY <1>1, <1>2 DEF Inv, TypeOK, SystemInv, system, Running, InUse

LEMMA EcIOServiceStopOK ==
  ASSUME Inv, EcIOServiceStop
  PROVE  /\ Inv' /\ run.pc = "stop" /\ run'.pc = "unregister" /\ said' = said
         /\ UNCHANGED <<file, doomed, service, open>>
         /\ Running' => Running /\ driver'.inPlace = driver.inPlace
<1>1. /\ run.pc = "stop" /\ run.op = "r" /\ said = NothingSaid /\ run.result # "none"
      /\ Go("unregister") /\ UNCHANGED <<file, doomed, service, open>>
  BY DEF Inv, SystemInv, EcIOServiceStop
<1>2. /\ run' \in RunState /\ run'.pc = "unregister" /\ run'.op = "r"
      /\ run'.result # "none" /\ said' = said
  BY <1>1, GoIs DEF Inv, Stages
<1>3. \/ driver' = driver
      \/ driver' = Unloaded
      \/ driver.state = "running" /\ driver' = [driver EXCEPT !.state = "stopping"]
  BY DEF EcIOServiceStop
<1>4. /\ driver' \in {Unloaded} \cup LoadedDriver
      /\ \/ driver' = Unloaded
         \/ /\ Running' <=> Running
            /\ driver'.image = driver.image /\ driver'.inPlace = driver.inPlace
  <2>1. CASE driver' = driver \/ driver' = Unloaded
    BY <2>1 DEF Inv, TypeOK, Running
  <2>2. CASE driver.state = "running" /\ driver' = [driver EXCEPT !.state = "stopping"]
    <3>1. driver \in LoadedDriver /\ Running
      BY <2>2, LoadedIs DEF Inv, Running
    <3>2. QED  BY <2>2, <3>1, StoppingIs DEF Running
  <2>3. QED  BY <1>3, <2>1, <2>2
<1>5. TypeOK'
  BY <1>1, <1>2, <1>4 DEF Inv, TypeOK
<1>6. SystemInv'
  BY <1>1, <1>2, <1>4, DriverIs DEF Inv, SystemInv, Running, InUse
<1>7. Running' => Running /\ driver'.inPlace = driver.inPlace
  BY <1>4, DriverIs DEF Running
<1>8. QED  BY <1>1, <1>2, <1>5, <1>6, <1>7 DEF Inv

LEMMA EcIOServiceDeleteOK ==
  ASSUME Inv, EcIOServiceDelete
  PROVE  /\ Inv' /\ run.pc = "unregister" /\ run'.pc = "delete" /\ said' = said
         /\ UNCHANGED <<file, doomed, driver, open>>
         /\ service' = service \/ service' = "marked"
<1>1. /\ run.pc = "unregister" /\ run.op = "r" /\ said = NothingSaid /\ run.result # "none"
      /\ UNCHANGED <<file, doomed, driver, open>>
  BY DEF Inv, SystemInv, EcIOServiceDelete
<1>2. /\ run' \in RunState /\ run'.pc = "delete" /\ run'.op = "r" /\ run'.result # "none"
      /\ said' = said /\ (service' = service \/ service' = "marked")
  <2>1. CASE service' = "marked" /\ Go("delete")
    BY <1>1, <2>1, GoIs DEF Inv, Stages
  <2>2. CASE /\ run' = [run EXCEPT !.pc = "delete", !.result = "FAILURE"]
             /\ UNCHANGED <<service, said>>
    BY <1>1, <2>2 DEF Inv, TypeOK, RunState, Stages, Results
  <2>3. QED  BY <2>1, <2>2 DEF EcIOServiceDelete
<1>3. TypeOK'
  BY <1>1, <1>2 DEF Inv, TypeOK
<1>4. SystemInv'
  BY <1>1, <1>2 DEF Inv, SystemInv, Running, InUse
<1>5. QED  BY <1>1, <1>2, <1>3, <1>4 DEF Inv

\* What the two ways of getting rid of the file have in common: it was not the
\* image of a running driver, or it is moved away from under it.
LEMMA DeleteDriverFileOK ==
  ASSUME Inv, DeleteDriverFile
  PROVE  /\ Inv' /\ run.pc = "delete" /\ UNCHANGED <<doomed, service, driver, open>>
         /\ \/ run'.pc = "move" /\ said' = said /\ file' = file
            \/ file' = "none" /\ run' = Idle /\ said'.op = "r" /\ said'.rebooted = FALSE
<1>1. /\ run.pc = "delete" /\ run.op = "r" /\ said = NothingSaid /\ run.result # "none"
      /\ run.result \in Results /\ UNCHANGED <<doomed, service, driver, open>>
  BY RunIs DEF Inv, SystemInv, DeleteDriverFile
<1>2. CASE Go("move") /\ UNCHANGED file
  <2>1. run' \in RunState /\ run'.pc = "move" /\ run'.op = "r" /\ run'.result # "none" /\ said' = said
    BY <1>1, <1>2, GoIs DEF Inv, Stages
  <2>2. QED  BY <1>1, <1>2, <2>1 DEF Inv, TypeOK, SystemInv, Running, InUse
<1>3. CASE ~InUse /\ file' = "none" /\ Exit(run.result)
  <2>1. /\ run' = Idle /\ run'.pc = "off" /\ run' \in RunState /\ said' \in Report
        /\ said'.op = "r" /\ said'.result # "none" /\ said'.rebooted = FALSE
    BY <1>1, <1>3, ExitIs DEF Inv
  <2>2. QED  BY <1>1, <1>3, <2>1 DEF Inv, TypeOK, SystemInv, Running, InUse, Files
<1>4. QED  BY <1>2, <1>3 DEF DeleteDriverFile

LEMMA MoveDriverFileOK ==
  ASSUME Inv, MoveDriverFile
  PROVE  /\ Inv' /\ run.pc = "move" /\ UNCHANGED <<doomed, service, open>>
         /\ \/ run'.pc = "delay" /\ said' = said /\ UNCHANGED <<file, driver>>
               /\ ("volume" \notin Faults => file = "none")
            \/ /\ file' = "none" /\ run' = Idle /\ said'.op = "r" /\ said'.rebooted = FALSE
               /\ Running' <=> Running
<1>1. /\ run.pc = "move" /\ run.op = "r" /\ said = NothingSaid /\ run.result # "none"
      /\ run.result \in Results /\ UNCHANGED <<doomed, service, open>>
  BY RunIs DEF Inv, SystemInv, MoveDriverFile
<1>2. CASE Go("delay") /\ UNCHANGED <<file, driver>> /\ ("volume" \notin Faults => file = "none")
  <2>1. run' \in RunState /\ run'.pc = "delay" /\ run'.op = "r" /\ run'.result # "none" /\ said' = said
    BY <1>1, <1>2, GoIs DEF Inv, Stages
  <2>2. QED  BY <1>1, <1>2, <2>1 DEF Inv, TypeOK, SystemInv, Running, InUse
<1>3. CASE file' = "none" /\ driver' = [driver EXCEPT !.inPlace = FALSE] /\ Exit(run.result)
  <2>1. /\ run' = Idle /\ run'.pc = "off" /\ run' \in RunState /\ said' \in Report
        /\ said'.op = "r" /\ said'.result # "none" /\ said'.rebooted = FALSE
    BY <1>1, <1>3, ExitIs DEF Inv
  <2>2. driver' \in {Unloaded} \cup LoadedDriver /\ driver'.inPlace = FALSE
        /\ driver'.state = driver.state
    BY <1>3, MovedIs DEF Inv
  <2>3. QED  BY <1>1, <1>3, <2>1, <2>2 DEF Inv, TypeOK, SystemInv, Running, InUse, Files
<1>4. QED  BY <1>2, <1>3 DEF MoveDriverFile, May

LEMMA DelayDeleteOK ==
  ASSUME Inv, DelayDelete
  PROVE  /\ Inv' /\ run.pc = "delay" /\ UNCHANGED <<file, service, driver, open>>
         /\ doomed' = (doomed \/ file # "none")
         /\ run' = Idle /\ said'.op = "r" /\ said'.rebooted = FALSE
<1>1. /\ run.pc = "delay" /\ run.op = "r" /\ run.result # "none" /\ run.result \in Results
      /\ UNCHANGED <<file, service, driver, open>> /\ doomed' = (doomed \/ file # "none")
      /\ Exit(run.result)
  BY RunIs DEF Inv, SystemInv, DelayDelete
<1>2. /\ run' = Idle /\ run'.pc = "off" /\ run' \in RunState /\ said' \in Report
      /\ said'.op = "r" /\ said'.result # "none" /\ said'.rebooted = FALSE
  BY <1>1, ExitIs DEF Inv
<1>3. QED  BY <1>1, <1>2 DEF Inv, TypeOK, SystemInv, Running, InUse
-----------------------------------------------------------------------------
(***************************************************************************)
(* The rest of the machine.                                                *)
(***************************************************************************)
LEMMA ClientOK ==
  ASSUME Inv, NEW c \in Clients, OpenDevice(c) \/ CloseDevice(c)
  PROVE  /\ Inv' /\ UNCHANGED <<file, doomed, service, run, said>>
         /\ driver' = driver \/ (driver.state # "running" /\ driver' = Unloaded)
<1>1. /\ UNCHANGED <<file, doomed, service, run, said>> /\ open' \in SUBSET Clients
      /\ driver' = driver \/ (driver.state = "stopping" /\ driver' = Unloaded)
  BY DEF Inv, TypeOK, OpenDevice, CloseDevice
<1>2. TypeOK'
  BY <1>1 DEF Inv, TypeOK
<1>3. SystemInv'
  BY <1>1, DriverIs DEF Inv, SystemInv, Running, InUse
<1>4. QED  BY <1>1, <1>2, <1>3 DEF Inv

LEMMA DropServiceOK ==
  ASSUME Inv, DropService
  PROVE  /\ Inv' /\ UNCHANGED <<file, doomed, driver, open, run, said>>
         /\ service = "marked" /\ ~Running /\ service' = "none"
  BY DEF Inv, TypeOK, SystemInv, DropService, Running, InUse

LEMMA RebootOK ==
  ASSUME Inv, Reboot
  PROVE  /\ Inv' /\ run'.pc = "off" /\ doomed' = FALSE
         /\ said'.op = said.op /\ said'.result = said.result /\ said'.binary = said.binary
         /\ file' = IF doomed THEN "none" ELSE file
         /\ service' = IF service = "marked" THEN "none" ELSE service
         /\ \/ driver' = Unloaded /\ (service' # "installed" \/ file' = "none" \/ "start" \in Faults)
            \/ service' = "installed" /\ file' \in Binaries /\ driver' = Loaded(file')
<1>1. /\ file' = IF doomed THEN "none" ELSE file
      /\ doomed' = FALSE /\ open' = {} /\ run' = Idle
      /\ service' = IF service = "marked" THEN "none" ELSE service
  BY DEF Reboot
<1>2. /\ said' \in Report /\ said'.op = said.op /\ said'.result = said.result
      /\ said'.binary = said.binary
  BY DEF Inv, TypeOK, Report, Reboot
<1>3. file' \in Files /\ service' \in {"none", "installed", "marked"}
  BY <1>1 DEF Inv, TypeOK, Files
<1>4. \/ driver' = Unloaded /\ (service' # "installed" \/ file' = "none" \/ "start" \in Faults)
      \/ service' = "installed" /\ file' \in Binaries /\ driver' = Loaded(file')
  BY <1>3 DEF Reboot, May, Files
<1>5. driver' \in {Unloaded} \cup LoadedDriver
  BY <1>4, DriverIs
<1>6. TypeOK'
  BY <1>1, <1>2, <1>3, <1>5, IdleIs DEF Inv, TypeOK
<1>7. SystemInv'
  BY <1>1, <1>4, IdleIs, DriverIs DEF SystemInv, Running, InUse
<1>8. QED  BY <1>1, <1>2, <1>4, <1>6, <1>7, IdleIs DEF Inv
-----------------------------------------------------------------------------
(***************************************************************************)
(* Type correctness and the order of things.                               *)
(***************************************************************************)
LEMMA NextOK ==
  ASSUME Inv, [Next]_vars
  PROVE  Inv'
<1>1. CASE Command
  BY <1>1, CommandOK
<1>2. CASE Installing
  BY <1>2, CopyBinaryOK, EcIOServiceInstallOK, EcIOServiceStartOK DEF Installing
<1>3. CASE Removing
  BY <1>3, EcIOServiceExistsOK, EcIOServiceStopOK, EcIOServiceDeleteOK, DeleteDriverFileOK,
     MoveDriverFileOK, DelayDeleteOK DEF Removing
<1>4. CASE \E c \in Clients : OpenDevice(c) \/ CloseDevice(c)
  BY <1>4, ClientOK
<1>5. CASE DropService \/ Reboot
  BY <1>5, DropServiceOK, RebootOK
<1>6. CASE UNCHANGED vars
  BY <1>6 DEF vars, Inv, TypeOK, SystemInv, Running, InUse
<1>7. QED  BY <1>1, <1>2, <1>3, <1>4, <1>5, <1>6 DEF Next

LEMMA AlwaysInv == Spec => []Inv
<1>1. Init => Inv
  BY InitOK
<1>2. Inv /\ [Next]_vars => Inv'
  BY NextOK
<1>3. QED  BY <1>1, <1>2, PTL DEF Spec

\* Every command that ends says how, and what is loaded was installed
\* (XiaomiEcIoInstaller.cpp 243-341).
THEOREM TypeCorrect == Spec => []TypeOK
<1>1. Inv => TypeOK
  BY DEF Inv
<1>2. QED  BY <1>1, AlwaysInv, PTL

-----------------------------------------------------------------------------
(***************************************************************************)
(* "Driver installation succeeded!" holds until the next command, unless   *)
(* the driver does not start or a file could not be moved to the temporary *)
(* directory by an earlier /r.                                             *)
(***************************************************************************)
LEMMA InstallInvOK ==
  ASSUME Inv, InstallInv, [Next]_vars, "volume" \notin Faults, "start" \notin Faults
  PROVE  InstallInv'
<1> DEFINE Succeeded == said.op = "i" /\ said.result = "SUCCESS"
<1>1. run.pc # "off" => said.op = "none"
  BY IdleIs DEF Inv, SystemInv
<1>2. CASE Command
  <2>1. said'.op = "none" /\ run'.pc # "delay" /\ doomed' = doomed
    BY <1>2, CommandOK DEF system
  <2>2. QED  BY <2>1 DEF InstallInv
<1>3. CASE CopyBinary \/ EcIOServiceInstall
  <2>1. /\ run.pc # "off" /\ doomed' = doomed
        /\ (Exit("FAILURE") \/ Go("create") \/ Go("start"))
    BY <1>3 DEF CopyBinary, EcIOServiceInstall
  <2>2. said' = said \/ said'.result = "FAILURE"
    BY <2>1 DEF Go, Exit
  <2>3. run'.pc # "delay"
    BY <2>1, IdleIs, GoIs DEF Exit, Inv, Stages
  <2>4. QED  BY <1>1, <2>1, <2>2, <2>3 DEF InstallInv
<1>4. CASE EcIOServiceStart
  <2>1. /\ service' = "installed" /\ file' = said'.binary /\ file' \in Binaries
        /\ said'.result = "SUCCESS" => driver' = Loaded(file')
    BY <1>4, EcIOServiceStartOK
  <2>2. run'.pc = "off" /\ doomed' = doomed
    BY <1>4, EcIOServiceStartOK, IdleIs
  <2>3. QED  BY <2>1, <2>2, InstallerAssumption DEF InstallInv
<1>5. CASE EcIOServiceExists \/ EcIOServiceStop \/ EcIOServiceDelete
  <2>1. run.pc # "off" /\ said' = said /\ run'.pc # "delay" /\ doomed' = doomed
    BY <1>5, GoIs, EcIOServiceStopOK, EcIOServiceDeleteOK
    DEF Inv, Stages, EcIOServiceExists, Go, system
  <2>2. QED  BY <1>1, <2>1 DEF InstallInv
<1>6. CASE DeleteDriverFile
  <2>1. doomed' = doomed /\ said'.op # "i" /\ run'.pc # "delay"
    <3>1. CASE run'.pc = "move" /\ said' = said
      BY <1>1, <1>6, <3>1, DeleteDriverFileOK
    <3>2. CASE run' = Idle /\ said'.op = "r"
      BY <1>6, <3>2, DeleteDriverFileOK, IdleIs
    <3>3. QED  BY <1>6, <3>1, <3>2, DeleteDriverFileOK
  <2>2. QED  BY <2>1 DEF InstallInv
<1>7. CASE MoveDriverFile
  <2>1. doomed' = doomed /\ said'.op # "i" /\ (run'.pc = "delay" => file' = "none")
    <3>1. CASE run'.pc = "delay" /\ said' = said /\ file' = "none"
      BY <1>1, <1>7, <3>1, MoveDriverFileOK
    <3>2. CASE run' = Idle /\ said'.op = "r"
      BY <1>7, <3>2, MoveDriverFileOK, IdleIs
    <3>3. QED  BY <1>7, <3>1, <3>2, MoveDriverFileOK
  <2>2. QED  BY <2>1 DEF InstallInv
<1>8. CASE DelayDelete
  BY <1>1, <1>8, DelayDeleteOK, IdleIs DEF InstallInv
<1>9. CASE \E c \in Clients : OpenDevice(c) \/ CloseDevice(c)
  <2>1. /\ UNCHANGED <<file, doomed, service, run, said>>
        /\ driver' = driver \/ driver.state # "running"
    BY <1>9, ClientOK
  <2>2. Succeeded => driver.state = "running"
    BY DriverIs DEF InstallInv, Inv, TypeOK, Files
  <2>3. QED  BY <2>1, <2>2 DEF InstallInv
<1>10. CASE DropService
  BY <1>10, DropServiceOK DEF InstallInv
<1>11. CASE Reboot
  <2>1. file' = file /\ ~doomed' /\ run'.pc = "off" /\ said'.op = said.op
        /\ said'.result = said.result /\ said'.binary = said.binary
    BY <1>11, RebootOK DEF InstallInv
  <2>2. CASE Succeeded
    BY <1>11, <2>1, <2>2, RebootOK DEF InstallInv
  <2>3. CASE ~Succeeded
    BY <2>1, <2>3 DEF InstallInv
  <2>4. QED  BY <2>2, <2>3
<1>12. CASE UNCHANGED vars
  BY <1>12 DEF vars, InstallInv
<1>13. QED
  BY <1>2, <1>3, <1>4, <1>5, <1>6, <1>7, <1>8, <1>9, <1>10, <1>11, <1>12
  DEF Next, Installing, Removing

\* "Driver installation succeeded!" (line 173) stays true over any number of
\* reboots, whatever happened before, when the temporary directory is on the
\* volume of the driver file and the driver starts.
THEOREM InstallLasts ==
  ASSUME "volume" \notin Faults, "start" \notin Faults
  PROVE  Spec => []InstalledRuns
<1>1. Init => InstallInv
  BY InitOK
<1>2. Inv /\ InstallInv /\ [Next]_vars => InstallInv'
  BY InstallInvOK
<1>3. TypeOK /\ InstallInv => InstalledRuns
  BY DriverIs DEF TypeOK, InstallInv, InstalledRuns, Files
<1>4. Inv => TypeOK
  BY DEF Inv
<1>5. QED  BY <1>1, <1>2, <1>3, <1>4, AlwaysInv, PTL DEF Spec
-----------------------------------------------------------------------------
(***************************************************************************)
(* "removed." holds after the next reboot, and a service keeps its file,   *)
(* when the service manager answers.                                       *)
(***************************************************************************)
LEMMA RemoveInvOK ==
  ASSUME Inv, RemoveInv, [Next]_vars, "scm" \notin Faults
  PROVE  RemoveInv'
<1> DEFINE Succeeded == said.op = "r" /\ said.result = "SUCCESS"
           Early(pc) == pc \notin {"delete", "move", "delay"}
<1>1. run.pc # "off" => said.op = "none"
  BY IdleIs DEF Inv, SystemInv
<1>2. CASE Command
  <2>1. said'.op = "none" /\ Early(run'.pc) /\ UNCHANGED <<service, driver>>
    BY <1>2, CommandOK DEF system
  <2>2. QED  BY <2>1 DEF RemoveInv, Running
<1>3. CASE CopyBinary
  <2>1. /\ run.pc # "off" /\ UNCHANGED <<service, driver>> /\ run.op = "i"
        /\ (Exit("FAILURE") \/ Go("create"))
    BY <1>3 DEF CopyBinary, Inv, SystemInv
  <2>2. Early(run'.pc) /\ (said' = said \/ said'.op = "i")
    BY <2>1, IdleIs, GoIs DEF Go, Exit, Inv, Stages
  <2>3. QED  BY <1>1, <2>1, <2>2 DEF RemoveInv, Running
<1>4. CASE EcIOServiceInstall
  <2>1. /\ run.pc # "off" /\ UNCHANGED driver /\ run.op = "i"
        /\ service' = service \/ service = "none"
        /\ (Exit("FAILURE") \/ Go("start"))
    BY <1>4 DEF EcIOServiceInstall, Inv, SystemInv
  <2>2. Early(run'.pc) /\ (said' = said \/ said'.op = "i")
    BY <2>1, IdleIs, GoIs DEF Go, Exit, Inv, Stages
  <2>3. service = "none" => ~Running
    BY DEF Inv, SystemInv
  <2>4. QED  BY <1>1, <2>1, <2>2, <2>3 DEF RemoveInv, Running
<1>5. CASE EcIOServiceStart
  <2>1. /\ run'.pc = "off" /\ said'.op = "i"
        /\ driver' = Loaded(file) \/ driver' = driver
        /\ driver = Unloaded /\ file \in Binaries
    BY <1>5, EcIOServiceStartOK, IdleIs DEF EcIOServiceStart, Inv, SystemInv
  <2>2. QED  BY <2>1, DriverIs DEF RemoveInv, Running
<1>6. CASE EcIOServiceExists
  <2>1. UNCHANGED <<service, driver, said>> /\ run.pc # "off"
    BY <1>6 DEF EcIOServiceExists, Go, system
  <2>2. PICK ok \in May("scm") : Go(IF ok /\ service # "none" THEN "stop" ELSE "delete")
    BY <1>6 DEF EcIOServiceExists
  <2>3. Go("stop") \/ (Go("delete") /\ service = "none")
    BY <2>2 DEF May
  <2>4. Early(run'.pc) \/ service = "none"
    BY <2>3, GoIs DEF Inv, Stages
  <2>5. QED  BY <1>1, <2>1, <2>4 DEF RemoveInv, Running
<1>7. CASE EcIOServiceStop
  BY <1>1, <1>7, EcIOServiceStopOK DEF RemoveInv
<1>8. CASE EcIOServiceDelete
  <2>1. service' # "installed" /\ (Running => service # "none")
    BY <1>8 DEF EcIOServiceDelete, May, Inv, SystemInv
  <2>2. QED  BY <1>1, <1>8, <2>1, EcIOServiceDeleteOK DEF RemoveInv, Running
<1>9. CASE DeleteDriverFile
  BY <1>1, <1>9, DeleteDriverFileOK, IdleIs DEF RemoveInv, Running
<1>10. CASE MoveDriverFile
  <2>1. service \in {"none", "marked"} /\ (Running => service # "none")
    BY <1>10 DEF MoveDriverFile, RemoveInv, Inv, TypeOK, SystemInv
  <2>2. QED  BY <1>1, <1>10, <2>1, MoveDriverFileOK, IdleIs DEF RemoveInv, Running
<1>11. CASE DelayDelete
  BY <1>1, <1>11, DelayDeleteOK, IdleIs DEF RemoveInv, Running
<1>12. CASE \E c \in Clients : OpenDevice(c) \/ CloseDevice(c)
  BY <1>12, ClientOK, DriverIs DEF RemoveInv, Running
<1>13. CASE DropService
  BY <1>13, DropServiceOK DEF RemoveInv, Running
<1>14. CASE Reboot
  <2>1. Early(run'.pc) /\ (Running' /\ ~driver'.inPlace => service' = "marked")
    BY <1>14, RebootOK, DriverIs DEF Running
  <2>2. CASE Succeeded
    <3>1. service' = "none" /\ file' = "none"
      BY <1>14, <2>2, RebootOK DEF RemoveInv, Inv, TypeOK
    <3>2. QED  BY <1>14, <2>1, <3>1, RebootOK DEF RemoveInv
  <2>3. CASE ~Succeeded
    BY <1>14, <2>1, <2>3, RebootOK DEF RemoveInv
  <2>4. QED  BY <2>2, <2>3
<1>15. CASE UNCHANGED vars
  BY <1>15 DEF vars, RemoveInv, Running
<1>16. QED
  BY <1>2, <1>3, <1>4, <1>5, <1>6, <1>7, <1>8, <1>9, <1>10, <1>11, <1>12, <1>13, <1>14, <1>15
  DEF Next, Installing, Removing

LEMMA AlwaysRemoveInv ==
  ASSUME "scm" \notin Faults
  PROVE  Spec => []RemoveInv
<1>1. Init => RemoveInv
  BY InitOK
<1>2. Inv /\ RemoveInv /\ [Next]_vars => RemoveInv'
  BY RemoveInvOK
<1>3. QED  BY <1>1, <1>2, AlwaysInv, PTL DEF Spec

\* "removed." (line 226) means gone after the next reboot, whatever clients
\* had open and whatever earlier commands left behind.
THEOREM RemoveIsComplete ==
  ASSUME "scm" \notin Faults
  PROVE  Spec => []RemovedIsGone
<1>1. RemoveInv => RemovedIsGone
  BY DriverIs DEF RemoveInv, RemovedIsGone
<1>2. QED  BY <1>1, AlwaysRemoveInv, PTL

\* The file of an installed and running driver is never taken away
\* (lines 304-336 run only after the service is gone or marked).
THEOREM ServiceKeepsFile ==
  ASSUME "scm" \notin Faults
  PROVE  Spec => []RunningIsOnDisk
<1>1. Inv /\ RemoveInv => RunningIsOnDisk
  BY LoadedIs DEF Inv, SystemInv, RemoveInv, RunningIsOnDisk, Running, InUse
<1>2. QED  BY <1>1, AlwaysInv, AlwaysRemoveInv, PTL

\* Nothing but a service that is there makes /i <binary> fail, an earlier one or
\* the one that the command created itself and could not start
\* (lines 132-147, 288-291).
THEOREM OnlyServiceBlocks ==
  ASSUME "scm" \notin Faults
  PROVE  Spec => InstallBlockedOnlyByService
<1>1. Inv /\ [Next]_vars => [FailsToInstall /\ said'.binary # "none" => service # "none"]_vars
  <2> SUFFICES ASSUME Inv, Next, FailsToInstall, said'.binary # "none"
               PROVE  service # "none"
    BY DEF vars
  <2>1. CASE Command
    BY <2>1, CommandOK DEF FailsToInstall
  <2>2. CASE CopyBinary
    <3>1. CASE Go("create")
      BY <3>1 DEF Go, FailsToInstall
    <3>2. CASE Exit("FAILURE") /\ (run.binary = "none" \/ InUse)
      BY <3>2, ExitIs DEF Inv, SystemInv, Running, InUse, Results
    <3>3. QED  BY <2>2, <3>1, <3>2 DEF CopyBinary
  <2>3. CASE EcIOServiceInstall
    <3>1. CASE Go("start")
      BY <3>1 DEF Go, FailsToInstall
    <3>2. CASE ~Go("start")
      BY <2>3, <3>2 DEF EcIOServiceInstall, May, Inv, SystemInv
    <3>3. QED  BY <3>1, <3>2
  <2>4. CASE EcIOServiceStart
    BY <2>4 DEF EcIOServiceStart, Inv, SystemInv
  <2>5. CASE Removing
    <3>1. said' = said \/ said'.op = "r"
      BY <2>5, EcIOServiceStopOK, EcIOServiceDeleteOK, DeleteDriverFileOK, MoveDriverFileOK,
         DelayDeleteOK DEF Removing, EcIOServiceExists, Go
    <3>2. QED  BY <3>1 DEF FailsToInstall
  <2>6. CASE \E c \in Clients : OpenDevice(c) \/ CloseDevice(c)
    BY <2>6, ClientOK DEF FailsToInstall
  <2>7. CASE DropService \/ Reboot
    BY <2>7, DropServiceOK, RebootOK DEF FailsToInstall
  <2>8. QED  BY <2>1, <2>2, <2>3, <2>4, <2>5, <2>6, <2>7 DEF Next, Installing
<1>2. QED  BY <1>1, AlwaysInv, PTL DEF Spec, InstallBlockedOnlyByService
=============================================================================

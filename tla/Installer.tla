------------------------------ MODULE Installer ------------------------------
(***************************************************************************)
(* XiaomiEcIoInstaller: the commands /i <binary> and /r against the        *)
(* service control manager, the driver file under drivers\, the driver     *)
(* itself and the list of files that are deleted at the next reboot.       *)
(* Every call of the system is a step: clients come and go between two of  *)
(* them, and the machine may reboot.  One installer runs at a time.        *)
(*                                                                         *)
(* The service manager, the loader and the file system are not part of the *)
(* repository and are modelled from how the installer uses them.           *)
(***************************************************************************)
EXTENDS Integers

CONSTANTS
  Binaries,  \* driver files that /i may be given
  Clients,   \* processes that open the device
  Faults     \* what may fail: "scm", "start", "volume"

(***************************************************************************)
(* "scm": the service manager or the service cannot be opened or queried;  *)
(* "start": the driver does not start; "volume": the temporary directory   *)
(* is on another volume, and MoveFileEx without MOVEFILE_COPY_ALLOWED      *)
(* fails.                                                                  *)
(***************************************************************************)
ASSUME InstallerAssumption ==
  /\ "none" \notin Binaries
  /\ Faults \subseteq {"scm", "start", "volume"}

VARIABLES
  file,     \* what is at driverFullPath
  doomed,   \* driverFullPath is to be deleted at the next reboot
  service,  \* the service XiaomiEcIo: "marked" for deletion while it is in use
  driver,   \* the loaded driver: [state, image], and whether its file is in place
  open,     \* the clients that have the device open
  run,      \* the installer: [pc, op, binary, result]
  said      \* what it ended with last: [op, binary, result, rebooted]

system == <<file, doomed, service, driver, open>>
vars   == <<file, doomed, service, driver, open, run, said>>

May(fault) == {TRUE} \cup (IF fault \in Faults THEN {FALSE} ELSE {})

Unloaded      == [state |-> "stopped", image |-> "none", inPlace |-> FALSE]
Loaded(image) == [state |-> "running", image |-> image, inPlace |-> TRUE]
NothingSaid   == [op |-> "none", binary |-> "none", result |-> "none", rebooted |-> FALSE]
Idle          == [pc |-> "off", op |-> "none", binary |-> "none", result |-> "none"]

\* A file that is mapped as the image of a loaded driver can be renamed, but
\* neither overwritten nor deleted.
InUse == driver.state # "stopped" /\ driver.inPlace

Init ==
  /\ file = "none" /\ doomed = FALSE
  /\ service = "none" /\ driver = Unloaded /\ open = {}
  /\ run = Idle /\ said = NothingSaid
-----------------------------------------------------------------------------
Go(pc) == run' = [run EXCEPT !.pc = pc] /\ UNCHANGED said

Exit(result) ==
  /\ run' = Idle
  /\ said' = [op |-> run.op, binary |-> run.binary, result |-> result, rebooted |-> FALSE]

\* Mutant: result is not initialised.
Command_NoResult ==
  /\ run.pc = "off"
  /\ \/ \E b \in Binaries \cup {"none"} :
          run' = [pc |-> "copy", op |-> "i", binary |-> b, result |-> "none"]
     \/ run' = [pc |-> "exists", op |-> "r", binary |-> "none", result |-> "none"]
  /\ said' = NothingSaid
  /\ UNCHANGED system

\* wmain, as an administrator.  Without an argument the binary is NULL: "none".
Command ==
  /\ run.pc = "off"
  /\ \/ \E b \in Binaries \cup {"none"} :
          run' = [pc |-> "copy", op |-> "i", binary |-> b, result |-> "SUCCESS"]
     \/ run' = [pc |-> "exists", op |-> "r", binary |-> "none", result |-> "SUCCESS"]
  /\ said' = NothingSaid
  /\ UNCHANGED system
-----------------------------------------------------------------------------
(***************************************************************************)
(* /i                                                                      *)
(***************************************************************************)
\* Mutant: CopyFile is told to fail when the file exists.
CopyBinary_FailIfExists ==
  /\ run.pc = "copy"
  /\ IF run.binary = "none" \/ file # "none" THEN Exit("FAILURE") /\ UNCHANGED file
                                             ELSE file' = run.binary /\ Go("create")
  /\ UNCHANGED <<doomed, service, driver, open>>

\* CopyFile overwrites what is there; the list of files to delete is not looked at.
CopyBinary ==
  /\ run.pc = "copy"
  /\ IF run.binary = "none" \/ InUse THEN Exit("FAILURE") /\ UNCHANGED file
                                     ELSE file' = run.binary /\ Go("create")
  /\ UNCHANGED <<doomed, service, driver, open>>

\* Mutant: a service that is there is as good as one that was created.
EcIOServiceInstall_KeepExisting ==
  /\ run.pc = "create"
  /\ \E ok \in May("scm") :
       IF ~ok \/ file = "none" THEN Exit("FAILURE") /\ UNCHANGED service
       ELSE /\ service' = IF service = "none" THEN "installed" ELSE service
            /\ Go("start")
  /\ UNCHANGED <<file, doomed, driver, open>>

\* The file must be there; CreateService fails when the service exists or is marked.
EcIOServiceInstall ==
  /\ run.pc = "create"
  /\ \E ok \in May("scm") :
       IF ~ok \/ file = "none" \/ service # "none" THEN Exit("FAILURE") /\ UNCHANGED service
       ELSE service' = "installed" /\ Go("start")
  /\ UNCHANGED <<file, doomed, driver, open>>

\* A service that is not stopped is left as it is, which counts as success.
EcIOServiceStart ==
  /\ run.pc = "start"
  /\ \E ok \in May("scm"), started \in May("start") :
       IF ~ok \/ service = "none" \/ (driver.state = "stopped" /\ ~started)
       THEN Exit("FAILURE") /\ UNCHANGED driver
       ELSE /\ driver' = IF driver.state = "stopped" THEN Loaded(file) ELSE driver
            /\ Exit("SUCCESS")
  /\ UNCHANGED <<file, doomed, service, open>>
-----------------------------------------------------------------------------
(***************************************************************************)
(* /r                                                                      *)
(***************************************************************************)
\* Mutant: the test is the wrong way round.
EcIOServiceExists_Inverted ==
  /\ run.pc = "exists"
  /\ \E ok \in May("scm") : Go(IF ok /\ service # "none" THEN "delete" ELSE "stop")
  /\ UNCHANGED system

\* A service that cannot be opened, for whatever reason, counts as removed.
EcIOServiceExists ==
  /\ run.pc = "exists"
  /\ \E ok \in May("scm") : Go(IF ok /\ service # "none" THEN "stop" ELSE "delete")
  /\ UNCHANGED system

\* Mutant: the service is deleted without being stopped.
EcIOServiceStop_NotAtAll ==
  /\ run.pc = "stop"
  /\ Go("unregister")
  /\ UNCHANGED system

\* The result is ignored.  A driver whose device is open is stopped later.
EcIOServiceStop ==
  /\ run.pc = "stop"
  /\ \E ok \in May("scm") :
       driver' = IF ~ok \/ service = "none" \/ driver.state # "running" THEN driver
                 ELSE IF open = {} THEN Unloaded
                 ELSE [driver EXCEPT !.state = "stopping"]
  /\ Go("unregister")
  /\ UNCHANGED <<file, doomed, service, open>>

\* A service that is marked already cannot be deleted again: the command fails,
\* and goes on.
EcIOServiceDelete ==
  /\ run.pc = "unregister"
  /\ \E ok \in May("scm") :
       IF ok /\ service = "installed"
       THEN service' = "marked" /\ Go("delete")
       ELSE /\ run' = [run EXCEPT !.pc = "delete", !.result = "FAILURE"]
            /\ UNCHANGED <<service, said>>
  /\ UNCHANGED <<file, doomed, driver, open>>

DeleteDriverFile ==
  /\ run.pc = "delete"
  /\ IF file = "none" \/ InUse THEN Go("move") /\ UNCHANGED file
                               ELSE file' = "none" /\ Exit(run.result)
  /\ UNCHANGED <<doomed, service, driver, open>>

\* What is moved to the temporary directory is deleted there at the next reboot.
MoveDriverFile ==
  /\ run.pc = "move"
  /\ \E ok \in May("volume") :
       IF ok /\ file # "none"
       THEN file' = "none" /\ driver' = [driver EXCEPT !.inPlace = FALSE] /\ Exit(run.result)
       ELSE Go("delay") /\ UNCHANGED <<file, driver>>
  /\ UNCHANGED <<doomed, service, open>>

\* Mutant: the deletion at reboot is not asked for.
DelayDelete_NotAtAll ==
  /\ run.pc = "delay"
  /\ Exit(run.result)
  /\ UNCHANGED system

\* A deletion at reboot can be asked for only of a file that is there.
DelayDelete ==
  /\ run.pc = "delay"
  /\ doomed' = (doomed \/ file # "none")
  /\ Exit(run.result)
  /\ UNCHANGED <<file, service, driver, open>>
-----------------------------------------------------------------------------
(***************************************************************************)
(* The rest of the machine.                                                *)
(***************************************************************************)
OpenDevice(c) ==
  /\ driver.state = "running" /\ c \notin open
  /\ open' = open \cup {c}
  /\ UNCHANGED <<file, doomed, service, driver, run, said>>

\* The last close unloads a driver that was told to stop.
CloseDevice(c) ==
  /\ c \in open
  /\ open' = open \ {c}
  /\ driver' = IF driver.state = "stopping" /\ open' = {} THEN Unloaded ELSE driver
  /\ UNCHANGED <<file, doomed, service, run, said>>

\* The service manager drops a marked service that has stopped.
DropService ==
  /\ service = "marked" /\ driver.state = "stopped"
  /\ service' = "none"
  /\ UNCHANGED <<file, doomed, driver, open, run, said>>

\* The files on the list are deleted before automatic services are started
\* (SERVICE_AUTO_START).  An installer that was running is gone.
Reboot ==
  /\ file' = IF doomed THEN "none" ELSE file
  /\ doomed' = FALSE
  /\ service' = IF service = "marked" THEN "none" ELSE service
  /\ \E started \in May("start") :
       driver' = IF service' = "installed" /\ file' # "none" /\ started
                 THEN Loaded(file') ELSE Unloaded
  /\ open' = {}
  /\ run' = Idle
  /\ said' = [said EXCEPT !.rebooted = TRUE]

Installing == CopyBinary \/ EcIOServiceInstall \/ EcIOServiceStart
Removing ==
  \/ EcIOServiceExists \/ EcIOServiceStop \/ EcIOServiceDelete
  \/ DeleteDriverFile \/ MoveDriverFile \/ DelayDelete

Next ==
  \/ Command \/ Installing \/ Removing
  \/ \E c \in Clients : OpenDevice(c) \/ CloseDevice(c)
  \/ DropService \/ Reboot

Spec == Init /\ [][Next]_vars

(***************************************************************************)
(* A command that runs goes on, a client of the SDK closes the device at   *)
(* the end of every call, and the service manager does its work.  Nobody   *)
(* has to reboot, or to run a command.                                     *)
(***************************************************************************)
FairSpec ==
  /\ Spec /\ WF_vars(Installing \/ Removing) /\ WF_vars(DropService)
  /\ \A c \in Clients : SF_vars(CloseDevice(c))
-----------------------------------------------------------------------------
Files   == Binaries \cup {"none"}
Results == {"none", "SUCCESS", "FAILURE"}
Stages  == {"off", "copy", "create", "start", "exists", "stop", "unregister", "delete",
            "move", "delay"}

LoadedDriver == [state : {"running", "stopping"}, image : Binaries, inPlace : BOOLEAN]
RunState == [pc : Stages, op : {"none", "i", "r"}, binary : Files, result : Results]
Report   == [op : {"none", "i", "r"}, binary : Files, result : Results, rebooted : BOOLEAN]

\* Types; a command that has ended has said how, and a loaded driver is a file
\* that was installed.
TypeOK ==
  /\ file \in Files /\ doomed \in BOOLEAN
  /\ service \in {"none", "installed", "marked"}
  /\ driver \in {Unloaded} \cup LoadedDriver
  /\ open \in SUBSET Clients
  /\ run \in RunState /\ said \in Report
  /\ said.op # "none" => said.result # "none"

\* "Driver installation succeeded!" (line 173): from then on, after any number
\* of reboots, that driver is installed and running, until the next command.
InstalledRuns ==
  said.op = "i" /\ said.result = "SUCCESS" =>
    /\ service = "installed" /\ file = said.binary
    /\ driver.state = "running" /\ driver.image = said.binary

\* "'XiaomiEcIo' removed." (line 226): after a reboot nothing is left, in
\* whatever state of service, file and handles the command met the system.
RemovedIsGone ==
  said.op = "r" /\ said.result = "SUCCESS" /\ said.rebooted =>
    service = "none" /\ file = "none" /\ driver.state = "stopped"

\* A driver that runs for an installed service is the one that will be loaded
\* at the next boot: file and service are never taken away one without the other.
RunningIsOnDisk ==
  service = "installed" /\ driver.state = "running" =>
    file = driver.image /\ driver.inPlace

FailsToInstall == said.op = "none" /\ said'.op = "i" /\ said'.result = "FAILURE"

\* /i with a binary fails only while a service is there, one that an earlier
\* command left or the one that it created itself and could not start: no
\* history of commands leaves a file that blocks it (line 288).
InstallBlockedOnlyByService ==
  [][FailsToInstall /\ said'.binary # "none" => service # "none"]_vars

\* A service that was removed while the device was open goes in the end,
\* without a reboot.
RemovalCompletes == service = "marked" ~> service # "marked"
=============================================================================

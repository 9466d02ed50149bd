# Verification of PhysicalAddressAccess

PhysicalAddressAccess reads the log that the embedded controller (EC) of a
laptop keeps in its flash. An application links `EcIoSdk`; the SDK talks to the
EC through a mailbox in physical memory, which the kernel driver `XiaomiEcIo`
maps for it; `XiaomiEcIoInstaller` installs the driver. This directory holds
TLA+ models of the parts with state and interleavings, TLC configurations that
check them on small instances, and TLAPS proofs.

## Inventory

All paths are under `src/PhysicalAddressAccess/`.

| Component | State | Operations | Status |
|---|---|---|---|
| EC log transfer, `EcIoSdk/eclog.cpp` 20-475 | locals of a call; the mailbox and the page window (shared with the EC) | `GetECLog`, `GetECLogPageCount`, helpers | modelled: `EcLog`, `LogTransfer` |
| Log-ready notifier, `EcIoSdk/eclog.cpp` 478-667, `EventSink.*` | static `pThread`, named event `ECLogEvent`, `m_lRef` of each sink, WMI subscription | `RegisterECLogReadyNotifier`, `ThreadFuncEventMonitor`, `EventSink` methods | modelled: `Notifier` |
| Kernel driver, `XiaomiEcIo/PhysicalAddressAccess.c` | device object, symbolic link, per request its buffer and a view of memory | `DriverEntry`, create/close, two IOCTLs, unload | modelled: `Driver`, `PhysicalMemory` |
| Installer, `XiaomiEcIoInstaller.cpp` | the service, the driver file, files pending deletion at reboot | `/i`, `/r` | modelled: `Installer` |
| Test program, `EcIoSdkTest/main.cpp` | `failcount`, a vector per turn | endless loop of `GetECLog`; callback that calls `GetECLogPageCount` | partly: its calls are `Call` of `EcLog` |
| DLL glue, `LX_Timer` | none | none | not modelled: empty `DllMain`, precompiled headers, a stopwatch |

`SetECIdle` (its calls are commented out, lines 201 and 286),
`ECInformedShouldRead` and `GetDeviceViaInterface` are never called and are not
modelled.

Interaction. An application thread in `GetECLog` and the callback thread of the
notifier in `GetECLogPageCount` (`main.cpp:11`) share the mailbox with each
other, with every other process that uses the SDK, and with the EC. A poll is
one `DeviceIoControl`; a signal (a command with its parameter) is two. The
monitor thread of a process waits on an event that all processes share because
it has a name; WMI calls `EventSink::Indicate` on threads of its own. Each
`DeviceIoControl` is a request to the driver, which maps two pages of physical
memory for it and copies; requests of several threads run side by side. The
installer meets the driver through the service manager, and is kept from its
file and its service by clients that have the device open.

What is hard: interleaving of single mailbox accesses, an answer that arrives
after its poll loop has given up and meets the retry, writes whose result is
ignored, exits in the middle of a transfer, `ALL_DONE` written without waiting
for the answer to `PAGE_DONE`, a stop signal that comes before its thread waits
or is taken back by another process, a sink with several owners, a process that
dies inside a call, copies whose bytes interleave, an unload that has to wait for
handles, a removal that takes effect only when clients close or at a reboot.
`PROJECT.json` lists the hazards with their lines.

What makes each component correct:

- log transfer: pages arrive complete and in order; success means all of them;
  nothing is acknowledged that is not held; every call returns; with a healthy
  EC a call never fails, whatever calls came before;
- notifier: `Register` returns; only the newest callback is subscribed, unless
  cancelling the one before failed; when only one process uses the event, its monitor stops
  only on request; WMI never calls a deleted
  sink, and every sink is deleted in the end;
- driver: an answer of success tells the truth about the bytes moved, the copy
  stays inside the view, every request is completed, an unload ends, names and
  driver come and go together;
- installer: what it reports as installed runs after every reboot, what it
  reports as removed is gone after one, a service is never left without its file;
- test program: its loop has no exit, so every call it makes must return.

## Modules

| Module | What it is |
|---|---|
| `EcLog` | The detailed model of the transfer: any number of clients, the EC as environment |
| `LogTransfer` | What `GetECLog` promises its caller, without mailbox, EC or retries; `EcLog` with one client implements it (`TransferImplemented`) |
| `EcLog_proofs` | TLAPS proofs about `EcLog` with any number of clients |
| `LoneClient_proofs` | `EcLog` with one client: the count, the pages, their order |
| `LogTransfer_proofs` | `EcLog` with one client implements `LogTransfer` |
| `TimelyEc_proofs` | `EcLog` with one client and an EC that answers in time |
| `MCEcLog` | Model values and symmetry for TLC |
| `Notifier` | Register, the monitor thread and the sink, for several processes |
| `Notifier_proofs` | TLAPS proofs about `Notifier` |
| `MCNotifier` | Model values and symmetry for TLC |
| `Driver` | The kernel driver: requests byte by byte, the device and its link, unload |
| `PhysicalMemory` | What the driver promises a thread that reads or writes memory; `Driver` implements it (`AccessImplemented`) |
| `Driver_proofs` | TLAPS proofs about `Driver`, among them the refinement |
| `MCDriver` | The sets of requests for TLC |
| `Installer` | `/i` and `/r`, the service manager, the file, clients, reboots |
| `Installer_proofs` | TLAPS proofs about `Installer` |
| `MCInstaller` | Model values for TLC |

Definitions whose name contains an underscore and follow a comment "Mutant: ..."
are deliberately wrong versions of the definition after them; no specification
uses them. Each property of a passing run fails when one of them is put in.

### EcLog

`cl[c]` holds the local variables of client `c`'s call: `pc` (where it is),
`cnt` (the counter of the current poll loop), `n` (`pageCountRecorded`), `idx`
(`pageIndex`), `retried` (`pageRetryed`), `vec` (`pVecECLog`, a page being its
number and 0 any other data), `out` (the signal being sent), `status`. The two
functions run the same code up to the acknowledgement of the count, so they
share actions; `op` tells them apart (`GetECLogPassive` is `isPassive = true`).

| Stage (`pc`) | Code | Action |
|---|---|---|
| `off` | outside a call, `CreateFile` | `Call` |
| `idle0` | 287-289, 202-203 | `AwaitIdleToCount` |
| `param`, `cmd` | the two writes of any signal | `SendParam`, `SendCmd` |
| `count`, `error` | 300-306, 455-462 | `PollCount`, `CheckError` |
| `counted` | 325-327, 241 | `Decide` |
| `idle1` | 329-331 | `AwaitIdleToRead` |
| `page`, `fetch` | 349-370 | `PollPage`, `FetchPage` |
| `judge` | 372-383 | `JudgePage` |
| `released` | 397-399 | `AfterRelease` |
| `idle2`, `idle3` | 426-437, 413-421 | `AwaitIdleNextPage`, `AwaitIdleAllRead` |

A command word is modelled by its name: the nine words of the protocol are
distinct constants. `ErrorAck` really writes the word of a count request (line
73 overwrites the initialiser of line 70), and so does `Word`.

The EC (`EcTake`, `EcGive...`, `EcGoIdle`, `EcFail`) is external and modelled
from what the SDK expects of it. It takes a command with the parameter that is
there at that moment, works on it while the SDK may write more, and overwrites
the mailbox with its answer. Its page count may be another one each time it is
asked.

`Faults` says what may go wrong: `read` and `write` let any `DeviceIoControl` of
that kind fail; `ec` lets the EC be later than `SLEEPTIME`, answer with the error
code, or forget what it did and go idle. Without `ec`, a client that has slept
finds the EC done (`Slept`). A failed read never looks like an answer: in the
code each check returns false, or looks at a buffer whose command word is the
request it last wrote. Of the retry's last `Sleep` (line 367) nothing is kept:
the model lets the client go on at once, which allows more behaviours.

`exit` lets the process of a client end anywhere inside a call (`Die`), also
between the two writes of a signal. The mailbox keeps what it held, because
`SetECIdle` is commented out (lines 201, 286). `FreshStart` is what the idle
check at the start of a call is worth then: nothing of the dead process is
continued. Nothing promises that the next call succeeds, and it does not until
the EC resets itself.

`EcLog` takes a `DeviceIoControl` for one step. For the driver it is a copy of 4
or 8 bytes (below), so `EcLog` assumes that the EC does not store its answer
between two of them, or stores the command word last.

### Notifier

`reg[p]` is where `Register` is in process `p` and how many callbacks it has
registered; the number of a registration names its callback and its sink.
`pThread[p]` is what the monitor thread does, `none` for a NULL `pThread`.
`SetEvent` wakes at once the threads that wait and leaves the event signaled for
those that come later (manual reset); `ResetEvent` takes it back for both. The
sink's `m_lRef` counts the thread's reference (line 585) and that of the stub,
which lives as long as someone holds it: the thread by `pStubUnk` and
`pStubSink`, WMI by the subscription, COM during a call. `CancelAsyncCall` ends
the subscription, but WMI lets go of the stub in its own time and may deliver
until then. Line 632 stores its result and never looks at it: when it fails, the
thread goes on to its end, the subscription stays (`kept`) and the replaced
callback may be called long after. It ends when the process dies; that
`CoUninitialize` may end it sooner is not relied on. The VARIANT test of `EventSink.cpp:42` is always true (`==` binds
tighter than `|`), so the model has no such test.

`Faults`: `com` lets a checked COM call fail, which ends the thread; `unsecapp`
lets the unchecked `CoCreateInstance` of line 580 fail, which kills the process
(`Crash`); it may be started again (`Restart`). `event` lets `OpenEventW` (line
627) fail: the wait on a NULL handle returns at once, and the thread takes its
subscription back. `cancel` lets `CancelAsyncCall` fail;
the sink then stays as long as its subscription, so `SinkFreed` is stated without
faults.

### Driver

`irp[t]` is the request of thread `t`: where it is (`pc`), what was asked
(`req`), the bytes moved and, for a read, what they were (`moved`, `got`), and
what the I/O manager is told (`status`, `info`). `handles` are the threads that
have the device open. `driver` is the stage of its life; `device` and `link` say
which of its two names exist.

| Code | Action |
|---|---|
| `DispatchDeviceControl` 217-267, with the check of the count 94-96, 166-168 | `DispatchDeviceControl` |
| `ZwOpenSection`, `ZwMapViewOfSection` 111-122, 181-194 | `OpenSection`, `MapView` |
| `memcpy` 126, 198 | `PhysicalAddressRead`, `PhysicalAddressWrite`, a byte a step |
| unmap and close, 269-277 | `CompleteRequest` |
| `DispatchCreate`, `DispatchClose` 280-295 | `DispatchCreate`, `DispatchClose` |
| `DriverEntry` 44-58; 60-67 | `DriverEntry`, `CreateLink` |
| `DriverUnload` 307; 308; 309-313 | `UnloadLink`, `UnloadDevice`, `UnloadNext` |

A byte of memory is the thread that wrote it and the index in its buffer, or the
firmware's. External and taken from how the driver uses them: the memory manager
rounds the section offset of a view down to a page (`ViewBase`; the code adds
the offset in the page again), the I/O manager runs `DriverUnload` only when no
handle is open and lets nobody in meanwhile, `NT_SUCCESS` holds of
`STATUS_ABANDONED` (0x80). A write has an output buffer, as those of the SDK
have: without one `Irp->MdlAddress` is NULL and line 251 fails.

`Faults`: `names` (`IoCreateDevice`, `IoCreateSymbolicLink`), `lock` (the write
buffer cannot be mapped), `map` (no section or view), `pool` (the memory of the
deleted device object is in use again when line 309 reads it, which ends in a
crash; `StopCompletes` admits it).

### Installer

`file` is what is at `driverFullPath`, `doomed` whether it is on the list of
files that are deleted at the next reboot, `service` the service (`marked` for
deletion as long as it is in use), `driver` the loaded driver and whether the
file it was loaded from is still in place, `run` the command that is under way,
`said` how the last one ended and whether the machine was restarted since.

| Code | Action |
|---|---|
| `wmain` 245-277 | `Command` |
| `CopyFile` 288-294 | `CopyBinary` |
| `InstallDriver` 162-165, `CreateService` 115-145 | `EcIOServiceInstall` |
| `EcIOServiceControl(START)` 32-80, 149-156, 173 | `EcIOServiceStart` |
| `EcIOServiceExists` 177-212 | `EcIOServiceExists` |
| `EcIOServiceControl(STOP)` 81-94, 213 | `EcIOServiceStop` |
| `EcIOServiceControl(DELETE)` 53-66, 214-227 | `EcIOServiceDelete` |
| `DeleteFile`, `MoveFileEx`, 310, 323, 329 | `DeleteDriverFile`, `MoveDriverFile`, `DelayDelete` |

External: a file that is mapped as an image can be renamed, but not overwritten
or deleted; a driver is stopped when its last client closes; a marked service
goes when it has stopped, or at the reboot; pending deletions come before
automatic services are started (line 125), and can be asked for only of a file
that exists. The temporary directory is no more than where a moved file goes.
One installer runs at a time, and as an administrator.

`Faults`: `scm` (the service manager or the service cannot be opened or queried),
`start` (the driver does not start), `volume` (the temporary directory is on
another volume; line 323 does not pass `MOVEFILE_COPY_ALLOWED`).

## Runs

| Run | Instance | Shows |
|---|---|---|
| `lone_client` | one client, counts 0 1 3 4 16 17 255, faults `ec`, `read`, `exit`, fairness of the client only | pages in order (`PagesInOrder`), the window holds the page waited for (`PageInWindow`), the EC serves the right request (`RequestsMatch`), a call starts on an idle EC (`FreshStart`), the count is the EC's (`CountIsRecorded`, of `GetECLogPageCount`), `LogTransfer` is implemented, every call returns (`CallReturns`) although the EC owes no answer |
| `timely_ec` | one client, counts 0 1 3 4 5 16 17, no faults, fair EC | no call fails after any sequence of calls (`TimelyNeverFails`), success means that the EC was told (`SuccessMeansTold`), the mailbox becomes idle again and again (`MailboxSettles`) |
| `two_clients` | two clients, count 2, faults `ec`, `read` | `TypeOK`, `SuccessHasEveryPage`, `ReleasedPageHeld` in spite of the mutual overwriting |
| `one_process` | one process, three registrations, no faults, fairness | `RegisterReturns`, `StopIsSeen` (the signal to stop is not lost), `StopsOnlyWhenAsked`, `SinkFreed` |
| `driver` | two threads, six kinds of request (across a page, longer than the page or the buffer, of 0 bytes, of an unknown code, half a request), all faults, fairness of the kernel | `AccessImplemented` while the bytes of two requests and the firmware's interleave; `TypeOK`, `CopyInsideView`, `TrueMeansMoved`, `NamesFollowDriver`; `RequestCompletes`, `StopCompletes` |
| `install` | two binaries, two clients, fault `scm` | `TypeOK`, `InstalledRuns`: a reported installation lasts |
| `remove` | two binaries, two clients, faults `volume`, `start`, fairness | `RemovedIsGone`, `RunningIsOnDisk`, `RemovalCompletes`, `InstallBlockedOnlyByService` |
| `two_processes` | two processes, two registrations each, all faults, also a failing `CancelAsyncCall` and an event that cannot be opened | `TypeOK`, `OnlyNewestSubscribed`, `SinkOutlivesCalls` |

Four more runs find a statement of the repository violated by the code
(`findings` in `PROJECT.json`):

- `lost_page_command`: with a failed write the SDK stores the page of an earlier
  request (`eclog.cpp:352` says the window holds the page asked for). Two writes
  must fail, and neither alone does harm: the parameter write (341) of the first
  request, so that the EC serves the page whose number the mailbox still holds
  (after a count of 4, page 4), which the poll loop rejects; and the command write
  (345) of the retry, so that the right number stands next to the old
  `PAGE_READY`, which then reads as the answer. With one failure the retry's
  command overwrites `PAGE_READY` and the right page comes.
- `count_race`: two callers without any fault, `GetECLogPageCount` of one returns
  the other's parameter as the page count (`main.cpp:12`).
- `install_lost`: an installation that succeeded is deleted by the next reboot
  (`XiaomiEcIoInstaller.cpp:173`): an earlier `/r` put its path on the list of
  files to delete, and `/i` does not take it off.
- `close_lost`: `Register(NULL)` of one process never returns because another
  process resets the shared event (`eclog.cpp:649`).

The fault `write` is on in `lost_page_command` only, because half a signal breaks
what `lone_client` says of the window; the theorems of `EcLog_proofs` and `CountIsRight`
hold with it, those that assume `Reliable` exclude it.

Further differences between what the code does and what is written beside it, seen
while modelling and left without a run: `GetECLog` answers `EC_SUCCESS` when the
write of `ALL_DONE` failed (line 411, against the comment at 400); a failed
`GetECLog` may leave pages in the vector (lines 413-436, against
`main.cpp:48`, "no need to free"); `/r` reports a service as removed that it could
not open (`XiaomiEcIoInstaller.cpp:210`), which is why `RemovedIsGone` is stated
without `scm`; `/i` as the usage text shows it (line 233), without a file name,
always fails; the test program goes on after five failures (`main.cpp:26`).

### Bounds

`MAX_CHECK_COUNT` is 2 in all runs: a loop can turn, and can run out; its real
value only adds turns that do the same. `Counts` holds both sides of every
comparison the code makes with the count (0/1, 3/4, 16/17) and the largest byte.
One log of 16 pages goes through the page loop 16 times. Two clients run with
two pages, the smallest log with a page that is not the last. Two or three
registrations are enough for an old sink that is still being called while a
newer one exists and is replaced in turn; the processes of `close_lost` need
one each. The driver runs with a page of 2 bytes and 4 bytes of memory: there a
request lies inside a page, crosses one, starts at either offset, is as long as
the page or longer; requests of two threads overlap. Two binaries tell an old
file from a new one, two clients let the last close come after the first.
Nothing
is bounded in the proofs.

### Fairness

`FairSpec` of `EcLog` assumes that a thread inside a call keeps running (weak
fairness of `Run`): the code never blocks except in `Sleep` and
`DeviceIoControl`, which return. It assumes nothing of the application's next
call, and nothing of the EC; `FairECSpec` adds that the EC answers, for
`timely_ec` only. `FairSpec` of `Notifier` assumes that threads run, that WMI
lets go of a cancelled subscription, that the callback returns and that the
array of objects of an event ends. It does not assume that events come.
`FairSpec` of `Driver` assumes that the kernel goes on with a request and with an
unload, and that a thread closes the device again and again when it can (strong
fairness, because it may ask between): `eclog.cpp` closes it at the end of every
call (262, 470), which is also why `RemovalCompletes` may assume it of the
clients of `Installer`. Commands, reboots and stops are never forced.

Deadlock is checked in every run.

## Proofs

`EcLog_proofs` proves, for every set of clients, every set of byte counts, every
`MAX_CHECK_COUNT > 0` and every set of faults:

- `TypeCorrect`: `Spec => []TypeOK`;
- `SuccessComplete`: `Spec => []SuccessHasEveryPage`;
- `ReleaseSafe`: `Spec => []ReleasedPageHeld`.

None of the three is inductive. `LocalInv` is: it says of each client, stage by
stage, how many pages its vector holds (`Len(vec) = idx - 1` while a page is
awaited, `idx` once it is judged, `n` when all is read) and that
`idx <= n <= 16` inside the page loop, which is what keeps `idx + 1` in range in
`NextPage` and makes `Len(vec) = n` at the success exit. It mentions no other
client and says of the mailbox only its type: that is why it survives any
interleaving. The proof has a lemma per helper (`SendGood`, `JudgedGood`, ...),
one per action, and one for the step of one client (`Stepped`).

It also proves `CallsAreBounded`: `Spec => [][CallShrinks]_vars`. `Left` is a
number made of the stage a call has reached (`Stage`: stage by stage, page by page
and, for a page, before and after its one retry) and of the turns that its poll
loop has left (`Turns`). Every step of a call lowers it, whatever the EC, the
faults and the other clients do, and only `Call` and `Die` set it anew. That is the
safety half of `CallReturns`; the other half, that a thread inside a call can
always take a step, stays with TLC.

### One client

The next results are about `EcLog` with at most one client (`Alone`). All but
`CountIsRight` also assume that no write fails (`Reliable`). The hypotheses are
needed: TLC finds a counterexample without either, two of which are the runs
`count_race` and `lost_page_command`. Reads may fail, the process may die and the
EC may be late, fail or reset itself, unless it says otherwise.

`LoneClient_proofs`:

- `CountIsRight`: `Spec => []CountIsRecorded`;
- `LogInOrder`, `RequestsAgree`, `WindowHoldsPage`: `[]PagesInOrder`,
  `[]RequestsMatch`, `[]PageInWindow`;
- `SuccessIsTheLog`: with status `EC_SUCCESS` the vector is `[i \in 1..recorded |-> i]`.

`EcLog_proofs` has `StartsFresh`: `Spec => []FreshStart`, also with failing writes.
Beside `FreshStart` itself it needs only `IdleInv`: an EC whose mailbox says idle
has no job.

The properties above speak of single moments; the invariant `LoneInv` says how mailbox,
job and window keep in step with the client between them. `CountOK`: while a call
has a count, neither the mailbox nor the EC's job holds a count request, so
the EC cannot record another. `PageOK`: from when a client is about to ask for page
`idx` until it has judged the answer, the job is that request or none, the
parameter is `idx`, except before the first write while the mailbox is idle, and a
`PAGE_READY` means that the window is `idx`. This covers the hard case, an answer that arrives after its loop has given up and meets the retry:
it is an answer about the same page. `JobInv`: an idle mailbox means an idle EC. The
step that starts a call needs `FreshStart`, the step that serves a page needs
`idx <= n` from `LocalInv`.

`LogTransfer_proofs`:

- `TransferRefined`: `Spec => TransferImplemented`, for one client.

Four kinds of step are progress in `LogTransfer`: a count (`Learn`; it is in `Counts`
by `CountOK`), a page (`Take`; it is page `Len(vec) + 1` by `PageOK`), a refusal
(`Decline`) and the success (`Succeed`). Beginning a call, dying in one and giving up a
page that cannot be had map to steps of their own; of every other step `KeptSeen`
says that it is a stutter when the call goes on and `GiveUp` when it ends.

`TimelyEc_proofs`:

- `SuccessTold`: `[]SuccessMeansTold`, without the fault `ec`;
- `NeverFails`: `[]TimelyNeverFails`, without any fault and with
  `MAX_CHECK_COUNT >= 2` (the code has 10).

`SuccessTold` needs `EndInv`: `ALL_DONE` is written into a mailbox that the EC has
dealt with (the two Sleeps before it), so that a mailbox that is idle again means
that `ALL_DONE` was taken. A late EC breaks it: it may go idle on the `PAGE_DONE`
before. `NeverFails` needs `TimelyInv`: what the mailbox holds at every stage
of a call (`MailboxOK`), and that nothing but an acknowledgement is left in it
between two calls, which is why a call does not trip over the one before. A poll
loop runs out only with `cnt > 0`, that is after a Sleep, and then the answer is
there. With a failed read, a dead process or `MAX_CHECK_COUNT = 1` TLC finds calls
that fail.

### The other components

`Notifier_proofs` proves, for every number of processes and registrations and
every set of faults:

- `TypeCorrect`: `Spec => []TypeOK`, so that `m_lRef` stays between 0 and 2;
- `OnlyNewest`: `Spec => []OnlyNewestSubscribed`, which excepts a callback whose
  own `CancelAsyncCall` has failed; `NoneLeft`: without the fault `cancel` there is
  no exception;
- `CallsSafe`: `Spec => []SinkOutlivesCalls`;
- `StopsWhenAsked`: `Spec => []StopsOnlyWhenAsked`, when there is one process, COM
  does not fail and the event can be opened. With two processes it is false: that is what sharing the
  event means;
- `StopSeen`: `Spec => []StopIsSeen`, the safety half of `RegisterReturns`, when
  there is one process, whatever fails. With two processes it is false:
  `close_lost` shows how the other one takes the signal back.

The invariant of the first three is `RefInv`. Its core is `SinkOK(s, t)`, the
account of one sink whose thread is at `t`: `m_lRef` is one for the stub plus one
while the thread has its reference; whoever holds the stub keeps it there; the
thread holds it to its last step and a call in progress to its end. It is stated
of a sink and its own thread only, so that a step of WMI (`SinkStep`), of a
thread (`MonitorStep`) or of `Register` (`RegStep`) needs to be looked at for one
sink. `StopOK`, the invariant of the fourth, says that the event is signaled
under a thread that has yet to see it only while `Register` is in its join;
`SeenOK`, of the fifth, that the thread `Register` is about to stop is there, and
that during the join the event is signaled until the thread has passed its wait.

`Driver_proofs` proves, for every page size, memory, set of threads, requests and
faults:

- `TypeCorrect`: `Spec => []TypeOK`;
- `CopySafe`: `Spec => []CopyInsideView`;
- `TrueIsTrue`: `Spec => []TrueMeansMoved`, for every request, also those that are
  answered TRUE with nothing moved (`STATUS_ABANDONED`) or with less than was asked for;
- `NamesOrdered`: `Spec => []NamesFollowDriver`;
- `Implementation`: `Spec => AccessImplemented`, that is `Spec` implements
  `PhysicalMemory`;
- `RequestsAreBounded`: `Spec => [][RequestShrinks]_vars`, the safety half of
  `RequestCompletes`: each step of a request lowers `Left`, the steps it has left.

The invariant is `IrpOK` of every request: before the copy nothing has moved; in
the copy the count is between 1 and a page and at most that many bytes have moved,
so that offset plus count stays below two pages; after it either all of them have
and `info` says so, or none. Each step of a request maps to one step of
`PhysicalMemory` (a byte, the end, a refusal) or to a stutter, and the byte that
is touched is the one asked for because base plus offset is the address again.
`NamesInv` ties the names to the stage of the driver.

`Installer_proofs` proves, for every set of binaries and clients:

- `TypeCorrect`: `Spec => []TypeOK`;
- `InstallLasts`: `[]InstalledRuns` without the faults `volume` and `start`;
- `RemoveIsComplete`, `ServiceKeepsFile`: `[]RemovedIsGone`, `[]RunningIsOnDisk`
  without `scm`;
- `OnlyServiceBlocks`: `InstallBlockedOnlyByService` without `scm`; the service may
  also be the one that the command created itself and could not start.

The excluded faults are those with which TLC finds the property violated.
`SystemInv` says that a running driver has a service and the file it came from;
`InstallInv` that nothing is ever on the list of files to delete; `RemoveInv` that
a command is past the service before it touches the file, and that a file that was
moved from under a running driver has a marked service.

The only assumptions are `EcLogAssumption`, `NotifierAssumption`,
`DriverAssumption` and `InstallerAssumption`, which the runs evaluate. The
invariants were checked by TLC before they were proved.

Model-checked only. Liveness (`CallReturns`, `MailboxSettles`,
`RegisterReturns`, `SinkFreed`, `RequestCompletes`, `StopCompletes`,
`RemovalCompletes`) is out of the prover's reach. Every safety
property and both refinements that the passing runs check are proved.

## Not modelled

The contents of the log and the current block, page and index bytes next to the
count: the SDK does not look at them. The time a `Sleep` takes, beyond `Slept`.
Two threads of one process inside `Register` at once: `pThread` is unprotected
and the behaviour undefined. A callback that itself calls `Register`. The
VARIANT of an event beyond whether it announces a log.
The test program's failure counter, which nothing reads, and its output.
What the driver does when it is given no output buffer for a write, and the INF
file. A `CreateEventW` that fails: the event exists. Two installers at once, and the temporary directory. The order in which the
EC stores the bytes of an answer.

## Plan

Done: every component that carries the program's logic is modelled, and every
safety property that a run checks is proved. Left:

1. An `EcLog` whose mailbox accesses are those of `PhysicalMemory`, byte by byte,
   against an EC that stores parameter and command in either order.
2. Proofs about it, and measures like `Left` for `Register` and for a removal.

------------------------------- MODULE EcLog -------------------------------
(***************************************************************************)
(* The log transfer of EcIoSdk/eclog.cpp: threads of an application that   *)
(* are inside GetECLog or GetECLogPageCount, and the embedded controller   *)
(* (EC) they talk to.  They share an 8-byte mailbox at 0xFE0B0AB8, whose   *)
(* low word is a command and whose high word is its parameter, and the     *)
(* 256-byte page window at 0xFE0B0E00.  Every DeviceIoControl call is a    *)
(* step of its own: nothing in the SDK or in the driver makes a pair of    *)
(* calls atomic, or keeps two clients apart.                               *)
(*                                                                         *)
(* The EC is not part of the repository.  It is modelled from what the SDK *)
(* expects of it: it takes a command out of the mailbox, works on it, and  *)
(* overwrites the mailbox with its answer.                                 *)
(***************************************************************************)
EXTENDS Integers, Sequences

CONSTANTS
  Clients,          \* threads that call the SDK
  Counts,           \* the values PageCount_recorded may take (a UCHAR)
  MAX_CHECK_COUNT,  \* polls of one wait loop
  Faults            \* what may go wrong: "ec", "read", "write", "exit"

(***************************************************************************)
(* "read" and "write": DeviceIoControl may fail (the driver maps physical  *)
(* memory on every call).  "ec": the EC may answer later than SLEEPTIME,   *)
(* answer with the error code, or reset itself.  "exit": the process of a  *)
(* client may end in the middle of a call.                                 *)
(***************************************************************************)
ASSUME EcLogAssumption ==
  /\ Counts \subseteq 0..255
  /\ MAX_CHECK_COUNT \in Nat \ {0}
  /\ Faults \subseteq {"ec", "read", "write", "exit"}

VARIABLES
  mbox,      \* the mailbox: [cmd, param]
  window,    \* the page the window holds, 0 for none
  job,       \* the command the EC is working on
  recorded,  \* the pages the EC has recorded
  told,      \* the EC was told, since it last gave a count, that all is read
  cl         \* per client: the local variables of its current or last call

ec     == <<window, job, recorded, told>>
shared == <<mbox, ec>>
vars   == <<mbox, window, job, recorded, told, cl>>

(***************************************************************************)
(* The commands of the protocol.  IDLE is 0x00000000, the others end in    *)
(* 0x52: COUNT_* are 0x0n010152, PAGE_* are 0x0n020252 (n = 1 request,     *)
(* 2 ready, 3 done), ALL_DONE is 0x010f0f52 and ERROR is 0x011f1f52.       *)
(***************************************************************************)
HostCommands == {"COUNT_REQ", "COUNT_DONE", "PAGE_REQ", "PAGE_DONE", "ALL_DONE"}
Commands     == HostCommands \cup {"IDLE", "COUNT_READY", "PAGE_READY", "ERROR"}

Signals == HostCommands \cup {"ERROR_ACK"}

Ops == {"GetECLog", "GetECLogPassive", "GetECLogPageCount"}
EC_LOG_STATE ==
  {"EC_SUCCESS", "EC_FAILED", "EC_NEED_NOT_READ", "EC_CREATE_FILE_FAILED"}
PCs == {"off", "idle0", "param", "cmd", "count", "error", "counted", "idle1",
        "page", "fetch", "judge", "released", "idle2", "idle3"}
-----------------------------------------------------------------------------
(***************************************************************************)
(* The local variables of a call, and what each stage does to them.        *)
(***************************************************************************)
Entered(op) ==
  [op |-> op, pc |-> "idle0", cnt |-> 0, n |-> -1, idx |-> 1, retried |-> FALSE,
   vec |-> <<>>, status |-> "EC_FAILED", out |-> "COUNT_REQ"]

Send(r, signal)      == [r EXCEPT !.pc = "param", !.out = signal]
Leave(r)             == [r EXCEPT !.pc = "off"]
LeaveWith(r, status) == [r EXCEPT !.pc = "off", !.status = status]

\* Mutant: the loop condition is counter <= MAX_CHECK_COUNT.
Again_OneMore(r, last) ==
  IF r.cnt + 1 <= MAX_CHECK_COUNT THEN [r EXCEPT !.cnt = @ + 1] ELSE last

\* The next turn of a poll loop, or `last' when the loop has run out.
Again(r, last) ==
  IF r.cnt + 1 < MAX_CHECK_COUNT THEN [r EXCEPT !.cnt = @ + 1] ELSE last

\* Mutant: buf[4] is not set to the page and still holds the count.
Arg_StaleByte(r) == IF r.out \in {"COUNT_REQ", "ERROR_ACK"} THEN 255 ELSE r.n

\* The parameter of a signal: buf[4] when it is sent.
Arg(r) == IF r.out \in {"COUNT_REQ", "ERROR_ACK"} THEN 255
          ELSE IF r.out = "COUNT_DONE" THEN r.n ELSE r.idx

\* The command word of a signal.  ErrorAck writes 0x01010152 over the
\* acknowledgement its buffer was initialised with: it asks for the count.
Word(signal) == IF signal = "ERROR_ACK" THEN "COUNT_REQ" ELSE signal

\* Where the call goes on when a signal has been sent.
Then(signal) ==
  CASE signal = "COUNT_REQ"  -> "count"
    [] signal = "COUNT_DONE" -> "counted"
    [] signal = "PAGE_REQ"   -> "page"
    [] signal = "PAGE_DONE"  -> "released"
    [] signal = "ALL_DONE"   -> "idle3"
    [] signal = "ERROR_ACK"  -> "off"

\* Mutant: the count is used without acknowledging it to the EC.
Counted_NoAck(r, n) == [r EXCEPT !.n = n, !.pc = "counted"]

Counted(r, n) == Send([r EXCEPT !.n = n], "COUNT_DONE")

NeedNotRead(r) ==
  \/ r.op = "GetECLog" /\ r.n < 4
  \/ r.op = "GetECLogPassive" /\ r.n < 1
  \/ r.n > 16

\* The count is acknowledged.  GetECLogPageCount returns it.
Decided(r) ==
  IF r.op = "GetECLogPageCount" THEN Leave(r)
  ELSE IF NeedNotRead(r) THEN LeaveWith(r, "EC_NEED_NOT_READ")
  ELSE [r EXCEPT !.pc = "idle1"]

\* Mutant: the page is pushed although the read of the window failed.
Fetched_KeepsStaleBuffer(r, ok, page) ==
  [r EXCEPT !.pc = "judge", !.vec = Append(@, IF ok THEN page ELSE 0)]

Fetched(r, ok, page) ==
  [r EXCEPT !.pc = "judge", !.vec = IF ok THEN Append(@, page) ELSE @]

\* Mutant: the size check is off by one and passes a page that is not there.
Judged_OffByOne(r) ==
  IF Len(r.vec) >= r.idx - 1 THEN Send(r, "PAGE_DONE")
  ELSE LeaveWith([r EXCEPT !.vec = <<>>], "EC_FAILED")

\* Mutant: pageRetryed is never set.
Judged_EndlessRetry(r) ==
  IF Len(r.vec) >= r.idx THEN Send(r, "PAGE_DONE") ELSE Send(r, "PAGE_REQ")

\* pVecECLog.size() < pageIndex: retry the page once, then give everything up.
Judged(r) ==
  IF Len(r.vec) >= r.idx THEN Send(r, "PAGE_DONE")
  ELSE IF ~r.retried THEN Send([r EXCEPT !.retried = TRUE], "PAGE_REQ")
  ELSE LeaveWith([r EXCEPT !.vec = <<>>], "EC_FAILED")

\* Mutant: the transfer ends without telling the EC.
Released_NoAllDone(r) ==
  IF r.idx = r.n THEN [r EXCEPT !.pc = "idle3"] ELSE [r EXCEPT !.pc = "idle2"]

\* Mutant: the last page is taken for read one page early.
Released_OneShort(r) ==
  IF r.idx >= r.n - 1 THEN Send(r, "ALL_DONE") ELSE [r EXCEPT !.pc = "idle2"]

\* A page is released: after the last one the EC is told that all is read.
Released(r) ==
  IF r.idx = r.n THEN Send(r, "ALL_DONE") ELSE [r EXCEPT !.pc = "idle2"]

NextPage(r) == Send([r EXCEPT !.idx = @ + 1, !.retried = FALSE], "PAGE_REQ")
-----------------------------------------------------------------------------
\* What a predicate on the memory just read may evaluate to: every check of
\* the SDK answers FALSE when its DeviceIoControl fails.
Reads(P) == {P} \cup (IF "read" \in Faults THEN {FALSE} ELSE {})
Writes   == {TRUE} \cup (IF "write" \in Faults THEN {FALSE} ELSE {})

\* Mutant: an EC that has answered, and waits for the acknowledgement, is idle.
IsECIdle_Answered == Reads(mbox.cmd \notin HostCommands)

IsECIdle     == Reads(mbox.cmd = "IDLE")
IsErrorOccur == Reads(mbox.cmd = "ERROR")

\* Mutant: any command but the request is taken for the answer.
IsCountReady_AnyAnswer == Reads(mbox.cmd # "COUNT_REQ")

IsCountReady == Reads(mbox.cmd = "COUNT_READY")

\* Mutant: only the page number is looked at.
IsLogPageReady_NumberOnly(page) == Reads(mbox.param = page)

IsLogPageReady(page) == Reads(mbox.cmd = "PAGE_READY" /\ mbox.param = page)

NoJob == [cmd |-> "IDLE", arg |-> 0]

\* The end of a Sleep(SLEEPTIME): a timely EC has answered by then.
Slept == "ec" \in Faults \/ (job = NoJob /\ mbox.cmd \notin HostCommands)

Step(c, r) == cl' = [cl EXCEPT ![c] = r]

Init ==
  /\ mbox = [cmd |-> "IDLE", param |-> 0]
  /\ window = 0
  /\ job = NoJob
  /\ recorded \in Counts
  /\ told = FALSE
  /\ cl = [c \in Clients |-> Leave(Entered("none"))]

\* The application calls the SDK with an empty vector; CreateFile may fail.
Call(c) ==
  /\ cl[c].pc = "off"
  /\ \E op \in Ops :
       \/ Step(c, Entered(op))
       \/ Step(c, LeaveWith(Entered(op), "EC_CREATE_FILE_FAILED"))
  /\ UNCHANGED shared

\* The process ends inside a call, also between the two writes of a signal.  The
\* mailbox stays as it is: nobody makes the EC idle again (SetECIdle is commented
\* out).  The next call is that of a new process.
Die(c) ==
  /\ "exit" \in Faults
  /\ cl[c].pc # "off"
  /\ Step(c, Leave(Entered("none")))
  /\ UNCHANGED shared

\* A loop of at most MAX_CHECK_COUNT IsECIdle checks with a Sleep after each
\* one that fails; when it runs out the call ends with its status unchanged.
AwaitIdle(c, pc, found) ==
  /\ cl[c].pc = pc
  /\ cl[c].cnt > 0 => Slept
  /\ \E idle \in IsECIdle :
       Step(c, IF idle THEN found ELSE Again(cl[c], Leave(cl[c])))
  /\ UNCHANGED shared

AwaitIdleToCount(c)  == AwaitIdle(c, "idle0", Send(cl[c], "COUNT_REQ"))
AwaitIdleToRead(c)   == AwaitIdle(c, "idle1", Send(cl[c], "PAGE_REQ"))
AwaitIdleNextPage(c) == AwaitIdle(c, "idle2", NextPage(cl[c]))
AwaitIdleAllRead(c)  == AwaitIdle(c, "idle3", LeaveWith(cl[c], "EC_SUCCESS"))

\* A signal takes two DeviceIoControl calls, the parameter word first, and
\* both results are ignored.
SendParam(c) ==
  /\ cl[c].pc = "param"
  /\ \E ok \in Writes : mbox' = IF ok THEN [mbox EXCEPT !.param = Arg(cl[c])] ELSE mbox
  /\ Step(c, [cl[c] EXCEPT !.pc = "cmd"])
  /\ UNCHANGED ec

SendCmd(c) ==
  /\ cl[c].pc = "cmd"
  /\ \E ok \in Writes : mbox' = IF ok THEN [mbox EXCEPT !.cmd = Word(cl[c].out)] ELSE mbox
  /\ Step(c, [cl[c] EXCEPT !.pc = Then(cl[c].out), !.cnt = 0])
  /\ UNCHANGED ec

PollCount(c) ==
  /\ cl[c].pc = "count"
  /\ cl[c].cnt > 0 => Slept
  /\ \E ready \in IsCountReady :
       Step(c, IF ready THEN Counted(cl[c], mbox.param)
                        ELSE [cl[c] EXCEPT !.pc = "error"])
  /\ UNCHANGED shared

\* A second read, after the one that did not find the count.
CheckError(c) ==
  /\ cl[c].pc = "error"
  /\ \E error \in IsErrorOccur :
       Step(c, IF error THEN Send(cl[c], "ERROR_ACK")
               ELSE Again([cl[c] EXCEPT !.pc = "count"], Leave(cl[c])))
  /\ UNCHANGED shared

Decide(c) ==
  /\ cl[c].pc = "counted"
  /\ Step(c, Decided(cl[c]))
  /\ UNCHANGED shared

PollPage(c) ==
  /\ cl[c].pc = "page"
  /\ cl[c].cnt > 0 => Slept
  /\ \E ready \in IsLogPageReady(cl[c].idx) :
       Step(c, IF ready THEN [cl[c] EXCEPT !.pc = "fetch"]
               ELSE Again(cl[c], [cl[c] EXCEPT !.pc = "judge"]))
  /\ UNCHANGED shared

FetchPage(c) ==
  /\ cl[c].pc = "fetch"
  /\ \E ok \in Reads(TRUE) : Step(c, Fetched(cl[c], ok, window))
  /\ UNCHANGED shared

JudgePage(c) ==
  /\ cl[c].pc = "judge"
  /\ Step(c, Judged(cl[c]))
  /\ UNCHANGED shared

\* The Sleep after a release, or the two Sleeps after the last one, whose
\* answer is not awaited: ALL_DONE is written on top of PAGE_DONE.
AfterRelease(c) ==
  /\ cl[c].pc = "released"
  /\ Slept
  /\ Step(c, Released(cl[c]))
  /\ UNCHANGED shared

Run(c) ==
  \/ AwaitIdleToCount(c) \/ AwaitIdleToRead(c)
  \/ AwaitIdleNextPage(c) \/ AwaitIdleAllRead(c)
  \/ SendParam(c) \/ SendCmd(c)
  \/ PollCount(c) \/ CheckError(c) \/ Decide(c)
  \/ PollPage(c) \/ FetchPage(c) \/ JudgePage(c) \/ AfterRelease(c)
-----------------------------------------------------------------------------
\* The EC finds a command in the mailbox and starts on it.
EcTake ==
  /\ job = NoJob
  /\ mbox.cmd \in HostCommands
  /\ job' = [cmd |-> mbox.cmd, arg |-> mbox.param]
  /\ UNCHANGED <<mbox, window, recorded, told, cl>>

\* It answers a count request with the pages recorded by now.
EcGiveCount ==
  /\ job.cmd = "COUNT_REQ"
  /\ recorded' \in Counts
  /\ mbox' = [cmd |-> "COUNT_READY", param |-> recorded']
  /\ told' = FALSE
  /\ job' = NoJob
  /\ UNCHANGED <<window, cl>>

\* It puts the page asked for into the window and echoes its number.
EcGivePage ==
  /\ job.cmd = "PAGE_REQ"
  /\ window' = IF job.arg \in 1..recorded THEN job.arg ELSE 0
  /\ mbox' = [cmd |-> "PAGE_READY", param |-> job.arg]
  /\ job' = NoJob
  /\ UNCHANGED <<recorded, told, cl>>

\* It answers each acknowledgement by going idle.
EcGoIdle ==
  /\ job.cmd \in {"COUNT_DONE", "PAGE_DONE", "ALL_DONE"}
  /\ mbox' = [mbox EXCEPT !.cmd = "IDLE"]
  /\ told' = (told \/ job.cmd = "ALL_DONE")
  /\ job' = NoJob
  /\ UNCHANGED <<window, recorded, cl>>

\* It answers with the error code, or forgets everything and goes idle.
EcFail ==
  /\ "ec" \in Faults
  /\ \/ job # NoJob /\ mbox' = [mbox EXCEPT !.cmd = "ERROR"]
     \/ mbox.cmd # "IDLE" /\ mbox' = [mbox EXCEPT !.cmd = "IDLE"]
  /\ job' = NoJob
  /\ UNCHANGED <<window, recorded, told, cl>>

EcAnswer == EcTake \/ EcGiveCount \/ EcGivePage \/ EcGoIdle
-----------------------------------------------------------------------------
Next == (\E c \in Clients : Call(c) \/ Run(c) \/ Die(c)) \/ EcAnswer \/ EcFail

Spec == Init /\ [][Next]_vars

(***************************************************************************)
(* A thread inside a call keeps running.  Whether it calls again is the    *)
(* application's choice, and a faulty EC owes no answer; only FairECSpec   *)
(* assumes that the EC keeps working.                                      *)
(***************************************************************************)
FairSpec   == Spec /\ \A c \in Clients : WF_vars(Run(c))
FairECSpec == FairSpec /\ WF_vars(EcAnswer)
-----------------------------------------------------------------------------
ClientState ==
  [op : Ops \cup {"none"}, pc : PCs, cnt : 0..MAX_CHECK_COUNT-1, n : -1..255, idx : 1..16,
   retried : BOOLEAN, vec : Seq(Nat), status : EC_LOG_STATE, out : Signals]

\* The variables keep their types: no poll counter passes MAX_CHECK_COUNT and
\* no page index passes 16, the 4k that one GetECLog reads at most.
TypeOK ==
  /\ mbox \in [cmd : Commands, param : 0..255]
  /\ window \in Nat
  /\ job \in [cmd : HostCommands \cup {"IDLE"}, arg : 0..255]
  /\ recorded \in 0..255
  /\ told \in BOOLEAN
  /\ cl \in [Clients -> ClientState]

\* GetECLog answers EC_SUCCESS only with as many pages as it was told there
\* are, whatever fails on the way and whoever else uses the mailbox.
SuccessHasEveryPage ==
  \A c \in Clients : cl[c].status = "EC_SUCCESS" =>
    cl[c].n \in 1..16 /\ Len(cl[c].vec) = cl[c].n

\* The EC is told that page idx was read only by a client that holds exactly
\* the pages up to idx, and that all were read only by one that holds all.
ReleasedPageHeld ==
  \A c \in Clients : cl[c].pc \in {"param", "cmd", "released", "idle3"} =>
    /\ cl[c].out = "PAGE_DONE" => Len(cl[c].vec) = cl[c].idx
    /\ cl[c].out = "ALL_DONE"  => Len(cl[c].vec) = cl[c].n

\* The pages a lone client has collected are pages 1, 2, 3, ... of the log.
PagesInOrder ==
  \A c \in Clients : \A i \in 1..Len(cl[c].vec) : cl[c].vec[i] = i

\* The EC never serves a lone client another page than the one it waits for:
\* the parameter is in place before the command that makes the EC read it.
RequestsMatch ==
  \A c \in Clients :
    cl[c].pc \in {"page", "fetch"} /\ job.cmd = "PAGE_REQ" => job.arg = cl[c].idx

\* A call of a lone client starts on an EC that has nothing in hand: what an
\* earlier call gave up, or a process that died, has left there is neither
\* continued nor overwritten (the check at lines 203 and 289).
FreshStart ==
  \A c \in Clients : cl[c].pc \in {"param", "cmd"} /\ cl[c].out = "COUNT_REQ" =>
    mbox.cmd = "IDLE" /\ job = NoJob

\* When the mailbox says that page idx is ready, the window holds page idx
\* (eclog.cpp:352: "now the APP can read the log data at 0xFE0B0E00").
PageInWindow ==
  \A c \in Clients : cl[c].pc = "fetch" => window = cl[c].idx

\* The page count that GetECLogPageCount has returned (line 241) is the one the EC
\* recorded last, or -1.
CountIsRecorded ==
  \A c \in Clients : cl[c].pc = "off" /\ cl[c].op = "GetECLogPageCount" =>
    cl[c].n \in {-1, recorded}

\* EC_SUCCESS means that the EC has been told that the whole log was read
\* (eclog.cpp:400: "this command notifies the EC that the APP is done").
SuccessMeansTold ==
  \A c \in Clients : cl[c].pc = "off" /\ cl[c].status = "EC_SUCCESS" => told

Failed(r) ==
  IF r.op = "GetECLogPageCount" THEN r.n = -1 /\ r.status # "EC_CREATE_FILE_FAILED"
                                ELSE r.op # "none" /\ r.status = "EC_FAILED"

\* With a timely EC and no I/O failure no call fails once the device is open:
\* no earlier call leaves the mailbox in a state that breaks the next one.
TimelyNeverFails == \A c \in Clients : cl[c].pc = "off" => ~Failed(cl[c])

\* Seen from its caller, a lone client implements the promise of LogTransfer.
TheClient == CHOOSE c \in Clients : TRUE
Transfer == INSTANCE LogTransfer WITH
  busy <- cl[TheClient].pc # "off", total <- cl[TheClient].n,
  got <- cl[TheClient].vec, status <- cl[TheClient].status
TransferImplemented == Transfer!Spec

\* Every call returns, even when the EC is dead and every read fails.
CallReturns == \A c \in Clients : cl[c].pc # "off" ~> cl[c].pc = "off"

\* The mailbox always becomes idle again, so that a next call can start.
MailboxSettles == []<>(mbox.cmd = "IDLE" /\ job = NoJob)
=============================================================================

------------------------------ MODULE Notifier ------------------------------
(***************************************************************************)
(* The "log is ready" notifier of EcIoSdk: RegisterECLogReadyNotifier, its *)
(* monitor thread (ThreadFuncEventMonitor) and the COM object that WMI     *)
(* calls (EventSink).  Several processes may use the SDK.  The event that  *)
(* tells a monitor thread to stop is manual-reset and has a NAME, so all   *)
(* of them share it.                                                       *)
(*                                                                         *)
(* In each process one thread calls Register: its static pThread is not    *)
(* protected.  WMI and the stub it calls through (IUnsecuredApartment) are *)
(* not part of the repository: a stub holds one reference on its sink as   *)
(* long as someone holds the stub.                                         *)
(***************************************************************************)
EXTENDS Naturals

CONSTANTS
  Procs,     \* processes that use the SDK
  MaxRegs,   \* bound: callbacks one process registers
  Faults     \* what may go wrong: "com", "unsecapp", "event", "cancel"

(***************************************************************************)
(* "com": a COM or WMI call whose result is checked fails.  "unsecapp":    *)
(* CLSID_UnsecuredApartment cannot be created, "event": the monitor thread *)
(* cannot open the event, "cancel": CancelAsyncCall fails.  The results of *)
(* these three calls are not looked at.                                    *)
(***************************************************************************)
ASSUME NotifierAssumption ==
  /\ MaxRegs \in Nat
  /\ Faults \subseteq {"com", "unsecapp", "event", "cancel"}

VARIABLES
  hEvent,   \* the event "ECLogEvent" is signaled
  reg,      \* per process: the Register call, and how many callbacks it has registered
  pThread,  \* per process: what its monitor thread does, "none" if pThread is NULL
  sink      \* per process and registration: the EventSink and the calls into it

vars == <<hEvent, reg, pThread, sink>>

Holders == {"pStubUnk", "pStubSink", "WMI", "call"}

\* m_lRef, whether the object exists, whether its stub does and who holds the
\* stub, whether it is subscribed to HID_EVENT20, whether its CancelAsyncCall
\* failed, and the call it is serving.
NoSink == [m_lRef |-> 0, state |-> "none", stub |-> FALSE, holders |-> {},
           subscribed |-> FALSE, kept |-> FALSE, call |-> "none"]

Init ==
  /\ hEvent = FALSE
  /\ reg = [p \in Procs |-> [pc |-> "idle", arg |-> "NULL", count |-> 0]]
  /\ pThread = [p \in Procs |-> "none"]
  /\ sink = [p \in Procs |-> [n \in 1..MaxRegs |-> NoSink]]
-----------------------------------------------------------------------------
(***************************************************************************)
(* RegisterECLogReadyNotifier(callBack).                                   *)
(***************************************************************************)
AfterClose(arg) == IF arg = "NULL" THEN "idle" ELSE "reset"

Register(p, arg) ==
  /\ reg[p].pc = "idle"
  /\ arg = "callBack" => reg[p].count < MaxRegs
  /\ reg' = [reg EXCEPT ![p].arg = arg,
                        ![p].pc = IF pThread[p] # "none" THEN "signal" ELSE AfterClose(arg)]
  /\ UNCHANGED <<hEvent, pThread, sink>>

\* The threads that wait for the event when it is set, in any process.
Woken == [q \in Procs |-> IF pThread[q] = "waiting" THEN "cancel" ELSE pThread[q]]

\* Mutant: PulseEvent, which wakes the waiting threads and leaves the event as it is.
Signal_Pulse(p) ==
  /\ reg[p].pc = "signal"
  /\ pThread' = Woken
  /\ reg' = [reg EXCEPT ![p].pc = "join"]
  /\ UNCHANGED <<hEvent, sink>>

Signal(p) ==
  /\ reg[p].pc = "signal"
  /\ hEvent' = TRUE
  /\ pThread' = Woken
  /\ reg' = [reg EXCEPT ![p].pc = "join"]
  /\ UNCHANGED sink

\* Mutant: the old thread is detached, not joined.
Join_Detach(p) ==
  /\ reg[p].pc = "join"
  /\ pThread' = [pThread EXCEPT ![p] = "none"]
  /\ reg' = [reg EXCEPT ![p].pc = AfterClose(reg[p].arg)]
  /\ UNCHANGED <<hEvent, sink>>

Join(p) ==
  /\ reg[p].pc = "join"
  /\ pThread[p] = "ended"
  /\ pThread' = [pThread EXCEPT ![p] = "none"]
  /\ reg' = [reg EXCEPT ![p].pc = AfterClose(reg[p].arg)]
  /\ UNCHANGED <<hEvent, sink>>

\* Mutant: the event stays signaled from the last close.
Reset_Skip(p) ==
  /\ reg[p].pc = "reset"
  /\ reg' = [reg EXCEPT ![p].pc = "spawn"]
  /\ UNCHANGED <<hEvent, pThread, sink>>

Reset(p) ==
  /\ reg[p].pc = "reset"
  /\ hEvent' = FALSE
  /\ reg' = [reg EXCEPT ![p].pc = "spawn"]
  /\ UNCHANGED <<pThread, sink>>

\* The result is pThread->joinable(): TRUE whatever becomes of the thread.
Spawn(p) ==
  /\ reg[p].pc = "spawn"
  /\ pThread' = [pThread EXCEPT ![p] = "start"]
  /\ reg' = [reg EXCEPT ![p].pc = "idle", ![p].count = @ + 1]
  /\ UNCHANGED <<hEvent, sink>>
-----------------------------------------------------------------------------
(***************************************************************************)
(* ThreadFuncEventMonitor.  A thread serves the last registration of its   *)
(* process.                                                                *)
(***************************************************************************)
Monitor(p, from, to, s) ==
  /\ pThread[p] = from
  /\ pThread' = [pThread EXCEPT ![p] = to]
  /\ sink' = [sink EXCEPT ![p][reg[p].count] = s]
  /\ UNCHANGED <<hEvent, reg>>

Mine(p) == sink[p][reg[p].count]

\* EventSink::Release deletes the object with its last reference.
Release(s) ==
  [s EXCEPT !.m_lRef = @ - 1, !.state = IF s.m_lRef = 1 THEN "deleted" ELSE @]

Drop(s, holder) == [s EXCEPT !.holders = @ \ {holder}]

\* COM or WMI cannot be reached: the thread ends before it makes a sink.
MonitorFails(p) == "com" \in Faults /\ Monitor(p, "start", "ended", Mine(p))

\* Mutant: the thread does not take a reference of its own.
NewSink_NoAddRef ==
  [NoSink EXCEPT !.state = "alive", !.m_lRef = 1, !.stub = TRUE,
                 !.holders = {"pStubUnk", "pStubSink"}]

\* The sink with the thread's reference and the stub's, and the two
\* references the thread has on the stub.
NewSink ==
  [NoSink EXCEPT !.state = "alive", !.m_lRef = 2, !.stub = TRUE,
                 !.holders = {"pStubUnk", "pStubSink"}]

CreateSink(p) == Monitor(p, "start", "query", NewSink)

\* pUnsecApp is NULL and is called through: the process dies.  Whatever state
\* it leaves the event in, a thread is started only after a Reset.
Crash(p) ==
  /\ "unsecapp" \in Faults
  /\ pThread[p] = "start"
  /\ pThread' = [pThread EXCEPT ![p] = "dead"]
  /\ reg' = [reg EXCEPT ![p].pc = "dead"]
  /\ sink' = [sink EXCEPT ![p] = [n \in 1..MaxRegs |-> NoSink]]
  /\ UNCHANGED hEvent

\* The process is started again.
Restart(p) ==
  /\ reg[p].pc = "dead"
  /\ reg' = [reg EXCEPT ![p] = [pc |-> "idle", arg |-> "NULL", count |-> 0]]
  /\ pThread' = [pThread EXCEPT ![p] = "none"]
  /\ UNCHANGED <<hEvent, sink>>

Subscribe(p) ==
  \/ Monitor(p, "query", "wait",
       [Mine(p) EXCEPT !.subscribed = TRUE, !.holders = @ \cup {"WMI"}])
  \/ "com" \in Faults /\ Monitor(p, "query", "relStubUnk", Mine(p))

\* OpenEvent and WaitForSingleObject: neither a signaled event nor a NULL handle blocks.
Wait(p) ==
  \/ Monitor(p, "wait", IF hEvent THEN "cancel" ELSE "waiting", Mine(p))
  \/ "event" \in Faults /\ Monitor(p, "wait", "cancel", Mine(p))

\* CancelAsyncCall.  WMI lets go of the stub in its own time; when the call
\* fails the subscription stays, and the thread goes on all the same.
Cancel(p) ==
  \/ Monitor(p, "cancel", "relStubUnk", [Mine(p) EXCEPT !.subscribed = FALSE])
  \/ "cancel" \in Faults /\ Monitor(p, "cancel", "relStubUnk", [Mine(p) EXCEPT !.kept = TRUE])

ReleaseStubUnk(p)  == Monitor(p, "relStubUnk", "relSink", Drop(Mine(p), "pStubUnk"))

\* Mutant: the reference of the thread is never given back.
ReleaseSink_Leak(p) == Monitor(p, "relSink", "relStubSink", Mine(p))

ReleaseSink(p)     == Monitor(p, "relSink", "relStubSink", Release(Mine(p)))
ReleaseStubSink(p) == Monitor(p, "relStubSink", "ended", Drop(Mine(p), "pStubSink"))

MonitorRuns(p) ==
  \/ MonitorFails(p) \/ CreateSink(p) \/ Crash(p) \/ Subscribe(p) \/ Wait(p) \/ Cancel(p)
  \/ ReleaseStubUnk(p) \/ ReleaseSink(p) \/ ReleaseStubSink(p)
-----------------------------------------------------------------------------
(***************************************************************************)
(* WMI and COM, and EventSink::Indicate, which they call on a thread of    *)
(* theirs.                                                                 *)
(***************************************************************************)
Sink(p, n, s) == sink' = [sink EXCEPT ![p][n] = s] /\ UNCHANGED <<hEvent, reg, pThread>>

\* An event is delivered.  The call holds the stub.
IndicateBegins(p, n) ==
  /\ "WMI" \in sink[p][n].holders /\ sink[p][n].call = "none"
  /\ Sink(p, n, [sink[p][n] EXCEPT !.call = "indicate", !.holders = @ \cup {"call"}])

\* The next object of the array is event type 0x1, function 0x27.
CallBack(p, n) ==
  /\ sink[p][n].call = "indicate"
  /\ Sink(p, n, [sink[p][n] EXCEPT !.call = "callBack"])

CallBackReturns(p, n) ==
  /\ sink[p][n].call = "callBack"
  /\ Sink(p, n, [sink[p][n] EXCEPT !.call = "indicate"])

\* There is no further object of that kind.
IndicateReturns(p, n) ==
  /\ sink[p][n].call = "indicate"
  /\ Sink(p, n, Drop([sink[p][n] EXCEPT !.call = "none"], "call"))

\* WMI releases the stub once the subscription is cancelled.
WmiLetsGo(p, n) ==
  /\ "WMI" \in sink[p][n].holders /\ ~sink[p][n].subscribed
  /\ Sink(p, n, Drop(sink[p][n], "WMI"))

\* Nobody holds the stub any more: it goes, and releases the sink.
StubGoes(p, n) ==
  /\ sink[p][n].stub /\ sink[p][n].holders = {}
  /\ Sink(p, n, Release([sink[p][n] EXCEPT !.stub = FALSE]))

ComRuns(p, n) ==
  \/ IndicateBegins(p, n) \/ CallBack(p, n) \/ CallBackReturns(p, n)
  \/ IndicateReturns(p, n) \/ WmiLetsGo(p, n) \/ StubGoes(p, n)
-----------------------------------------------------------------------------
RegisterRuns(p) == Signal(p) \/ Join(p) \/ Reset(p) \/ Spawn(p)

Next ==
  \E p \in Procs :
    \/ \E arg \in {"NULL", "callBack"} : Register(p, arg)
    \/ RegisterRuns(p)
    \/ MonitorRuns(p)
    \/ Restart(p)
    \/ \E n \in 1..MaxRegs : ComRuns(p, n)

Spec == Init /\ [][Next]_vars

(***************************************************************************)
(* Threads that can run do.  WMI need not ever deliver an event; a call it *)
(* makes ends (an array of objects is finite and the callback returns) and *)
(* a cancelled subscription is let go of.                                  *)
(***************************************************************************)
FairSpec ==
  /\ Spec
  /\ \A p \in Procs : WF_vars(RegisterRuns(p)) /\ WF_vars(MonitorRuns(p))
  /\ \A p \in Procs, n \in 1..MaxRegs :
       /\ SF_vars(IndicateReturns(p, n)) /\ WF_vars(CallBackReturns(p, n))
       /\ WF_vars(WmiLetsGo(p, n)) /\ WF_vars(StubGoes(p, n))
-----------------------------------------------------------------------------
\* The variables keep their types: no reference of a sink is given back twice.
TypeOK ==
  /\ hEvent \in BOOLEAN
  /\ reg \in [Procs -> [pc : {"idle", "signal", "join", "reset", "spawn", "dead"},
                        arg : {"NULL", "callBack"}, count : 0..MaxRegs]]
  /\ pThread \in [Procs -> {"none", "start", "query", "wait", "waiting", "cancel",
                            "relStubUnk", "relSink", "relStubSink", "ended", "dead"}]
  /\ sink \in [Procs -> [1..MaxRegs ->
       [m_lRef : 0..2, state : {"none", "alive", "deleted"}, stub : BOOLEAN,
        holders : SUBSET Holders, subscribed : BOOLEAN, kept : BOOLEAN,
        call : {"none", "indicate", "callBack"}]]]

\* Only the newest registration of a process is subscribed, and only while its
\* thread is there: when Register has returned, the callback it replaced or
\* removed has no subscription left.  The one exception is a callback whose
\* CancelAsyncCall failed (line 632): nobody looks at the result.
OnlyNewestSubscribed ==
  \A p \in Procs, n \in 1..MaxRegs : sink[p][n].subscribed /\ ~sink[p][n].kept =>
    n = reg[p].count /\ pThread[p] \in {"wait", "waiting", "cancel"}

\* WMI never calls into a sink that has deleted itself, in whatever order the
\* thread, the stub and a call in progress let go of it.
SinkOutlivesCalls ==
  \A p \in Procs, n \in 1..MaxRegs :
    "WMI" \in sink[p][n].holders \/ sink[p][n].call # "none" => sink[p][n].state = "alive"

\* A monitor thread that is up stops only because its own process asked it to.
StopsOnlyWhenAsked ==
  \A p \in Procs : pThread[p] \in {"cancel", "relStubUnk", "relSink", "relStubSink", "ended"}
    => reg[p].pc = "join"

\* The signal to stop is not lost: Register never joins a thread that sleeps on
\* the event, and one that is still on its way to it will find it signaled.
StopIsSeen ==
  \A p \in Procs : reg[p].pc = "join" =>
    /\ pThread[p] \notin {"none", "waiting"}
    /\ pThread[p] \in {"start", "query", "wait"} => hEvent

\* A call of Register returns: the thread it joins always gets the signal.
RegisterReturns == \A p \in Procs : reg[p].pc # "idle" ~> reg[p].pc = "idle"

\* A sink whose thread is gone is deleted.
SinkFreed ==
  \A p \in Procs, n \in 1..MaxRegs :
    sink[p][n].state = "alive" /\ (n < reg[p].count \/ pThread[p] = "none")
      ~> sink[p][n].state = "deleted"

\* Register(NULL) closes the monitor thread (eclog.cpp:649: "set callBack to
\* NULL,means close eclog ready check thread").
NullCloses ==
  \A p \in Procs : reg[p].pc # "idle" /\ reg[p].arg = "NULL" ~> pThread[p] = "none"
=============================================================================

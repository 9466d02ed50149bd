--------------------------- MODULE Notifier_proofs ---------------------------
(***************************************************************************)
(* Proofs about Notifier, for any number of processes and registrations.   *)
(***************************************************************************)
EXTENDS Notifier, TLAPS

RegState    == [pc : {"idle", "signal", "join", "reset", "spawn", "dead"},
                arg : {"NULL", "callBack"}, count : 0..MaxRegs]
ThreadState == {"none", "start", "query", "wait", "waiting", "cancel",
                "relStubUnk", "relSink", "relStubSink", "ended", "dead"}
SinkState   == [m_lRef : 0..2, state : {"none", "alive", "deleted"}, stub : BOOLEAN,
                holders : SUBSET Holders, subscribed : BOOLEAN, kept : BOOLEAN,
                call : {"none", "indicate", "callBack"}]

\* What a monitor thread holds, by where it is.
HasRef  == {"query", "wait", "waiting", "cancel", "relStubUnk", "relSink"}
HasStub == HasRef \cup {"relStubSink"}
Watches == {"wait", "waiting", "cancel"}

\* The thread that serves registration n of process p, if it is still there.
ThreadOf(p, n) == IF n = reg[p].count THEN pThread[p] ELSE "none"

One(b) == IF b THEN 1 ELSE 0

(***************************************************************************)
(* A sink whose thread is at t: m_lRef counts the stub and the thread, the *)
(* stub is there as long as somebody holds it, the thread holds it to the  *)
(* last, and so does a call in progress.                                   *)
(***************************************************************************)
SinkOK(s, t) ==
  /\ s.m_lRef = One(s.stub) + One(t \in HasRef)
  /\ s.state = "alive" <=> s.m_lRef # 0
  /\ s.holders # {} => s.stub
  /\ t \in HasStub => "pStubSink" \in s.holders
  /\ s.call # "none" => "call" \in s.holders
  /\ s.subscribed /\ ~s.kept => t \in Watches
  /\ s.kept => "cancel" \in Faults

\* A Register call and the thread of its process.
RegOK(r, t) ==
  /\ t \notin {"none", "dead"} => r.count > 0 /\ r.pc \in {"idle", "signal", "join"}
  /\ r.pc \in {"reset", "spawn"} => r.arg = "callBack"
  /\ r.pc \in {"signal", "join", "reset", "spawn"} /\ r.arg = "callBack" => r.count < MaxRegs

Types ==
  /\ hEvent \in BOOLEAN
  /\ reg \in [Procs -> RegState]
  /\ pThread \in [Procs -> ThreadState]
  /\ sink \in [Procs -> [1..MaxRegs -> SinkState]]

\* The inductive invariant.
RefInv ==
  /\ Types
  /\ \A p \in Procs : RegOK(reg[p], pThread[p])
  /\ \A p \in Procs, n \in 1..MaxRegs : SinkOK(sink[p][n], ThreadOf(p, n))
-----------------------------------------------------------------------------
(***************************************************************************)
(* What the steps do to one sink.                                          *)
(***************************************************************************)
LEMMA NoSinkOK ==
  ASSUME NEW t \in {"none", "start", "ended", "dead"}
  PROVE  NoSink \in SinkState /\ SinkOK(NoSink, t)
<1>1. NoSink \in SinkState
  BY DEF NoSink, SinkState
<1>2. t \notin HasRef /\ t \notin HasStub
  BY DEF HasRef, HasStub
<1>3. /\ NoSink.m_lRef = 0 /\ NoSink.state = "none" /\ ~NoSink.stub
      /\ NoSink.holders = {} /\ ~NoSink.subscribed /\ ~NoSink.kept /\ NoSink.call = "none"
  BY DEF NoSink
<1>4. One(NoSink.stub) = 0 /\ One(t \in HasRef) = 0
  BY <1>2, <1>3 DEF One
<1>5. SinkOK(NoSink, t)
  BY <1>2, <1>3, <1>4 DEF SinkOK
<1> QED BY <1>1, <1>5

LEMMA NewSinkOK == NewSink \in SinkState /\ SinkOK(NewSink, "query")
<1>1. NoSink \in SinkState
  BY NoSinkOK
<1>2. NewSink \in SinkState
  <2>1. {"pStubUnk", "pStubSink"} \in SUBSET Holders
    BY DEF Holders
  <2>2. 2 \in 0..2 /\ "alive" \in {"none", "alive", "deleted"} /\ TRUE \in BOOLEAN
    OBVIOUS
  <2> QED BY <1>1, <2>1, <2>2, Zenon DEF NewSink, SinkState
<1>3. /\ NewSink.m_lRef = 2 /\ NewSink.state = "alive" /\ NewSink.stub = TRUE
      /\ NewSink.holders = {"pStubUnk", "pStubSink"} /\ NewSink.subscribed = FALSE
      /\ NewSink.kept = FALSE /\ NewSink.call = "none"
  BY DEF NewSink, NoSink
<1>4. "query" \in HasRef /\ One(NewSink.stub) = 1 /\ One("query" \in HasRef) = 1
  BY <1>3 DEF One, HasRef
<1>5. SinkOK(NewSink, "query")
  BY <1>3, <1>4 DEF SinkOK
<1> QED BY <1>2, <1>5

\* A sink stays right when its thread only moves within what it holds.
LEMMA ThreadMoves ==
  ASSUME NEW s, NEW t, NEW u, SinkOK(s, t),
         u \in HasRef <=> t \in HasRef, u \in HasStub => t \in HasStub,
         t \in Watches => u \in Watches
  PROVE  SinkOK(s, u)
  BY DEF SinkOK

\* A sink with a stub or a thread is alive.
LEMMA HeldAlive ==
  ASSUME NEW s \in SinkState, NEW t, SinkOK(s, t), s.stub \/ t \in HasRef
  PROVE  s.m_lRef \in 1..2 /\ s.state = "alive"
<1>1. s.stub \in BOOLEAN /\ s.m_lRef \in 0..2
  BY DEF SinkState
<1>2. One(s.stub) \in 0..1 /\ One(t \in HasRef) \in 0..1
  BY DEF One
<1>3. s.m_lRef # 0
  <2>1. One(s.stub) = 1 \/ One(t \in HasRef) = 1
    BY DEF One
  <2> QED BY <1>2, <2>1 DEF SinkOK
<1> QED BY <1>1, <1>3 DEF SinkOK

\* EventSink::Release takes one reference away.
LEMMA Released ==
  ASSUME NEW s \in SinkState, s.m_lRef \in 1..2, s.state = "alive"
  PROVE  /\ Release(s) \in SinkState
         /\ Release(s).m_lRef = s.m_lRef - 1
         /\ Release(s).state = "alive" <=> Release(s).m_lRef # 0
         /\ Release(s).stub = s.stub /\ Release(s).holders = s.holders
         /\ Release(s).subscribed = s.subscribed /\ Release(s).kept = s.kept
         /\ Release(s).call = s.call
<1> DEFINE st == IF s.m_lRef = 1 THEN "deleted" ELSE s.state
           u == [s EXCEPT !.m_lRef = s.m_lRef - 1, !.state = st]
<1>1. Release(s) = u
  BY DEF Release
<1>2. s.m_lRef - 1 \in 0..2 /\ st \in {"none", "alive", "deleted"}
  OBVIOUS
<1>3. u \in SinkState
  BY <1>2, Zenon DEF SinkState
<1>4. u.m_lRef = s.m_lRef - 1 /\ u.state = st
  BY DEF SinkState
<1>5. st = "alive" <=> s.m_lRef - 1 # 0
  OBVIOUS
<1>6. /\ u.stub = s.stub /\ u.holders = s.holders
      /\ u.subscribed = s.subscribed /\ u.kept = s.kept /\ u.call = s.call
  BY DEF SinkState
<1> QED BY <1>1, <1>3, <1>4, <1>5, <1>6, Zenon

LEMMA Dropped ==
  ASSUME NEW s \in SinkState, NEW h
  PROVE  /\ Drop(s, h) \in SinkState
         /\ Drop(s, h).holders = s.holders \ {h}
         /\ Drop(s, h).m_lRef = s.m_lRef /\ Drop(s, h).state = s.state
         /\ Drop(s, h).stub = s.stub /\ Drop(s, h).subscribed = s.subscribed /\ Drop(s, h).kept = s.kept
         /\ Drop(s, h).call = s.call
<1>1. s.holders \ {h} \in SUBSET Holders
  BY DEF SinkState
<1>2. Drop(s, h) \in SinkState
  BY <1>1, Zenon DEF SinkState, Drop
<1>3. /\ Drop(s, h).holders = s.holders \ {h}
      /\ Drop(s, h).m_lRef = s.m_lRef /\ Drop(s, h).state = s.state
      /\ Drop(s, h).stub = s.stub /\ Drop(s, h).subscribed = s.subscribed /\ Drop(s, h).kept = s.kept
      /\ Drop(s, h).call = s.call
  BY DEF Drop, SinkState
<1> QED BY <1>2, <1>3
-----------------------------------------------------------------------------
(***************************************************************************)
(* Steps of WMI and COM, which change one sink and nothing else.           *)
(***************************************************************************)
LEMMA SinkStep ==
  ASSUME RefInv, NEW p \in Procs, NEW n \in 1..MaxRegs,
         NEW s \in SinkState, SinkOK(s, ThreadOf(p, n)), Sink(p, n, s)
  PROVE  RefInv'
<1>1. sink' = [sink EXCEPT ![p][n] = s] /\ UNCHANGED <<hEvent, reg, pThread>>
  BY DEF Sink
<1>2. sink \in [Procs -> [1..MaxRegs -> SinkState]]
  BY DEF RefInv, Types
<1>3. Types'
  BY <1>1, <1>2 DEF RefInv, Types
<1>4. \A q \in Procs : RegOK(reg[q], pThread[q])'
  BY <1>1 DEF RefInv, RegOK
<1>5. ASSUME NEW q \in Procs, NEW m \in 1..MaxRegs
      PROVE  SinkOK(sink[q][m], ThreadOf(q, m))'
  <2>1. ThreadOf(q, m)' = ThreadOf(q, m)
    BY <1>1 DEF ThreadOf
  <2>2. sink'[q][m] = IF q = p /\ m = n THEN s ELSE sink[q][m]
    BY <1>1, <1>2
  <2>3. SinkOK(sink[q][m], ThreadOf(q, m))
    BY DEF RefInv
  <2>4. SinkOK(sink'[q][m], ThreadOf(q, m))
    BY <2>2, <2>3
  <2> QED BY <2>1, <2>4 DEF SinkOK
<1> QED BY <1>3, <1>4, <1>5 DEF RefInv

\* A call into the sink begins, moves on and ends; it holds the stub throughout.
LEMMA CallSteps ==
  ASSUME NEW s \in SinkState, NEW t, SinkOK(s, t)
  PROVE  /\ "WMI" \in s.holders =>
              LET u == [s EXCEPT !.call = "indicate", !.holders = @ \cup {"call"}]
              IN  u \in SinkState /\ SinkOK(u, t)
         /\ \A c \in {"indicate", "callBack"} :
              s.call # "none" =>
                [s EXCEPT !.call = c] \in SinkState /\ SinkOK([s EXCEPT !.call = c], t)
         /\ LET u == Drop([s EXCEPT !.call = "none"], "call")
            IN  u \in SinkState /\ SinkOK(u, t)
<1>1. ASSUME "WMI" \in s.holders
      PROVE  LET u == [s EXCEPT !.call = "indicate", !.holders = @ \cup {"call"}]
             IN  u \in SinkState /\ SinkOK(u, t)
  <2> DEFINE u == [s EXCEPT !.call = "indicate", !.holders = s.holders \cup {"call"}]
  <2>1. s.holders \cup {"call"} \in SUBSET Holders
    BY DEF SinkState, Holders
  <2>2. u \in SinkState
    BY <2>1, Zenon DEF SinkState
  <2>3. /\ u.call = "indicate" /\ u.holders = s.holders \cup {"call"} /\ u.stub = s.stub
        /\ u.m_lRef = s.m_lRef /\ u.state = s.state /\ u.subscribed = s.subscribed /\ u.kept = s.kept
    BY DEF SinkState
  <2>4. SinkOK(u, t)
    BY <1>1, <2>3 DEF SinkOK
  <2> QED BY <2>2, <2>4
<1>2. ASSUME NEW c \in {"indicate", "callBack"}, s.call # "none"
      PROVE  [s EXCEPT !.call = c] \in SinkState /\ SinkOK([s EXCEPT !.call = c], t)
  <2> DEFINE u == [s EXCEPT !.call = c]
  <2>1. c \in {"none", "indicate", "callBack"}
    OBVIOUS
  <2>2. u \in SinkState
    BY <2>1, Zenon DEF SinkState
  <2>3. /\ u.call = c /\ u.holders = s.holders /\ u.stub = s.stub
        /\ u.m_lRef = s.m_lRef /\ u.state = s.state /\ u.subscribed = s.subscribed /\ u.kept = s.kept
    BY DEF SinkState
  <2>4. SinkOK(u, t)
    BY <1>2, <2>3 DEF SinkOK
  <2> QED BY <2>2, <2>4
<1>3. LET u == Drop([s EXCEPT !.call = "none"], "call")
      IN  u \in SinkState /\ SinkOK(u, t)
  <2> DEFINE v == [s EXCEPT !.call = "none"]
             u == Drop(v, "call")
  <2>1. v \in SinkState
    BY Zenon DEF SinkState
  <2>2. /\ v.call = "none" /\ v.holders = s.holders /\ v.stub = s.stub
        /\ v.m_lRef = s.m_lRef /\ v.state = s.state /\ v.subscribed = s.subscribed /\ v.kept = s.kept
    BY DEF SinkState
  <2> HIDE DEF v
  <2>3. /\ u \in SinkState /\ u.holders = v.holders \ {"call"}
        /\ u.m_lRef = v.m_lRef /\ u.state = v.state /\ u.stub = v.stub
        /\ u.subscribed = v.subscribed /\ u.kept = v.kept /\ u.call = v.call
    BY <2>1, Dropped
  <2>4. SinkOK(u, t)
    BY <2>2, <2>3 DEF SinkOK
  <2> QED BY <2>3, <2>4 DEF v
<1> QED BY <1>1, <1>2, <1>3

LEMMA ComPreserves ==
  ASSUME RefInv, NEW p \in Procs, NEW n \in 1..MaxRegs, ComRuns(p, n)
  PROVE  RefInv'
<1> DEFINE s == sink[p][n]
           t == ThreadOf(p, n)
<1>1. s \in SinkState /\ SinkOK(s, t)
  BY DEF RefInv, Types
<1>2. CASE IndicateBegins(p, n)
  BY <1>1, <1>2, CallSteps, SinkStep, Zenon DEF IndicateBegins
<1>3. CASE CallBack(p, n)
  BY <1>1, <1>3, CallSteps, SinkStep, Zenon DEF CallBack
<1>4. CASE CallBackReturns(p, n)
  BY <1>1, <1>4, CallSteps, SinkStep, Zenon DEF CallBackReturns
<1>5. CASE IndicateReturns(p, n)
  BY <1>1, <1>5, CallSteps, SinkStep, Zenon DEF IndicateReturns
<1>6. CASE WmiLetsGo(p, n)
  <2>1. SinkOK(Drop(s, "WMI"), t) /\ Drop(s, "WMI") \in SinkState
    BY <1>1, Dropped DEF SinkOK
  <2> QED BY <1>6, <2>1, SinkStep DEF WmiLetsGo
<1>7. CASE StubGoes(p, n)
  <2> DEFINE v == [s EXCEPT !.stub = FALSE]
             u == Release(v)
  <2>1. s.stub /\ s.holders = {}
    BY <1>7 DEF StubGoes
  <2>2. s.m_lRef \in 1..2 /\ s.state = "alive"
    BY <1>1, <2>1, HeldAlive
  <2>3. v \in SinkState
    BY <1>1, Zenon DEF SinkState
  <2>4. /\ v.call = s.call /\ v.holders = s.holders /\ v.stub = FALSE
        /\ v.m_lRef = s.m_lRef /\ v.state = s.state /\ v.subscribed = s.subscribed /\ v.kept = s.kept
    BY <1>1 DEF SinkState
  <2> HIDE DEF v
  <2>5. /\ u \in SinkState /\ u.m_lRef = v.m_lRef - 1
        /\ u.state = "alive" <=> u.m_lRef # 0
        /\ u.stub = v.stub /\ u.holders = v.holders
        /\ u.subscribed = v.subscribed /\ u.kept = v.kept /\ u.call = v.call
    BY <2>2, <2>3, <2>4, Released
  <2>6. u.m_lRef = One(u.stub) + One(t \in HasRef)
    <3>1. s.m_lRef = 1 + One(t \in HasRef) /\ One(t \in HasRef) \in 0..1
      BY <1>1, <2>1 DEF SinkOK, One
    <3>2. One(u.stub) = 0
      BY <2>4, <2>5 DEF One
    <3> QED BY <2>4, <2>5, <3>1, <3>2
  <2>7. SinkOK(u, t)
    BY <1>1, <2>1, <2>4, <2>5, <2>6 DEF SinkOK
  <2> QED BY <1>7, <2>5, <2>7, SinkStep DEF StubGoes, v
<1> QED BY <1>2, <1>3, <1>4, <1>5, <1>6, <1>7 DEF ComRuns
-----------------------------------------------------------------------------
(***************************************************************************)
(* Steps of a monitor thread, which move the thread and change its sink.   *)
(***************************************************************************)
LEMMA MineOK ==
  ASSUME RefInv, NEW p \in Procs, pThread[p] \notin {"none", "dead"}
  PROVE  /\ reg[p].count \in 1..MaxRegs /\ reg[p].pc \in {"idle", "signal", "join"}
         /\ Mine(p) \in SinkState /\ SinkOK(Mine(p), pThread[p])
<1>1. reg[p].count > 0 /\ reg[p].pc \in {"idle", "signal", "join"}
  BY DEF RefInv, RegOK
<1>2. reg[p].count \in 0..MaxRegs
  BY DEF RefInv, Types, RegState
<1>3. reg[p].count \in 1..MaxRegs
  BY <1>1, <1>2, NotifierAssumption
<1>4. Mine(p) \in SinkState
  BY <1>3 DEF RefInv, Types, Mine
<1>5. SinkOK(sink[p][reg[p].count], ThreadOf(p, reg[p].count))
  BY <1>3 DEF RefInv
<1>6. ThreadOf(p, reg[p].count) = pThread[p]
  BY DEF ThreadOf
<1> QED BY <1>1, <1>3, <1>4, <1>5, <1>6 DEF Mine

LEMMA MonitorStep ==
  ASSUME RefInv, NEW p \in Procs, NEW from, NEW to \in ThreadState \ {"none", "dead"},
         from \notin {"none", "dead"}, NEW s \in SinkState, SinkOK(s, to),
         Monitor(p, from, to, s)
  PROVE  RefInv'
<1> DEFINE n == reg[p].count
<1>1. /\ pThread[p] = from /\ pThread' = [pThread EXCEPT ![p] = to]
      /\ sink' = [sink EXCEPT ![p][n] = s] /\ hEvent' = hEvent /\ reg' = reg
  BY DEF Monitor
<1>2. n \in 1..MaxRegs
  BY <1>1, MineOK
<1>3. /\ sink \in [Procs -> [1..MaxRegs -> SinkState]] /\ pThread \in [Procs -> ThreadState]
      /\ hEvent \in BOOLEAN /\ reg \in [Procs -> RegState]
  BY DEF RefInv, Types
<1>4. Types'
  <2>1. sink' \in [Procs -> [1..MaxRegs -> SinkState]]
    BY <1>1, <1>2, <1>3
  <2>2. pThread' \in [Procs -> ThreadState]
    BY <1>1, <1>3
  <2> QED BY <1>1, <1>3, <2>1, <2>2 DEF Types
<1>5. ASSUME NEW q \in Procs
      PROVE  RegOK(reg[q], pThread[q])'
  <2>1. RegOK(reg[q], pThread[q]) /\ RegOK(reg[p], from)
    BY <1>1 DEF RefInv
  <2>2. pThread'[q] = IF q = p THEN to ELSE pThread[q]
    BY <1>1, <1>3
  <2>3. RegOK(reg[p], to)
    BY <2>1 DEF RegOK
  <2>4. RegOK(reg[q], pThread'[q])
    BY <2>1, <2>2, <2>3
  <2> QED BY <1>1, <2>4
<1>6. ASSUME NEW q \in Procs, NEW m \in 1..MaxRegs
      PROVE  SinkOK(sink[q][m], ThreadOf(q, m))'
  <2>1. ThreadOf(q, m)' = IF q = p /\ m = n THEN to ELSE ThreadOf(q, m)
    BY <1>1, <1>3 DEF ThreadOf
  <2>2. sink'[q][m] = IF q = p /\ m = n THEN s ELSE sink[q][m]
    BY <1>1, <1>2, <1>3
  <2>3. SinkOK(sink[q][m], ThreadOf(q, m))
    BY DEF RefInv
  <2>4. SinkOK(sink'[q][m], ThreadOf(q, m)')
    BY <2>1, <2>2, <2>3
  <2> QED BY <2>4
<1> QED BY <1>4, <1>5, <1>6 DEF RefInv

LEMMA MonitorPreserves ==
  ASSUME RefInv, NEW p \in Procs, MonitorRuns(p), ~Crash(p)
  PROVE  RefInv'
<1> DEFINE s == Mine(p)
<1>1. ASSUME pThread[p] \notin {"none", "dead"}
      PROVE  s \in SinkState /\ SinkOK(s, pThread[p])
  BY <1>1, MineOK
<1>2. CASE MonitorFails(p)
  <2>1. pThread[p] = "start"
    BY <1>2 DEF MonitorFails, Monitor
  <2>2. SinkOK(s, "ended")
    BY <1>1, <2>1, ThreadMoves DEF HasRef, HasStub, Watches
  <2> QED BY <1>1, <1>2, <2>1, <2>2, MonitorStep DEF MonitorFails, ThreadState
<1>3. CASE CreateSink(p)
  <2>1. "query" \in ThreadState \ {"none", "dead"}
    BY DEF ThreadState
  <2> QED BY <1>3, <2>1, NewSinkOK, MonitorStep DEF CreateSink
<1>4. CASE Subscribe(p)
  <2>1. pThread[p] = "query"
    BY <1>4 DEF Subscribe, Monitor
  <2>2. s \in SinkState /\ SinkOK(s, "query")
    BY <1>1, <2>1
  <2> DEFINE u == [s EXCEPT !.subscribed = TRUE, !.holders = s.holders \cup {"WMI"}]
  <2>3. u \in SinkState
    <3>1. s.holders \cup {"WMI"} \in SUBSET Holders
      BY <2>2 DEF SinkState, Holders
    <3> QED BY <2>2, <3>1, Zenon DEF SinkState
  <2>4. SinkOK(u, "wait")
    <3>1. /\ u.call = s.call /\ u.holders = s.holders \cup {"WMI"} /\ u.stub = s.stub
          /\ u.m_lRef = s.m_lRef /\ u.state = s.state /\ u.kept = s.kept
      BY <2>2 DEF SinkState
    <3>2. "wait" \in HasRef /\ "query" \in HasRef /\ "query" \in HasStub /\ "wait" \in Watches
      BY DEF HasRef, HasStub, Watches
    <3> QED BY <2>2, <3>1, <3>2 DEF SinkOK
  <2>5. SinkOK(s, "relStubUnk")
    BY <2>2, ThreadMoves DEF HasRef, HasStub, Watches
  <2>6. {"query", "wait", "relStubUnk"} \subseteq ThreadState \ {"none", "dead"}
    BY DEF ThreadState
  <2>7. Monitor(p, "query", "wait", u) \/ Monitor(p, "query", "relStubUnk", s)
    BY <1>4 DEF Subscribe
  <2> HIDE DEF u
  <2> QED BY <2>2, <2>3, <2>4, <2>5, <2>6, <2>7, MonitorStep, Zenon
<1>5. CASE Wait(p)
  <2>1. pThread[p] = "wait"
    BY <1>5 DEF Wait, Monitor
  <2>2. s \in SinkState /\ SinkOK(s, "cancel") /\ SinkOK(s, "waiting")
    BY <1>1, <2>1, ThreadMoves DEF HasRef, HasStub, Watches
  <2>3. Monitor(p, "wait", "cancel", s) \/ Monitor(p, "wait", "waiting", s)
    BY <1>5 DEF Wait
  <2>4. {"cancel", "waiting"} \subseteq ThreadState \ {"none", "dead"}
    BY DEF ThreadState
  <2> QED BY <2>2, <2>3, <2>4, MonitorStep, Zenon
<1>6. CASE Cancel(p)
  <2>1. pThread[p] = "cancel"
    BY <1>6 DEF Cancel, Monitor
  <2>2. s \in SinkState /\ SinkOK(s, "cancel")
    BY <1>1, <2>1
  <2>3. {"cancel", "relStubUnk"} \subseteq HasRef /\ {"cancel", "relStubUnk"} \subseteq HasStub
    BY DEF HasRef, HasStub
  <2> DEFINE u == [s EXCEPT !.subscribed = FALSE]
             v == [s EXCEPT !.kept = TRUE]
  <2>4. u \in SinkState /\ SinkOK(u, "relStubUnk")
    <3>1. u \in SinkState
      BY <2>2, Zenon DEF SinkState
    <3>2. /\ u.call = s.call /\ u.holders = s.holders /\ u.stub = s.stub
          /\ u.m_lRef = s.m_lRef /\ u.state = s.state /\ u.subscribed = FALSE /\ u.kept = s.kept
      BY <2>2 DEF SinkState
    <3> QED BY <2>2, <2>3, <3>1, <3>2 DEF SinkOK
  <2>5. v \in SinkState /\ ("cancel" \in Faults => SinkOK(v, "relStubUnk"))
    <3>1. v \in SinkState
      BY <2>2, Zenon DEF SinkState
    <3>2. /\ v.call = s.call /\ v.holders = s.holders /\ v.stub = s.stub
          /\ v.m_lRef = s.m_lRef /\ v.state = s.state /\ v.kept = TRUE
      BY <2>2 DEF SinkState
    <3> QED BY <2>2, <2>3, <3>1, <3>2 DEF SinkOK
  <2>6. \/ Monitor(p, "cancel", "relStubUnk", u)
        \/ "cancel" \in Faults /\ Monitor(p, "cancel", "relStubUnk", v)
    BY <1>6 DEF Cancel
  <2>7. "relStubUnk" \in ThreadState \ {"none", "dead"}
    BY DEF ThreadState
  <2> HIDE DEF u, v
  <2> QED BY <2>4, <2>5, <2>6, <2>7, MonitorStep, Zenon
<1>7. CASE ReleaseStubUnk(p)
  <2>1. pThread[p] = "relStubUnk"
    BY <1>7 DEF ReleaseStubUnk, Monitor
  <2>2. s \in SinkState /\ SinkOK(s, "relStubUnk")
    BY <1>1, <2>1
  <2>3. SinkOK(s, "relSink") /\ "relSink" \in HasStub
    BY <2>2, ThreadMoves DEF HasRef, HasStub, Watches
  <2>4. Drop(s, "pStubUnk") \in SinkState /\ SinkOK(Drop(s, "pStubUnk"), "relSink")
    BY <2>2, <2>3, Dropped DEF SinkOK
  <2> QED BY <1>7, <2>4, MonitorStep DEF ReleaseStubUnk, ThreadState
<1>8. CASE ReleaseSink(p)
  <2>1. pThread[p] = "relSink"
    BY <1>8 DEF ReleaseSink, Monitor
  <2>2. s \in SinkState /\ SinkOK(s, "relSink")
    BY <1>1, <2>1
  <2>3. /\ "relSink" \in HasRef /\ "relSink" \in HasStub /\ "relSink" \notin Watches
        /\ "relStubSink" \notin HasRef /\ "relStubSink" \in HasStub
    BY DEF HasRef, HasStub, Watches
  <2>4. s.m_lRef \in 1..2 /\ s.state = "alive"
    BY <2>2, <2>3, HeldAlive
  <2> DEFINE u == Release(s)
  <2>5. /\ u \in SinkState /\ u.m_lRef = s.m_lRef - 1
        /\ u.state = "alive" <=> u.m_lRef # 0
        /\ u.stub = s.stub /\ u.holders = s.holders
        /\ u.subscribed = s.subscribed /\ u.kept = s.kept /\ u.call = s.call
    BY <2>2, <2>4, Released
  <2>6. u.m_lRef = One(u.stub) + One("relStubSink" \in HasRef)
    <3>1. s.m_lRef = One(s.stub) + 1 /\ One(s.stub) \in 0..1
      BY <2>2, <2>3 DEF SinkOK, One
    <3>2. One("relStubSink" \in HasRef) = 0
      BY <2>3 DEF One
    <3> QED BY <2>5, <3>1, <3>2
  <2>7. SinkOK(u, "relStubSink")
    BY <2>2, <2>3, <2>5, <2>6 DEF SinkOK
  <2> QED BY <1>8, <2>5, <2>7, MonitorStep DEF ReleaseSink, ThreadState
<1>9. CASE ReleaseStubSink(p)
  <2>1. pThread[p] = "relStubSink"
    BY <1>9 DEF ReleaseStubSink, Monitor
  <2>2. s \in SinkState /\ SinkOK(s, "relStubSink")
    BY <1>1, <2>1
  <2>3. SinkOK(s, "ended") /\ "ended" \notin HasStub
    BY <2>2, ThreadMoves DEF HasRef, HasStub, Watches
  <2>4. Drop(s, "pStubSink") \in SinkState /\ SinkOK(Drop(s, "pStubSink"), "ended")
    BY <2>2, <2>3, Dropped DEF SinkOK
  <2> QED BY <1>9, <2>4, MonitorStep DEF ReleaseStubSink, ThreadState
<1> QED BY <1>2, <1>3, <1>4, <1>5, <1>6, <1>7, <1>8, <1>9 DEF MonitorRuns
-----------------------------------------------------------------------------
(***************************************************************************)
(* Steps of Register, a crash and a restart.                               *)
(***************************************************************************)
LEMMA RegStep ==
  ASSUME RefInv, NEW p \in Procs, NEW r \in RegState, NEW t \in ThreadState,
         reg' = [reg EXCEPT ![p] = r], pThread' = [pThread EXCEPT ![p] = t],
         sink' = sink, hEvent' \in BOOLEAN, RegOK(r, t),
         \A n \in 1..MaxRegs : SinkOK(sink[p][n], IF n = r.count THEN t ELSE "none")
  PROVE  RefInv'
<1>1. reg \in [Procs -> RegState] /\ pThread \in [Procs -> ThreadState]
  BY DEF RefInv, Types
<1>2. Types'
  BY <1>1 DEF RefInv, Types
<1>3. ASSUME NEW q \in Procs
      PROVE  RegOK(reg[q], pThread[q])'
  <2>1. RegOK(reg[q], pThread[q])
    BY DEF RefInv
  <2>2. RegOK(reg'[q], pThread'[q])
    BY <1>1, <2>1
  <2> QED BY <2>2
<1>4. ASSUME NEW q \in Procs, NEW m \in 1..MaxRegs
      PROVE  SinkOK(sink[q][m], ThreadOf(q, m))'
  <2>1. SinkOK(sink[q][m], ThreadOf(q, m))
    BY DEF RefInv
  <2>2. ThreadOf(q, m)' = IF q = p THEN IF m = r.count THEN t ELSE "none" ELSE ThreadOf(q, m)
    BY <1>1 DEF ThreadOf
  <2>3. SinkOK(sink[q][m], ThreadOf(q, m)')
    BY <2>1, <2>2
  <2> QED BY <2>3
<1> QED BY <1>2, <1>3, <1>4 DEF RefInv

LEMMA RegisterPreserves ==
  ASSUME RefInv, NEW p \in Procs, NEW arg \in {"NULL", "callBack"}, Register(p, arg)
  PROVE  RefInv'
<1> DEFINE pc == IF pThread[p] # "none" THEN "signal" ELSE AfterClose(arg)
           r == [reg[p] EXCEPT !.arg = arg, !.pc = pc]
<1>1. /\ reg \in [Procs -> RegState] /\ reg[p] \in RegState /\ pThread[p] \in ThreadState
      /\ pThread \in [Procs -> ThreadState]
  BY DEF RefInv, Types
<1>2. reg' = [reg EXCEPT ![p] = r] /\ pThread' = pThread /\ sink' = sink /\ hEvent' = hEvent
  BY <1>1 DEF Register
<1>3. r \in RegState
  BY <1>1 DEF RegState, AfterClose
<1>4. r.count = reg[p].count /\ r.pc = pc /\ r.arg = arg
  BY <1>1 DEF RegState
<1>5. RegOK(reg[p], pThread[p]) /\ reg[p].pc = "idle"
  BY DEF RefInv, Register
<1>6. arg = "callBack" => reg[p].count < MaxRegs
  BY DEF Register
<1>7. RegOK(r, pThread[p])
  BY <1>4, <1>5, <1>6 DEF RegOK, AfterClose
<1>8. \A n \in 1..MaxRegs : SinkOK(sink[p][n], IF n = r.count THEN pThread[p] ELSE "none")
  BY <1>4 DEF RefInv, ThreadOf
<1>9. pThread' = [pThread EXCEPT ![p] = pThread[p]] /\ hEvent' \in BOOLEAN
  BY <1>1, <1>2 DEF RefInv, Types
<1> HIDE DEF r
<1> QED BY <1>1, <1>2, <1>3, <1>7, <1>8, <1>9, RegStep, Zenon

LEMMA SignalPreserves ==
  ASSUME RefInv, NEW p \in Procs, Signal(p)
  PROVE  RefInv'
<1> DEFINE r == [reg[p] EXCEPT !.pc = "join"]
<1>1. /\ reg \in [Procs -> RegState] /\ reg[p] \in RegState
      /\ pThread \in [Procs -> ThreadState]
  BY DEF RefInv, Types
<1>2. reg' = [reg EXCEPT ![p] = r] /\ pThread' = Woken /\ sink' = sink /\ hEvent' = TRUE
  BY <1>1 DEF Signal
<1>3. r \in RegState /\ r.pc = "join" /\ r.count = reg[p].count /\ r.arg = reg[p].arg
  BY <1>1 DEF RegState
<1>4. pThread' \in [Procs -> ThreadState]
  BY <1>1, <1>2 DEF Woken, ThreadState
<1>5. Types'
  BY <1>1, <1>2, <1>3, <1>4 DEF RefInv, Types
<1>6. ASSUME NEW q \in Procs
      PROVE  RegOK(reg[q], pThread[q])'
  <2>1. RegOK(reg[q], pThread[q]) /\ reg[p].pc = "signal"
    BY DEF RefInv, Signal
  <2>2. RegOK(reg[q], pThread'[q])
    BY <1>2, <2>1 DEF RegOK, Woken
  <2>3. reg'[q] = IF q = p THEN r ELSE reg[q]
    BY <1>1, <1>2
  <2>4. q = p => RegOK(r, pThread'[q])
    BY <1>3, <2>1, <2>2 DEF RegOK
  <2>5. RegOK(reg'[q], pThread'[q])
    BY <2>2, <2>3, <2>4
  <2> QED BY <2>5
<1>7. ASSUME NEW q \in Procs, NEW m \in 1..MaxRegs
      PROVE  SinkOK(sink[q][m], ThreadOf(q, m))'
  <2>1. SinkOK(sink[q][m], ThreadOf(q, m))
    BY DEF RefInv
  <2>2. reg'[q].count = reg[q].count
    BY <1>1, <1>2, <1>3
  <2>3. \/ ThreadOf(q, m)' = ThreadOf(q, m)
        \/ ThreadOf(q, m) = "waiting" /\ ThreadOf(q, m)' = "cancel"
    BY <1>2, <2>2 DEF ThreadOf, Woken
  <2>4. SinkOK(sink[q][m], ThreadOf(q, m)')
    BY <2>1, <2>3, ThreadMoves DEF HasRef, HasStub, Watches
  <2> QED BY <1>2, <2>4
<1> QED BY <1>5, <1>6, <1>7 DEF RefInv

LEMMA JoinPreserves ==
  ASSUME RefInv, NEW p \in Procs, Join(p)
  PROVE  RefInv'
<1> DEFINE r == [reg[p] EXCEPT !.pc = AfterClose(reg[p].arg)]
<1>1. reg \in [Procs -> RegState] /\ reg[p] \in RegState /\ hEvent \in BOOLEAN
  BY DEF RefInv, Types
<1>2. /\ reg' = [reg EXCEPT ![p] = r] /\ pThread' = [pThread EXCEPT ![p] = "none"]
      /\ sink' = sink /\ hEvent' = hEvent
  BY <1>1 DEF Join
<1>3. r \in RegState
  BY <1>1 DEF RegState, AfterClose
<1>4. r.count = reg[p].count /\ r.arg = reg[p].arg /\ r.pc = AfterClose(reg[p].arg)
  BY <1>1 DEF RegState
<1>5. RegOK(reg[p], pThread[p]) /\ reg[p].pc = "join" /\ pThread[p] = "ended"
  BY DEF RefInv, Join
<1>6. RegOK(r, "none")
  <2>1. reg[p].arg \in {"NULL", "callBack"}
    BY <1>1 DEF RegState
  <2>2. r.pc \in {"idle", "reset"} /\ (r.pc = "reset" => r.arg = "callBack")
    BY <1>4, <2>1 DEF AfterClose
  <2>3. r.arg = "callBack" => r.count < MaxRegs
    BY <1>4, <1>5 DEF RegOK
  <2> QED BY <2>2, <2>3 DEF RegOK
<1>7. ASSUME NEW n \in 1..MaxRegs
      PROVE  SinkOK(sink[p][n], IF n = r.count THEN "none" ELSE "none")
  <2>1. SinkOK(sink[p][n], "ended") \/ SinkOK(sink[p][n], "none")
    BY <1>5 DEF RefInv, ThreadOf
  <2>2. SinkOK(sink[p][n], "none")
    BY <2>1, ThreadMoves DEF HasRef, HasStub, Watches
  <2> QED BY <2>2
<1>8. "none" \in ThreadState
  BY DEF ThreadState
<1> HIDE DEF r
<1> QED BY <1>1, <1>2, <1>3, <1>6, <1>7, <1>8, RegStep, Zenon

LEMMA ResetPreserves ==
  ASSUME RefInv, NEW p \in Procs, Reset(p)
  PROVE  RefInv'
<1> DEFINE r == [reg[p] EXCEPT !.pc = "spawn"]
<1>1. /\ reg \in [Procs -> RegState] /\ reg[p] \in RegState /\ pThread[p] \in ThreadState
      /\ pThread \in [Procs -> ThreadState]
  BY DEF RefInv, Types
<1>2. reg' = [reg EXCEPT ![p] = r] /\ pThread' = pThread /\ sink' = sink /\ hEvent' = FALSE
  BY <1>1 DEF Reset
<1>3. r \in RegState /\ r.count = reg[p].count /\ r.pc = "spawn" /\ r.arg = reg[p].arg
  BY <1>1 DEF RegState
<1>4. RegOK(reg[p], pThread[p]) /\ reg[p].pc = "reset"
  BY DEF RefInv, Reset
<1>5. RegOK(r, pThread[p])
  BY <1>3, <1>4 DEF RegOK
<1>6. \A n \in 1..MaxRegs : SinkOK(sink[p][n], IF n = r.count THEN pThread[p] ELSE "none")
  BY <1>3 DEF RefInv, ThreadOf
<1>7. pThread' = [pThread EXCEPT ![p] = pThread[p]] /\ hEvent' \in BOOLEAN
  BY <1>1, <1>2
<1> HIDE DEF r
<1> QED BY <1>1, <1>2, <1>3, <1>5, <1>6, <1>7, RegStep, Zenon

LEMMA SpawnPreserves ==
  ASSUME RefInv, NEW p \in Procs, Spawn(p)
  PROVE  RefInv'
<1> DEFINE r == [reg[p] EXCEPT !.pc = "idle", !.count = reg[p].count + 1]
<1>1. /\ reg \in [Procs -> RegState] /\ reg[p] \in RegState /\ hEvent \in BOOLEAN
      /\ pThread[p] \in ThreadState
  BY DEF RefInv, Types
<1>2. /\ reg' = [reg EXCEPT ![p] = r] /\ pThread' = [pThread EXCEPT ![p] = "start"]
      /\ sink' = sink /\ hEvent' = hEvent
  BY <1>1 DEF Spawn
<1>3. RegOK(reg[p], pThread[p]) /\ reg[p].pc = "spawn"
  BY DEF RefInv, Spawn
<1>4. reg[p].count \in 0..MaxRegs /\ reg[p].count < MaxRegs /\ MaxRegs \in Nat
  <2>1. reg[p].count \in 0..MaxRegs
    BY <1>1 DEF RegState
  <2>2. reg[p].count < MaxRegs
    BY <1>3 DEF RegOK
  <2> QED BY <2>1, <2>2, NotifierAssumption
<1>5. reg[p].count + 1 \in 0..MaxRegs /\ reg[p].count + 1 > 0
  BY <1>4
<1>6. r \in RegState
  BY <1>1, <1>5 DEF RegState
<1>7. r.pc = "idle" /\ r.count = reg[p].count + 1 /\ r.arg = reg[p].arg
  BY <1>1 DEF RegState
<1>8. RegOK(r, "start")
  BY <1>5, <1>7 DEF RegOK
<1>9. pThread[p] \in {"none", "dead"}
  BY <1>3 DEF RegOK
<1>10. ASSUME NEW n \in 1..MaxRegs
       PROVE  SinkOK(sink[p][n], IF n = r.count THEN "start" ELSE "none")
  <2>1. SinkOK(sink[p][n], "dead") \/ SinkOK(sink[p][n], "none")
    BY <1>9 DEF RefInv, ThreadOf
  <2>2. SinkOK(sink[p][n], "none") /\ SinkOK(sink[p][n], "start")
    BY <2>1, ThreadMoves DEF HasRef, HasStub, Watches
  <2> QED BY <2>2
<1>11. "start" \in ThreadState
  BY DEF ThreadState
<1> HIDE DEF r
<1> QED BY <1>1, <1>2, <1>6, <1>8, <1>10, <1>11, RegStep, Zenon

LEMMA CrashPreserves ==
  ASSUME RefInv, NEW p \in Procs, Crash(p)
  PROVE  RefInv'
<1> DEFINE r == [reg[p] EXCEPT !.pc = "dead"]
           none == [n \in 1..MaxRegs |-> NoSink]
<1>1. /\ reg \in [Procs -> RegState] /\ reg[p] \in RegState /\ hEvent \in BOOLEAN
      /\ pThread \in [Procs -> ThreadState] /\ sink \in [Procs -> [1..MaxRegs -> SinkState]]
  BY DEF RefInv, Types
<1>2. /\ reg' = [reg EXCEPT ![p] = r] /\ pThread' = [pThread EXCEPT ![p] = "dead"]
      /\ sink' = [sink EXCEPT ![p] = none] /\ hEvent' = hEvent
  BY <1>1 DEF Crash
<1>3. r \in RegState /\ r.pc = "dead" /\ r.count = reg[p].count
  BY <1>1 DEF RegState
<1>4. none \in [1..MaxRegs -> SinkState]
  BY NoSinkOK
<1>5. Types'
  <2>1. reg' \in [Procs -> RegState]
    BY <1>1, <1>2, <1>3
  <2>2. sink' \in [Procs -> [1..MaxRegs -> SinkState]]
    BY <1>1, <1>2, <1>4
  <2>3. pThread' \in [Procs -> ThreadState]
    BY <1>1, <1>2 DEF ThreadState
  <2> QED BY <1>1, <1>2, <2>1, <2>2, <2>3 DEF Types
<1>6. ASSUME NEW q \in Procs
      PROVE  RegOK(reg[q], pThread[q])'
  <2>1. RegOK(reg[q], pThread[q])
    BY DEF RefInv
  <2>2. reg'[q] = IF q = p THEN r ELSE reg[q]
    BY <1>1, <1>2
  <2>3. pThread'[q] = IF q = p THEN "dead" ELSE pThread[q]
    BY <1>1, <1>2
  <2>4. RegOK(r, "dead")
    BY <1>3 DEF RegOK
  <2>5. RegOK(reg'[q], pThread'[q])
    BY <2>1, <2>2, <2>3, <2>4
  <2> QED BY <2>5
<1>7. ASSUME NEW q \in Procs, NEW m \in 1..MaxRegs
      PROVE  SinkOK(sink[q][m], ThreadOf(q, m))'
  <2>1. CASE q = p
    <3>1. sink'[q][m] = NoSink
      BY <1>1, <1>2, <2>1
    <3>2. ThreadOf(q, m)' \in {"none", "dead"}
      BY <1>1, <1>2, <2>1 DEF ThreadOf
    <3> QED BY <3>1, <3>2, NoSinkOK
  <2>2. CASE q # p
    <3>1. sink'[q] = sink[q] /\ reg'[q] = reg[q] /\ pThread'[q] = pThread[q]
      BY <1>1, <1>2, <2>2
    <3>2. SinkOK(sink[q][m], ThreadOf(q, m)) /\ ThreadOf(q, m)' = ThreadOf(q, m)
      BY <3>1 DEF RefInv, ThreadOf
    <3>3. SinkOK(sink'[q][m], ThreadOf(q, m)')
      BY <3>1, <3>2
    <3> QED BY <3>3
  <2> QED BY <2>1, <2>2
<1> QED BY <1>5, <1>6, <1>7 DEF RefInv

LEMMA RestartPreserves ==
  ASSUME RefInv, NEW p \in Procs, Restart(p)
  PROVE  RefInv'
<1> DEFINE r == [pc |-> "idle", arg |-> "NULL", count |-> 0]
<1>1. /\ reg' = [reg EXCEPT ![p] = r] /\ pThread' = [pThread EXCEPT ![p] = "none"]
      /\ sink' = sink /\ hEvent' \in BOOLEAN /\ pThread[p] \in ThreadState
  BY DEF Restart, RefInv, Types
<1>2. r \in RegState /\ r.count = 0
  BY NotifierAssumption DEF RegState
<1>3. RegOK(r, "none")
  BY DEF RegOK
<1>4. pThread[p] \in {"none", "dead"}
  BY DEF RefInv, RegOK, Restart
<1>5. ASSUME NEW n \in 1..MaxRegs
      PROVE  SinkOK(sink[p][n], IF n = r.count THEN "none" ELSE "none")
  <2>1. SinkOK(sink[p][n], "dead") \/ SinkOK(sink[p][n], "none")
    BY <1>4 DEF RefInv, ThreadOf
  <2>2. SinkOK(sink[p][n], "none")
    BY <2>1, ThreadMoves DEF HasRef, HasStub, Watches
  <2> QED BY <2>2
<1>6. "none" \in ThreadState
  BY DEF ThreadState
<1> HIDE DEF r
<1> QED BY <1>1, <1>2, <1>3, <1>5, <1>6, RegStep, Zenon
-----------------------------------------------------------------------------
\* The invariant holds at first.
LEMMA InitRef == Init => RefInv
<1> SUFFICES ASSUME Init PROVE RefInv
  OBVIOUS
<1> DEFINE r == [pc |-> "idle", arg |-> "NULL", count |-> 0]
<1>1. r \in RegState
  BY NotifierAssumption DEF RegState
<1>2. Types
  BY <1>1, NoSinkOK DEF Init, Types, ThreadState
<1>3. \A p \in Procs : reg[p] = r /\ pThread[p] = "none"
  BY DEF Init
<1>4. RegOK(r, "none")
  BY DEF RegOK
<1>5. \A p \in Procs, n \in 1..MaxRegs : sink[p][n] = NoSink /\ ThreadOf(p, n) = "none"
  BY <1>3 DEF Init, ThreadOf
<1> QED BY <1>2, <1>3, <1>4, <1>5, NoSinkOK DEF RefInv

\* Every step preserves it.
LEMMA NextRef == RefInv /\ [Next]_vars => RefInv'
<1> SUFFICES ASSUME RefInv, [Next]_vars PROVE RefInv'
  OBVIOUS
<1>1. CASE UNCHANGED vars
  <2>1. UNCHANGED <<hEvent, reg, pThread, sink>>
    BY <1>1 DEF vars
  <2> QED BY <2>1 DEF RefInv, Types, RegOK, SinkOK, ThreadOf
<1>2. CASE Next
  <2>1. PICK p \in Procs : \/ \E arg \in {"NULL", "callBack"} : Register(p, arg)
                           \/ RegisterRuns(p) \/ MonitorRuns(p) \/ Restart(p)
                           \/ \E n \in 1..MaxRegs : ComRuns(p, n)
    BY <1>2, Zenon DEF Next
  <2>2. RegisterRuns(p) => RefInv'
    BY SignalPreserves, JoinPreserves, ResetPreserves, SpawnPreserves DEF RegisterRuns
  <2>3. MonitorRuns(p) => RefInv'
    BY MonitorPreserves, CrashPreserves
  <2> QED BY <2>1, <2>2, <2>3, RegisterPreserves, RestartPreserves, ComPreserves
<1> QED BY <1>1, <1>2

LEMMA RefAlways == Spec => []RefInv
<1> QED BY InitRef, NextRef, PTL DEF Spec

\* Every variable keeps its type, whatever fails and in whatever order a sink is
\* let go of: the reference count of EventSink stays between 0 and 2.
THEOREM TypeCorrect == Spec => []TypeOK
<1>1. RefInv => TypeOK
  BY DEF RefInv, Types, TypeOK, RegState, ThreadState, SinkState
<1> QED BY <1>1, RefAlways, PTL

\* A callback that Register has replaced or removed has no subscription left,
\* unless its own CancelAsyncCall failed: for any faults of it and of others.
THEOREM OnlyNewest == Spec => []OnlyNewestSubscribed
<1>1. RefInv => OnlyNewestSubscribed
  BY DEF RefInv, OnlyNewestSubscribed, SinkOK, ThreadOf, Watches
<1> QED BY <1>1, RefAlways, PTL

\* When CancelAsyncCall works, a callback that Register has replaced or removed
\* has no subscription left, for any other faults.
THEOREM NoneLeft ==
  ASSUME "cancel" \notin Faults
  PROVE  Spec => [](\A p \in Procs, n \in 1..MaxRegs : sink[p][n].subscribed =>
                      n = reg[p].count /\ pThread[p] \in {"wait", "waiting", "cancel"})
<1> DEFINE Newest == \A p \in Procs, n \in 1..MaxRegs : sink[p][n].subscribed =>
                       n = reg[p].count /\ pThread[p] \in {"wait", "waiting", "cancel"}
<1>1. RefInv => Newest
  BY DEF RefInv, SinkOK, ThreadOf, Watches
<1> QED BY <1>1, RefAlways, PTL

\* WMI never calls a sink that has deleted itself in EventSink::Release.
THEOREM CallsSafe == Spec => []SinkOutlivesCalls
<1>1. RefInv => SinkOutlivesCalls
  <2> SUFFICES ASSUME RefInv, NEW p \in Procs, NEW n \in 1..MaxRegs,
                      "WMI" \in sink[p][n].holders \/ sink[p][n].call # "none"
               PROVE  sink[p][n].state = "alive"
    BY DEF SinkOutlivesCalls
  <2>1. sink[p][n] \in SinkState /\ SinkOK(sink[p][n], ThreadOf(p, n))
    BY DEF RefInv, Types
  <2>2. sink[p][n].stub
    BY <2>1 DEF SinkOK
  <2> QED BY <2>1, <2>2, HeldAlive
<1> QED BY <1>1, RefAlways, PTL
-----------------------------------------------------------------------------
(***************************************************************************)
(* The event and one process: it is signaled, with a thread that is still  *)
(* to see it, only while Register waits for that thread.                   *)
(***************************************************************************)
Stopping == {"cancel", "relStubUnk", "relSink", "relStubSink", "ended"}

StopOK(p) ==
  /\ pThread[p] \in Stopping => reg[p].pc = "join"
  /\ hEvent /\ pThread[p] \in {"start", "query", "wait", "waiting"} => reg[p].pc = "join"
  /\ reg[p].pc = "spawn" => ~hEvent

\* A step of Register preserves it.
LEMMA RegisterStops ==
  ASSUME TypeOK, NEW p \in Procs, StopOK(p),
         RegisterRuns(p) \/ \E arg \in {"NULL", "callBack"} : Register(p, arg)
  PROVE  StopOK(p)'
<1>1. reg[p] \in [pc : {"idle", "signal", "join", "reset", "spawn", "dead"},
                  arg : {"NULL", "callBack"}, count : 0..MaxRegs]
  BY DEF TypeOK
<1>2. ASSUME NEW arg \in {"NULL", "callBack"}, Register(p, arg) PROVE StopOK(p)'
  <2>1. reg[p].pc = "idle" /\ pThread' = pThread /\ hEvent' = hEvent
    BY <1>2 DEF Register
  <2>2. reg'[p].pc # "spawn"
    BY <1>1, <1>2 DEF Register, AfterClose, TypeOK
  <2> QED BY <2>1, <2>2 DEF StopOK, Stopping
<1>3. CASE Signal(p)
  <2>1. reg'[p].pc = "join"
    BY <1>1, <1>3 DEF Signal, TypeOK
  <2> QED BY <2>1 DEF StopOK
<1>4. CASE Join(p)
  <2>1. pThread'[p] = "none" /\ reg'[p].pc # "spawn"
    BY <1>1, <1>4 DEF Join, AfterClose, TypeOK
  <2> QED BY <2>1 DEF StopOK, Stopping
<1>5. CASE Reset(p)
  <2>1. reg[p].pc = "reset" /\ hEvent' = FALSE /\ pThread' = pThread
    BY <1>5 DEF Reset
  <2> QED BY <2>1 DEF StopOK
<1>6. CASE Spawn(p)
  <2>1. reg[p].pc = "spawn" /\ hEvent' = hEvent
    BY <1>6 DEF Spawn
  <2>2. pThread'[p] = "start" /\ reg'[p].pc = "idle"
    BY <1>1, <1>6 DEF Spawn, TypeOK
  <2> QED BY <2>1, <2>2 DEF StopOK, Stopping
<1> QED BY <1>2, <1>3, <1>4, <1>5, <1>6 DEF RegisterRuns

\* So does a step of the thread, when COM does not fail and the event can be opened.
LEMMA MonitorStops ==
  ASSUME TypeOK, NEW p \in Procs, StopOK(p), MonitorRuns(p),
         "com" \notin Faults, "event" \notin Faults
  PROVE  StopOK(p)'
<1>1. ASSUME NEW from, NEW to, NEW s, Monitor(p, from, to, s)
      PROVE  /\ pThread[p] = from /\ pThread'[p] = to /\ hEvent' = hEvent /\ reg' = reg
  BY <1>1 DEF Monitor, TypeOK
<1>2. CASE Crash(p)
  <2>1. pThread'[p] = "dead" /\ reg'[p].pc = "dead"
    BY <1>2 DEF Crash, TypeOK
  <2> QED BY <2>1 DEF StopOK, Stopping
<1>3. CASE CreateSink(p) \/ Subscribe(p)
  <2>1. /\ pThread[p] \in {"start", "query"} /\ pThread'[p] \in {"query", "wait"}
        /\ hEvent' = hEvent /\ reg' = reg
    BY <1>1, <1>3 DEF CreateSink, Subscribe
  <2> QED BY <2>1 DEF StopOK, Stopping
<1>4. CASE Wait(p)
  <2>1. /\ pThread[p] = "wait" /\ pThread'[p] = IF hEvent THEN "cancel" ELSE "waiting"
        /\ hEvent' = hEvent /\ reg' = reg
    BY <1>1, <1>4 DEF Wait
  <2> QED BY <2>1 DEF StopOK, Stopping
<1>5. CASE Cancel(p) \/ ReleaseStubUnk(p) \/ ReleaseSink(p) \/ ReleaseStubSink(p)
  <2>1. /\ pThread[p] \in Stopping /\ hEvent' = hEvent /\ reg' = reg
    BY <1>1, <1>5 DEF Cancel, ReleaseStubUnk, ReleaseSink, ReleaseStubSink, Stopping
  <2> QED BY <2>1 DEF StopOK
<1> QED BY <1>2, <1>3, <1>4, <1>5 DEF MonitorRuns, MonitorFails

\* A monitor thread stops only when Register of its own process asks for it, if
\* no other process uses the event, its thread can open it and COM does not fail.
THEOREM StopsWhenAsked ==
  ASSUME \A p, q \in Procs : p = q, "com" \notin Faults, "event" \notin Faults
  PROVE  Spec => []StopsOnlyWhenAsked
<1> DEFINE Inv == \A p \in Procs : StopOK(p)
<1>1. Init => Inv
  BY DEF Init, StopOK, Stopping
<1>2. TypeOK /\ Inv /\ [Next]_vars => Inv'
  <2> SUFFICES ASSUME TypeOK, Inv, [Next]_vars, NEW p \in Procs PROVE StopOK(p)'
    OBVIOUS
  <2>1. StopOK(p)
    OBVIOUS
  <2>2. CASE UNCHANGED vars
    BY <2>1, <2>2 DEF vars, StopOK
  <2>3. CASE Next
    <3>1. \/ \E arg \in {"NULL", "callBack"} : Register(p, arg)
          \/ RegisterRuns(p) \/ MonitorRuns(p) \/ Restart(p)
          \/ \E n \in 1..MaxRegs : ComRuns(p, n)
      BY <2>3, Zenon DEF Next
    <3>2. CASE Restart(p)
      <4>1. pThread'[p] = "none" /\ reg'[p].pc = "idle"
        BY <3>2 DEF Restart, TypeOK
      <4> QED BY <4>1 DEF StopOK, Stopping
    <3>3. CASE \E n \in 1..MaxRegs : ComRuns(p, n)
      <4>1. UNCHANGED <<hEvent, reg, pThread>>
        BY <3>3 DEF ComRuns, Sink, IndicateBegins, CallBack, CallBackReturns,
                    IndicateReturns, WmiLetsGo, StubGoes
      <4> QED BY <2>1, <4>1 DEF StopOK
    <3> QED BY <2>1, <3>1, <3>2, <3>3, RegisterStops, MonitorStops
  <2> QED BY <2>2, <2>3
<1>3. Inv => StopsOnlyWhenAsked
  BY DEF StopOK, Stopping, StopsOnlyWhenAsked
<1> QED BY <1>1, <1>2, <1>3, TypeCorrect, PTL DEF Spec
-----------------------------------------------------------------------------
(***************************************************************************)
(* The thread that Register is about to stop, or waits for.                *)
(***************************************************************************)
SeenOK(p) ==
  /\ pThread[p] = "dead" => reg[p].pc = "dead"
  /\ reg[p].pc \in {"signal", "join"} => pThread[p] \notin {"none", "dead"}
  /\ reg[p].pc = "join" => pThread[p] # "waiting"
  /\ reg[p].pc = "join" /\ pThread[p] \in {"start", "query", "wait"} => hEvent

\* A step of Register preserves it.
LEMMA RegisterSeen ==
  ASSUME RefInv, NEW p \in Procs, SeenOK(p),
         RegisterRuns(p) \/ \E arg \in {"NULL", "callBack"} : Register(p, arg)
  PROVE  SeenOK(p)'
<1>1. reg \in [Procs -> RegState] /\ pThread \in [Procs -> ThreadState]
  BY DEF RefInv, Types
<1>2. reg[p] \in RegState
  BY <1>1
<1>3. ASSUME NEW arg \in {"NULL", "callBack"}, Register(p, arg) PROVE SeenOK(p)'
  <2>1. reg[p].pc = "idle" /\ pThread' = pThread /\ hEvent' = hEvent
    BY <1>3 DEF Register
  <2>2. reg'[p].pc = IF pThread[p] # "none" THEN "signal" ELSE AfterClose(arg)
    BY <1>1, <1>3 DEF Register, RegState
  <2>3. pThread[p] # "dead"
    BY <2>1 DEF SeenOK
  <2> QED BY <2>1, <2>2, <2>3 DEF SeenOK, AfterClose
<1>4. CASE Signal(p)
  <2>1. reg[p].pc = "signal" /\ hEvent' = TRUE
    BY <1>4 DEF Signal
  <2>2. pThread'[p] = IF pThread[p] = "waiting" THEN "cancel" ELSE pThread[p]
    BY <1>4 DEF Signal, Woken
  <2> QED BY <2>1, <2>2 DEF SeenOK
<1>5. CASE Join(p)
  <2>1. reg'[p].pc \in {"idle", "reset"} /\ pThread'[p] = "none"
    BY <1>1, <1>5 DEF Join, AfterClose, RegState
  <2> QED BY <2>1 DEF SeenOK
<1>6. CASE Reset(p)
  <2>1. reg[p].pc = "reset" /\ reg'[p].pc = "spawn" /\ pThread' = pThread
    BY <1>1, <1>6 DEF Reset, RegState
  <2> QED BY <2>1 DEF SeenOK
<1>7. CASE Spawn(p)
  <2>1. reg'[p].pc = "idle" /\ pThread'[p] = "start"
    BY <1>1, <1>7 DEF Spawn, RegState
  <2> QED BY <2>1 DEF SeenOK
<1> QED BY <1>3, <1>4, <1>5, <1>6, <1>7 DEF RegisterRuns

\* So does a step of the thread: one that finds the event signaled does not
\* sleep, and one that ends goes past it.
LEMMA MonitorSeen ==
  ASSUME RefInv, NEW p \in Procs, SeenOK(p), MonitorRuns(p)
  PROVE  SeenOK(p)'
<1>1. reg \in [Procs -> RegState] /\ pThread \in [Procs -> ThreadState]
  BY DEF RefInv, Types
<1>2. ASSUME NEW from, NEW to, NEW s, Monitor(p, from, to, s)
      PROVE  /\ pThread[p] = from /\ pThread'[p] = to /\ hEvent' = hEvent /\ reg' = reg
  BY <1>1, <1>2 DEF Monitor
<1>3. CASE Crash(p)
  <2>1. reg'[p].pc = "dead"
    BY <1>1, <1>3 DEF Crash, RegState
  <2> QED BY <2>1 DEF SeenOK
<1>4. CASE CreateSink(p) \/ Subscribe(p)
  <2>1. /\ pThread[p] \in {"start", "query"}
        /\ pThread'[p] \in {"query", "wait", "relStubUnk"}
        /\ hEvent' = hEvent /\ reg' = reg
    BY <1>2, <1>4 DEF CreateSink, Subscribe
  <2> QED BY <2>1 DEF SeenOK
<1>5. CASE Wait(p)
  <2>1. /\ pThread[p] = "wait"
        /\ pThread'[p] = "cancel" \/ (~hEvent /\ pThread'[p] = "waiting")
        /\ hEvent' = hEvent /\ reg' = reg
    BY <1>2, <1>5 DEF Wait
  <2> QED BY <2>1 DEF SeenOK
<1>6. CASE \/ MonitorFails(p) \/ Cancel(p)
           \/ ReleaseStubUnk(p) \/ ReleaseSink(p) \/ ReleaseStubSink(p)
  <2>1. /\ pThread'[p] \in {"ended", "relStubUnk", "relSink", "relStubSink"}
        /\ hEvent' = hEvent /\ reg' = reg
    BY <1>2, <1>6 DEF MonitorFails, Cancel, ReleaseStubUnk, ReleaseSink, ReleaseStubSink
  <2> QED BY <2>1 DEF SeenOK
<1> QED BY <1>3, <1>4, <1>5, <1>6 DEF MonitorRuns

\* Register does not wait for a thread that sleeps or is going to, if no other
\* process uses the event, whatever fails: SetEvent is not lost when it comes
\* before WaitForSingleObject.
THEOREM StopSeen ==
  ASSUME \A p, q \in Procs : p = q
  PROVE  Spec => []StopIsSeen
<1> DEFINE Inv == \A p \in Procs : SeenOK(p)
<1>1. Init => Inv
  <2> SUFFICES ASSUME Init, NEW p \in Procs PROVE SeenOK(p)
    OBVIOUS
  <2>1. reg[p].pc = "idle" /\ pThread[p] = "none"
    BY DEF Init
  <2> QED BY <2>1 DEF SeenOK
<1>2. RefInv /\ Inv /\ [Next]_vars => Inv'
  <2> SUFFICES ASSUME RefInv, Inv, [Next]_vars, NEW p \in Procs PROVE SeenOK(p)'
    OBVIOUS
  <2>1. SeenOK(p)
    OBVIOUS
  <2>2. CASE UNCHANGED vars
    BY <2>1, <2>2 DEF vars, SeenOK
  <2>3. CASE Next
    <3>1. \/ \E arg \in {"NULL", "callBack"} : Register(p, arg)
          \/ RegisterRuns(p) \/ MonitorRuns(p) \/ Restart(p)
          \/ \E n \in 1..MaxRegs : ComRuns(p, n)
      BY <2>3, Zenon DEF Next
    <3>2. CASE Restart(p)
      <4>1. reg'[p].pc = "idle" /\ pThread'[p] = "none"
        BY <3>2 DEF Restart, RefInv, Types
      <4> QED BY <4>1 DEF SeenOK
    <3>3. CASE \E n \in 1..MaxRegs : ComRuns(p, n)
      <4>1. UNCHANGED <<hEvent, reg, pThread>>
        BY <3>3 DEF ComRuns, Sink, IndicateBegins, CallBack, CallBackReturns,
                    IndicateReturns, WmiLetsGo, StubGoes
      <4> QED BY <2>1, <4>1 DEF SeenOK
    <3> QED BY <2>1, <3>1, <3>2, <3>3, RegisterSeen, MonitorSeen
  <2> QED BY <2>2, <2>3
<1>3. Inv => StopIsSeen
  BY DEF SeenOK, StopIsSeen
<1> QED BY <1>1, <1>2, <1>3, RefAlways, PTL DEF Spec
=============================================================================

---------------------------- MODULE EcLog_proofs ----------------------------
(***************************************************************************)
(* Proofs about EcLog, for any number of clients, any counts and any poll  *)
(* bound.                                                                  *)
(***************************************************************************)
EXTENDS EcLog, TLAPS

(***************************************************************************)
(* What a client's own variables satisfy whatever the mailbox does.  The   *)
(* length of the vector says where in the page loop the call is.           *)
(***************************************************************************)
Before(r) == r.vec = <<>> /\ r.idx = 1
InPages(r) == r.n \in 1..16 /\ r.idx <= r.n

Sending(r) ==
  r.pc \in {"param", "cmd"} =>
    /\ r.out \in {"COUNT_REQ", "ERROR_ACK"} => Before(r)
    /\ r.out = "COUNT_DONE" => Before(r) /\ r.n # -1
    /\ r.out = "PAGE_REQ" => InPages(r) /\ Len(r.vec) = r.idx - 1
    /\ r.out = "PAGE_DONE" => InPages(r) /\ Len(r.vec) = r.idx
    /\ r.out = "ALL_DONE" => InPages(r) /\ Len(r.vec) = r.idx /\ r.idx = r.n

Waiting(r) ==
  /\ r.pc \in {"idle0", "count", "error"} => Before(r)
  /\ r.pc = "counted" => Before(r) /\ r.n # -1
  /\ r.pc = "idle1" => Before(r) /\ InPages(r)
  /\ r.pc \in {"page", "fetch"} =>
       r.out = "PAGE_REQ" /\ InPages(r) /\ Len(r.vec) = r.idx - 1
  /\ r.pc = "judge" => InPages(r) /\ Len(r.vec) \in {r.idx - 1, r.idx}
  /\ r.pc = "released" => r.out = "PAGE_DONE" /\ InPages(r) /\ Len(r.vec) = r.idx
  /\ r.pc = "idle2" => InPages(r) /\ Len(r.vec) = r.idx /\ r.idx < r.n
  /\ r.pc = "idle3" =>
       r.out = "ALL_DONE" /\ InPages(r) /\ Len(r.vec) = r.idx /\ r.idx = r.n

Good(r) ==
  /\ r \in ClientState
  /\ r.pc # "off" => r.op \in Ops /\ r.status = "EC_FAILED"
  /\ r.status = "EC_SUCCESS" => r.n \in 1..16 /\ Len(r.vec) = r.n
  /\ Sending(r)
  /\ Waiting(r)

EnvOK ==
  /\ mbox \in [cmd : Commands, param : 0..255]
  /\ window \in Nat
  /\ job \in [cmd : HostCommands \cup {"IDLE"}, arg : 0..255]
  /\ recorded \in 0..255
  /\ told \in BOOLEAN

\* The inductive invariant behind TypeOK, SuccessHasEveryPage and ReleasedPageHeld.
LocalInv ==
  /\ EnvOK
  /\ cl \in [Clients -> ClientState]
  /\ \A c \in Clients : Good(cl[c])
-----------------------------------------------------------------------------
\* A step that replaces one client's record by a good one, and leaves the rest
\* well typed, preserves the invariant.
LEMMA Stepped ==
  ASSUME LocalInv, NEW c \in Clients, NEW r, Good(r), Step(c, r), EnvOK'
  PROVE  LocalInv'
  BY DEF LocalInv, Step, Good

\* The types of the fields that say how far a call is.
LEMMA FieldTypes ==
  ASSUME NEW r \in ClientState
  PROVE  /\ r.op \in Ops \cup {"none"} /\ r.cnt \in Nat /\ r.n \in Int /\ r.n \in -1..255
         /\ r.idx \in Nat /\ r.idx \in 1..16 /\ r.vec \in Seq(Nat) /\ Len(r.vec) \in Nat
         /\ r.retried \in BOOLEAN
<1>1. r.op \in Ops \cup {"none"} /\ r.vec \in Seq(Nat) /\ r.retried \in BOOLEAN
  BY DEF ClientState
<1>2. r.cnt \in 0..MAX_CHECK_COUNT-1 /\ r.n \in -1..255 /\ r.idx \in 1..16
  BY DEF ClientState
<1>3. r.cnt \in Nat /\ r.n \in Int /\ r.idx \in Nat
  BY <1>2, EcLogAssumption
<1>4. Len(r.vec) \in Nat
  BY <1>1
<1> QED BY <1>1, <1>2, <1>3, <1>4

Same(t, r) ==
  /\ t.op = r.op /\ t.n = r.n /\ t.idx = r.idx /\ t.vec = r.vec
  /\ t.out = r.out /\ t.status = r.status

\* Moving on to another stage changes nothing else.
LEMMA PcSet ==
  ASSUME NEW r \in ClientState, NEW pc \in PCs
  PROVE  /\ [r EXCEPT !.pc = pc] \in ClientState
         /\ [r EXCEPT !.pc = pc].pc = pc
         /\ Same([r EXCEPT !.pc = pc], r)
<1>1. [r EXCEPT !.pc = pc] \in ClientState
  BY Zenon DEF ClientState
<1>2. [r EXCEPT !.pc = pc].pc = pc
  BY DEF ClientState
<1>3. Same([r EXCEPT !.pc = pc], r)
  BY DEF ClientState, Same
<1> QED BY <1>1, <1>2, <1>3

\* Leaving a call, with its status unchanged.
LEMMA LeaveGood ==
  ASSUME NEW r, Good(r)
  PROVE  Good(Leave(r))
<1>1. r \in ClientState /\ "off" \in PCs
  BY DEF Good, PCs
<1>2. Leave(r) \in ClientState /\ Leave(r).pc = "off" /\ Same(Leave(r), r)
  BY <1>1, PcSet DEF Leave
<1> QED BY <1>2 DEF Good, Sending, Waiting, Same

\* Leaving a call with a status other than success, or with every page.
LEMMA LeaveWithGood ==
  ASSUME NEW r \in ClientState, NEW s \in EC_LOG_STATE,
         s = "EC_SUCCESS" => r.n \in 1..16 /\ Len(r.vec) = r.n
  PROVE  Good(LeaveWith(r, s))
<1>1. LeaveWith(r, s) \in ClientState
  <2>1. "off" \in PCs
    BY DEF PCs
  <2> QED BY <2>1, Zenon DEF LeaveWith, ClientState
<1>2. /\ LeaveWith(r, s).pc = "off" /\ LeaveWith(r, s).n = r.n
      /\ LeaveWith(r, s).vec = r.vec /\ LeaveWith(r, s).status = s
  BY DEF LeaveWith, ClientState
<1> QED BY <1>1, <1>2 DEF Good, Sending, Waiting

\* The record of a call that starts.
LEMMA EnteredIs ==
  ASSUME NEW op \in Ops \cup {"none"}
  PROVE  Entered(op) \in ClientState /\ Entered(op).pc = "idle0"
<1>1. "idle0" \in PCs /\ "EC_FAILED" \in EC_LOG_STATE /\ "COUNT_REQ" \in Signals
  BY DEF PCs, EC_LOG_STATE, Signals, HostCommands
<1>2. 0 \in 0..MAX_CHECK_COUNT-1 /\ -1 \in -1..255 /\ 1 \in 1..16
  BY EcLogAssumption
<1> QED BY <1>1, <1>2 DEF Entered, ClientState

\* Entering a call, or failing to open the device.
LEMMA EnteredGood ==
  ASSUME NEW op \in Ops \cup {"none"}
  PROVE  /\ op \in Ops => Good(Entered(op))
         /\ Good(LeaveWith(Entered(op), "EC_CREATE_FILE_FAILED"))
         /\ Good(Leave(Entered(op)))
<1> DEFINE e == Entered(op)
<1>1. e \in ClientState
  BY EnteredIs
<1>2. e.op = op /\ e.pc = "idle0" /\ e.status = "EC_FAILED" /\ Before(e)
  BY DEF Entered, Before
<1>3. op \in Ops => Good(e)
  BY <1>1, <1>2 DEF Good, Sending, Waiting
<1>4. Good(LeaveWith(e, "EC_CREATE_FILE_FAILED"))
  BY <1>1, LeaveWithGood DEF EC_LOG_STATE
<1>5. Leave(e) \in ClientState /\ Leave(e).pc = "off" /\ Same(Leave(e), e)
  BY <1>1, PcSet DEF Leave, PCs
<1>6. Good(Leave(e))
  BY <1>2, <1>5 DEF Good, Sending, Waiting, Same
<1> QED BY <1>3, <1>4, <1>6

\* Another turn of a poll loop leaves everything but the counter alone.
LEMMA AgainGood ==
  ASSUME NEW r, Good(r), NEW last, Good(last)
  PROVE  Good(Again(r, last))
<1>1. r \in ClientState
  BY DEF Good
<1> DEFINE t == [r EXCEPT !.cnt = @ + 1]
<1>2. ASSUME r.cnt + 1 < MAX_CHECK_COUNT
      PROVE  /\ t \in ClientState
             /\ t.pc = r.pc /\ t.op = r.op /\ t.n = r.n /\ t.idx = r.idx
             /\ t.out = r.out /\ t.vec = r.vec /\ t.status = r.status
  <2>1. r.cnt + 1 \in 0..MAX_CHECK_COUNT-1
    BY <1>1, <1>2, FieldTypes, EcLogAssumption
  <2>2. t \in ClientState
    BY <1>1, <2>1, Zenon DEF ClientState
  <2>3. /\ t.pc = r.pc /\ t.op = r.op /\ t.n = r.n /\ t.idx = r.idx
        /\ t.out = r.out /\ t.vec = r.vec /\ t.status = r.status
    BY <1>1 DEF ClientState
  <2> QED BY <2>2, <2>3
<1>3. ASSUME r.cnt + 1 < MAX_CHECK_COUNT
      PROVE  Good(t)
  BY <1>2, <1>3 DEF Good, Sending, Waiting, Before, InPages
<1> QED BY <1>3 DEF Again

\* A signal may be sent in the stage of the call that it belongs to.
LEMMA SendGood ==
  ASSUME NEW r \in ClientState, r.op \in Ops, r.status = "EC_FAILED",
         NEW s \in Signals,
         s \in {"COUNT_REQ", "ERROR_ACK"} => Before(r),
         s = "COUNT_DONE" => Before(r) /\ r.n # -1,
         s = "PAGE_REQ" => InPages(r) /\ Len(r.vec) = r.idx - 1,
         s = "PAGE_DONE" => InPages(r) /\ Len(r.vec) = r.idx,
         s = "ALL_DONE" => InPages(r) /\ Len(r.vec) = r.idx /\ r.idx = r.n
  PROVE  Good(Send(r, s))
<1> DEFINE t == Send(r, s)
<1>1. /\ t \in ClientState
      /\ t.pc = "param" /\ t.out = s /\ t.op = r.op /\ t.n = r.n
      /\ t.idx = r.idx /\ t.vec = r.vec /\ t.status = r.status
  <2>1. "param" \in PCs
    BY DEF PCs
  <2>2. t \in ClientState
    BY <2>1, Zenon DEF Send, ClientState
  <2>3. t.pc = "param" /\ t.out = s
    BY DEF Send, ClientState
  <2>4. t.op = r.op /\ t.n = r.n /\ t.idx = r.idx /\ t.vec = r.vec /\ t.status = r.status
    BY DEF Send, ClientState
  <2> QED BY <2>2, <2>3, <2>4
<1>2. Sending(t)
  BY <1>1 DEF Sending, Before, InPages
<1>3. Waiting(t)
  BY <1>1 DEF Waiting
<1> QED BY <1>1, <1>2, <1>3 DEF Good

\* The count is taken and acknowledged.
LEMMA CountedGood ==
  ASSUME NEW r, Good(r), r.pc = "count", NEW n \in 0..255
  PROVE  Good(Counted(r, n))
<1> DEFINE t == [r EXCEPT !.n = n]
<1>1. r \in ClientState /\ Before(r) /\ r.op \in Ops /\ r.status = "EC_FAILED"
  BY DEF Good, Waiting
<1>2. t \in ClientState
  <2>1. n \in -1..255
    OBVIOUS
  <2> QED BY <1>1, <2>1, Zenon DEF ClientState
<1>3. /\ t.op = r.op /\ t.status = r.status /\ t.n = n
      /\ t.vec = r.vec /\ t.idx = r.idx
  BY <1>1 DEF ClientState
<1>4. Before(t)
  BY <1>1, <1>3 DEF Before
<1>5. t.n # -1
  BY <1>3
<1> QED BY <1>1, <1>2, <1>3, <1>4, <1>5, SendGood DEF Counted, Signals, HostCommands

\* The call goes on to the pages only when there are between 1 and 16.
LEMMA DecidedGood ==
  ASSUME NEW r, Good(r), r.pc = "counted"
  PROVE  Good(Decided(r))
<1>1. r \in ClientState /\ Before(r) /\ r.op \in Ops /\ r.n # -1 /\ r.status = "EC_FAILED"
  BY DEF Good, Waiting
<1>2. Good(Leave(r))
  BY LeaveGood
<1>3. Good(LeaveWith(r, "EC_NEED_NOT_READ"))
  BY <1>1, LeaveWithGood DEF EC_LOG_STATE
<1>4. ASSUME r.op # "GetECLogPageCount", ~NeedNotRead(r)
      PROVE  Good([r EXCEPT !.pc = "idle1"])
  <2> DEFINE t == [r EXCEPT !.pc = "idle1"]
  <2>1. t \in ClientState /\ t.pc = "idle1" /\ Same(t, r)
    BY <1>1, PcSet DEF PCs
  <2>3. r.n \in 1..16
    <3>1. r.n \in -1..255 /\ r.op \in {"GetECLog", "GetECLogPassive"}
      BY <1>1, <1>4, FieldTypes DEF Ops
    <3>2. r.n <= 16 /\ r.n >= 1
      BY <1>4, <3>1 DEF NeedNotRead
    <3> QED BY <3>1, <3>2
  <2> QED BY <1>1, <2>1, <2>3 DEF Good, Same, Sending, Waiting, Before, InPages
<1> QED BY <1>2, <1>3, <1>4 DEF Decided

\* The window is read, or the read fails.
LEMMA FetchedGood ==
  ASSUME NEW r, Good(r), r.pc = "fetch", NEW ok, NEW page \in Nat
  PROVE  Good(Fetched(r, ok, page))
<1> DEFINE v == IF ok THEN Append(r.vec, page) ELSE r.vec
           t == [r EXCEPT !.pc = "judge", !.vec = v]
<1>1. /\ r \in ClientState /\ InPages(r) /\ Len(r.vec) = r.idx - 1
      /\ r.op \in Ops /\ r.status = "EC_FAILED"
  BY DEF Good, Waiting
<1>2. r.vec \in Seq(Nat) /\ r.idx \in Nat
  BY <1>1, FieldTypes
<1>3. v \in Seq(Nat) /\ Len(v) \in {r.idx - 1, r.idx}
  <2>1. Append(r.vec, page) \in Seq(Nat) /\ Len(Append(r.vec, page)) = Len(r.vec) + 1
    BY <1>2
  <2> QED BY <1>1, <1>2, <2>1
<1>4. t \in ClientState
  <2>1. "judge" \in PCs
    BY DEF PCs
  <2>2. \A w \in Seq(Nat) : [r EXCEPT !.pc = "judge", !.vec = w] \in ClientState
    BY <1>1, <2>1, Zenon DEF ClientState
  <2> QED BY <1>3, <2>2
<1>5. /\ t.pc = "judge" /\ t.n = r.n /\ t.vec = v /\ t.idx = r.idx
      /\ t.op = r.op /\ t.status = r.status
  BY <1>1 DEF ClientState
<1>6. Good(t)
  BY <1>1, <1>3, <1>4, <1>5 DEF Good, Sending, Waiting, InPages
<1>7. Fetched(r, ok, page) = t
  BY DEF Fetched
<1> QED BY <1>6, <1>7

\* A length that is a page index or one less.
LEMMA OneOff ==
  ASSUME NEW len \in Int, NEW idx \in Int, len \in {idx - 1, idx}
  PROVE  IF len >= idx THEN len = idx ELSE len = idx - 1
  OBVIOUS

\* The page is released, asked for again, or everything is given up.
LEMMA JudgedGood ==
  ASSUME NEW r, Good(r), r.pc = "judge"
  PROVE  Good(Judged(r))
<1>1. /\ r \in ClientState /\ InPages(r) /\ Len(r.vec) \in {r.idx - 1, r.idx}
      /\ r.op \in Ops /\ r.status = "EC_FAILED"
  BY DEF Good, Waiting
<1>2. r.idx \in Int /\ Len(r.vec) \in Int
  <2>1. r.idx \in Nat /\ Len(r.vec) \in Nat
    BY <1>1, FieldTypes
  <2> QED BY <2>1
<1>3. IF Len(r.vec) >= r.idx THEN Len(r.vec) = r.idx ELSE Len(r.vec) = r.idx - 1
  BY <1>1, <1>2, OneOff, Zenon
<1>4. {"PAGE_DONE", "PAGE_REQ"} \subseteq Signals
  BY DEF Signals, HostCommands
<1>5. CASE Len(r.vec) >= r.idx
  <2>1. Good(Send(r, "PAGE_DONE"))
    BY <1>1, <1>3, <1>4, <1>5, SendGood, Zenon
  <2> QED BY <1>5, <2>1, Zenon DEF Judged
<1>6. CASE ~(Len(r.vec) >= r.idx) /\ ~r.retried
  <2> DEFINE t == [r EXCEPT !.retried = TRUE]
  <2>1. t \in ClientState
    BY <1>1, Zenon DEF ClientState
  <2>2. /\ t.n = r.n /\ t.vec = r.vec /\ t.idx = r.idx
        /\ t.op = r.op /\ t.status = r.status
    BY <1>1 DEF ClientState
  <2>3. t.op \in Ops /\ t.status = "EC_FAILED" /\ InPages(t) /\ Len(t.vec) = t.idx - 1
    BY <1>1, <1>3, <1>6, <2>2, Zenon DEF InPages
  <2> HIDE DEF t
  <2>4. Good(Send(t, "PAGE_REQ"))
    BY <1>4, <2>1, <2>3, SendGood, Zenon
  <2> QED BY <1>6, <2>4, Zenon DEF Judged, t
<1>7. CASE ~(Len(r.vec) >= r.idx) /\ r.retried
  <2>1. [r EXCEPT !.vec = <<>>] \in ClientState
    <3>1. <<>> \in Seq(Nat)
      OBVIOUS
    <3> QED BY <1>1, <3>1, Zenon DEF ClientState
  <2>2. "EC_FAILED" \in EC_LOG_STATE /\ "EC_FAILED" # "EC_SUCCESS"
    BY DEF EC_LOG_STATE
  <2>3. Good(LeaveWith([r EXCEPT !.vec = <<>>], "EC_FAILED"))
    BY <2>1, <2>2, LeaveWithGood, Zenon
  <2> QED BY <1>7, <2>3, Zenon DEF Judged
<1>8. r.retried \in BOOLEAN
  BY <1>1, FieldTypes
<1> QED BY <1>5, <1>6, <1>7, <1>8

\* After a release the call waits for the next page, or tells the EC that all is read.
LEMMA ReleasedGood ==
  ASSUME NEW r, Good(r), r.pc = "released"
  PROVE  Good(Released(r))
<1>1. /\ r \in ClientState /\ InPages(r) /\ Len(r.vec) = r.idx
      /\ r.op \in Ops /\ r.status = "EC_FAILED" /\ r.idx \in 1..16
      /\ r.n \in Int /\ Len(r.vec) \in Nat
  BY FieldTypes DEF Good, Waiting
<1>2. CASE r.idx = r.n
  <2>1. Good(Send(r, "ALL_DONE"))
    BY <1>1, <1>2, SendGood DEF Signals, HostCommands
  <2> QED BY <1>2, <2>1 DEF Released
<1>3. CASE r.idx # r.n
  <2> DEFINE t == [r EXCEPT !.pc = "idle2"]
  <2>1. t \in ClientState /\ t.pc = "idle2" /\ Same(t, r)
    BY <1>1, PcSet DEF PCs
  <2>3. Good(t)
    BY <1>1, <1>3, <2>1 DEF Good, Same, Sending, Waiting, InPages
  <2> QED BY <1>3, <2>3 DEF Released
<1> QED BY <1>2, <1>3

\* The next page is asked for.
LEMMA NextPageGood ==
  ASSUME NEW r, Good(r), r.pc = "idle2"
  PROVE  Good(NextPage(r))
<1> DEFINE t == [r EXCEPT !.idx = @ + 1, !.retried = FALSE]
<1>1. /\ r \in ClientState /\ InPages(r) /\ Len(r.vec) = r.idx /\ r.idx < r.n
      /\ r.op \in Ops /\ r.status = "EC_FAILED" /\ r.idx \in 1..16
      /\ r.n \in Int /\ Len(r.vec) \in Nat
  BY FieldTypes DEF Good, Waiting
<1>2. r.idx + 1 \in 1..16
  <2>1. r.n \in Int /\ r.n <= 16 /\ r.idx \in Nat /\ r.idx < r.n
    BY <1>1 DEF InPages
  <2> QED BY <2>1
<1>3. t \in ClientState
  BY <1>1, <1>2, Zenon DEF ClientState
<1>4. /\ t.n = r.n /\ t.vec = r.vec /\ t.idx = r.idx + 1
      /\ t.op = r.op /\ t.status = r.status
  BY <1>1 DEF ClientState
<1>5. InPages(t) /\ Len(t.vec) = t.idx - 1
  BY <1>1, <1>4 DEF InPages
<1> QED BY <1>1, <1>3, <1>4, <1>5, SendGood DEF NextPage, Signals, HostCommands
-----------------------------------------------------------------------------
\* A step of one client that only touches its own record.
LEMMA Local ==
  ASSUME LocalInv, NEW c \in Clients, NEW r, Good(r), Step(c, r), UNCHANGED shared
  PROVE  LocalInv'
<1>1. EnvOK'
  BY DEF LocalInv, EnvOK, shared, ec
<1> QED BY <1>1, Stepped

LEMMA CallPreserves ==
  ASSUME LocalInv, NEW c \in Clients, Call(c)
  PROVE  LocalInv'
<1>1. PICK op \in Ops : \/ Step(c, Entered(op))
                        \/ Step(c, LeaveWith(Entered(op), "EC_CREATE_FILE_FAILED"))
  BY DEF Call
<1>2. Good(Entered(op)) /\ Good(LeaveWith(Entered(op), "EC_CREATE_FILE_FAILED"))
  BY EnteredGood
<1>3. UNCHANGED shared
  BY DEF Call
<1> QED BY <1>1, <1>2, <1>3, Local

LEMMA DiePreserves ==
  ASSUME LocalInv, NEW c \in Clients, Die(c)
  PROVE  LocalInv'
<1>1. Step(c, Leave(Entered("none"))) /\ UNCHANGED shared
  BY DEF Die
<1> QED BY <1>1, EnteredGood, Local

LEMMA AwaitIdlePreserves ==
  ASSUME LocalInv, NEW c \in Clients, NEW pc, NEW found, Good(found),
         AwaitIdle(c, pc, found)
  PROVE  LocalInv'
<1>1. PICK idle \in IsECIdle : Step(c, IF idle THEN found ELSE Again(cl[c], Leave(cl[c])))
  BY DEF AwaitIdle
<1>2. Good(cl[c])
  BY DEF LocalInv
<1>3. Good(Again(cl[c], Leave(cl[c])))
  BY <1>2, LeaveGood, AgainGood
<1>4. UNCHANGED shared
  BY DEF AwaitIdle
<1> QED BY <1>1, <1>3, <1>4, Local

LEMMA AwaitPreserves ==
  ASSUME LocalInv, NEW c \in Clients,
         \/ AwaitIdleToCount(c) \/ AwaitIdleToRead(c)
         \/ AwaitIdleNextPage(c) \/ AwaitIdleAllRead(c)
  PROVE  LocalInv'
<1> DEFINE r == cl[c]
<1>1. Good(r) /\ r \in ClientState
  BY DEF LocalInv, Good
<1>2. CASE AwaitIdleToCount(c)
  <2>1. r.op \in Ops /\ r.status = "EC_FAILED" /\ Before(r)
    BY <1>1, <1>2 DEF AwaitIdleToCount, AwaitIdle, Good, Waiting
  <2>2. Good(Send(r, "COUNT_REQ"))
    BY <1>1, <2>1, SendGood DEF Signals, HostCommands
  <2> QED BY <1>2, <2>2, AwaitIdlePreserves DEF AwaitIdleToCount
<1>3. CASE AwaitIdleToRead(c)
  <2>1. r.op \in Ops /\ r.status = "EC_FAILED" /\ InPages(r) /\ Before(r)
    BY <1>1, <1>3 DEF AwaitIdleToRead, AwaitIdle, Good, Waiting
  <2>2. Len(r.vec) = r.idx - 1
    BY <2>1 DEF Before
  <2>3. Good(Send(r, "PAGE_REQ"))
    BY <1>1, <2>1, <2>2, SendGood DEF Signals, HostCommands
  <2> QED BY <1>3, <2>3, AwaitIdlePreserves DEF AwaitIdleToRead
<1>4. CASE AwaitIdleNextPage(c)
  <2>1. Good(NextPage(r))
    BY <1>1, <1>4, NextPageGood DEF AwaitIdleNextPage, AwaitIdle
  <2> QED BY <1>4, <2>1, AwaitIdlePreserves DEF AwaitIdleNextPage
<1>5. CASE AwaitIdleAllRead(c)
  <2>1. r.n \in 1..16 /\ Len(r.vec) = r.n
    BY <1>1, <1>5 DEF AwaitIdleAllRead, AwaitIdle, Good, Waiting, InPages
  <2>2. Good(LeaveWith(r, "EC_SUCCESS"))
    BY <1>1, <2>1, LeaveWithGood DEF EC_LOG_STATE
  <2> QED BY <1>5, <2>2, AwaitIdlePreserves DEF AwaitIdleAllRead
<1> QED BY <1>2, <1>3, <1>4, <1>5

\* The values the two halves of a signal put into the mailbox are in range.
LEMMA SignalTypes ==
  ASSUME NEW r \in ClientState, Good(r), r.pc \in {"param", "cmd"}
  PROVE  Arg(r) \in 0..255 /\ Word(r.out) \in HostCommands
<1>1. r.out \in Signals
  BY DEF ClientState
<1>2. r.n \in -1..255 /\ r.idx \in 1..16
  BY FieldTypes
<1>3. r.out = "COUNT_DONE" => r.n # -1
  BY DEF Good, Sending
<1>4. Arg(r) \in 0..255
  BY <1>2, <1>3 DEF Arg
<1>5. Word(r.out) \in HostCommands
  BY <1>1 DEF Word, Signals, HostCommands
<1> QED BY <1>4, <1>5

LEMMA SendParamPreserves ==
  ASSUME LocalInv, NEW c \in Clients, SendParam(c)
  PROVE  LocalInv'
<1> DEFINE r == cl[c]
           t == [cl[c] EXCEPT !.pc = "cmd"]
<1>1. Good(r) /\ r \in ClientState /\ r.pc = "param"
  BY DEF LocalInv, Good, SendParam
<1>2. Good(t)
  <2>1. t \in ClientState /\ t.pc = "cmd" /\ Same(t, r)
    BY <1>1, PcSet DEF PCs
  <2> QED BY <1>1, <2>1 DEF Good, Same, Sending, Waiting, Before, InPages
<1>3. Arg(r) \in 0..255
  BY <1>1, SignalTypes
<1>4. EnvOK'
  <2>1. PICK ok \in Writes : mbox' = IF ok THEN [mbox EXCEPT !.param = Arg(r)] ELSE mbox
    BY DEF SendParam
  <2>2. mbox \in [cmd : Commands, param : 0..255]
    BY DEF LocalInv, EnvOK
  <2>3. mbox' \in [cmd : Commands, param : 0..255]
    BY <1>3, <2>1, <2>2
  <2> QED BY <2>3 DEF SendParam, LocalInv, EnvOK, ec
<1> QED BY <1>2, <1>4, Stepped DEF SendParam

LEMMA SendCmdPreserves ==
  ASSUME LocalInv, NEW c \in Clients, SendCmd(c)
  PROVE  LocalInv'
<1> DEFINE r == cl[c]
           t == [cl[c] EXCEPT !.pc = Then(cl[c].out), !.cnt = 0]
<1>1. Good(r) /\ r \in ClientState /\ r.pc = "cmd" /\ r.out \in Signals
  BY DEF LocalInv, Good, SendCmd, ClientState
<1>2. Good(t)
  <2>1. Then(r.out) \in PCs
    BY <1>1 DEF Then, PCs, Signals, HostCommands
  <2>2. 0 \in 0..MAX_CHECK_COUNT-1
    BY EcLogAssumption
  <2>3. t \in ClientState
    BY <1>1, <2>1, <2>2, Zenon DEF ClientState
  <2>4. /\ t.pc = Then(r.out) /\ t.out = r.out /\ t.op = r.op /\ t.n = r.n
        /\ t.idx = r.idx /\ t.vec = r.vec /\ t.status = r.status
    BY <1>1 DEF ClientState
  <2>5. Sending(t)
    BY <1>1, <2>4 DEF Sending, Then, Signals, HostCommands
  <2>6. Waiting(t)
    BY <1>1, <2>4 DEF Good, Sending, Waiting, Then, Signals, HostCommands, Before, InPages
  <2> QED BY <1>1, <2>3, <2>4, <2>5, <2>6 DEF Good
<1>3. Word(r.out) \in HostCommands
  BY <1>1, SignalTypes
<1>4. EnvOK'
  <2>1. PICK ok \in Writes : mbox' = IF ok THEN [mbox EXCEPT !.cmd = Word(r.out)] ELSE mbox
    BY DEF SendCmd
  <2>2. mbox \in [cmd : Commands, param : 0..255]
    BY DEF LocalInv, EnvOK
  <2>3. Word(r.out) \in Commands
    BY <1>3 DEF Commands
  <2>4. mbox' \in [cmd : Commands, param : 0..255]
    BY <2>1, <2>2, <2>3
  <2> QED BY <2>4 DEF SendCmd, LocalInv, EnvOK, ec
<1> QED BY <1>2, <1>4, Stepped DEF SendCmd

LEMMA PollCountPreserves ==
  ASSUME LocalInv, NEW c \in Clients, PollCount(c)
  PROVE  LocalInv'
<1> DEFINE r == cl[c]
           t == [cl[c] EXCEPT !.pc = "error"]
<1>1. Good(r) /\ r \in ClientState /\ r.pc = "count" /\ mbox.param \in 0..255
  BY DEF LocalInv, EnvOK, Good, PollCount
<1>2. Good(Counted(r, mbox.param))
  BY <1>1, CountedGood
<1>3. Good(t)
  <2>1. t \in ClientState /\ t.pc = "error" /\ Same(t, r)
    BY <1>1, PcSet DEF PCs
  <2> QED BY <1>1, <2>1 DEF Good, Same, Sending, Waiting, Before
<1>4. PICK ready \in IsCountReady :
        Step(c, IF ready THEN Counted(r, mbox.param) ELSE t)
  BY DEF PollCount
<1> QED BY <1>2, <1>3, <1>4, Local DEF PollCount

LEMMA CheckErrorPreserves ==
  ASSUME LocalInv, NEW c \in Clients, CheckError(c)
  PROVE  LocalInv'
<1> DEFINE r == cl[c]
           t == [cl[c] EXCEPT !.pc = "count"]
<1>1. /\ Good(r) /\ r \in ClientState /\ r.pc = "error"
      /\ Before(r) /\ r.op \in Ops /\ r.status = "EC_FAILED"
  BY DEF LocalInv, Good, Waiting, CheckError
<1>2. Good(Send(r, "ERROR_ACK"))
  BY <1>1, SendGood DEF Signals
<1>3. Good(t)
  <2>1. t \in ClientState /\ t.pc = "count" /\ Same(t, r)
    BY <1>1, PcSet DEF PCs
  <2> QED BY <1>1, <2>1 DEF Good, Same, Sending, Waiting, Before
<1>4. Good(Again(t, Leave(r)))
  BY <1>1, <1>3, LeaveGood, AgainGood
<1>5. PICK error \in IsErrorOccur :
        Step(c, IF error THEN Send(r, "ERROR_ACK") ELSE Again(t, Leave(r)))
  BY DEF CheckError
<1> QED BY <1>2, <1>4, <1>5, Local DEF CheckError

LEMMA PollPagePreserves ==
  ASSUME LocalInv, NEW c \in Clients, PollPage(c)
  PROVE  LocalInv'
<1> DEFINE r == cl[c]
           f == [cl[c] EXCEPT !.pc = "fetch"]
           j == [cl[c] EXCEPT !.pc = "judge"]
<1>1. Good(r) /\ r \in ClientState /\ r.pc = "page" /\ r.idx \in Nat
  BY FieldTypes DEF LocalInv, Good, PollPage
<1>2. Good(f)
  <2>1. f \in ClientState /\ f.pc = "fetch" /\ Same(f, r)
    BY <1>1, PcSet DEF PCs
  <2> QED BY <1>1, <2>1 DEF Good, Same, Sending, Waiting, InPages
<1>3. Good(j)
  <2>1. j \in ClientState /\ j.pc = "judge" /\ Same(j, r)
    BY <1>1, PcSet DEF PCs
  <2> QED BY <1>1, <2>1 DEF Good, Same, Sending, Waiting, InPages
<1>4. Good(Again(r, j))
  BY <1>1, <1>3, AgainGood
<1>5. PICK ready \in IsLogPageReady(r.idx) : Step(c, IF ready THEN f ELSE Again(r, j))
  BY DEF PollPage
<1> QED BY <1>2, <1>4, <1>5, Local DEF PollPage

LEMMA FetchPagePreserves ==
  ASSUME LocalInv, NEW c \in Clients, FetchPage(c)
  PROVE  LocalInv'
<1>1. PICK ok \in Reads(TRUE) : Step(c, Fetched(cl[c], ok, window))
  BY DEF FetchPage
<1>2. Good(cl[c]) /\ cl[c].pc = "fetch" /\ window \in Nat
  BY DEF LocalInv, EnvOK, FetchPage
<1>3. Good(Fetched(cl[c], ok, window))
  BY <1>2, FetchedGood
<1> QED BY <1>1, <1>3, Local DEF FetchPage

\* The steps of a call that only compute.
LEMMA ComputePreserves ==
  ASSUME LocalInv, NEW c \in Clients, Decide(c) \/ JudgePage(c) \/ AfterRelease(c)
  PROVE  LocalInv'
<1>1. Good(cl[c])
  BY DEF LocalInv
<1>2. CASE Decide(c)
  BY <1>1, <1>2, DecidedGood, Local DEF Decide
<1>3. CASE JudgePage(c)
  BY <1>1, <1>3, JudgedGood, Local DEF JudgePage
<1>4. CASE AfterRelease(c)
  BY <1>1, <1>4, ReleasedGood, Local DEF AfterRelease
<1> QED BY <1>2, <1>3, <1>4

LEMMA EcPreserves ==
  ASSUME LocalInv, EcAnswer \/ EcFail
  PROVE  LocalInv'
<1>1. mbox \in [cmd : Commands, param : 0..255] /\ mbox.param \in 0..255
  BY DEF LocalInv, EnvOK
<1>2. job \in [cmd : HostCommands \cup {"IDLE"}, arg : 0..255] /\ job.arg \in 0..255
  BY DEF LocalInv, EnvOK
<1>3. NoJob \in [cmd : HostCommands \cup {"IDLE"}, arg : 0..255]
  BY DEF NoJob
<1>4. CASE EcTake
  <2>1. job' \in [cmd : HostCommands \cup {"IDLE"}, arg : 0..255]
    BY <1>1, <1>4 DEF EcTake
  <2> QED BY <1>4, <2>1 DEF EcTake, LocalInv, EnvOK
<1>5. CASE EcGiveCount
  <2>1. recorded' \in 0..255
    BY <1>5, EcLogAssumption DEF EcGiveCount
  <2>2. mbox' \in [cmd : Commands, param : 0..255]
    BY <1>5, <2>1 DEF EcGiveCount, Commands
  <2> QED BY <1>3, <1>5, <2>1, <2>2 DEF EcGiveCount, LocalInv, EnvOK
<1>6. CASE EcGivePage
  <2>1. mbox' \in [cmd : Commands, param : 0..255]
    BY <1>2, <1>6 DEF EcGivePage, Commands
  <2>2. window' \in Nat
    BY <1>2, <1>6 DEF EcGivePage
  <2> QED BY <1>3, <1>6, <2>1, <2>2 DEF EcGivePage, LocalInv, EnvOK
<1>7. CASE EcGoIdle
  <2>1. mbox' \in [cmd : Commands, param : 0..255]
    BY <1>1, <1>7 DEF EcGoIdle, Commands
  <2>2. told' \in BOOLEAN
    BY <1>7 DEF EcGoIdle, LocalInv, EnvOK
  <2> QED BY <1>3, <1>7, <2>1, <2>2 DEF EcGoIdle, LocalInv, EnvOK
<1>8. CASE EcFail
  <2>1. mbox' \in [cmd : Commands, param : 0..255]
    BY <1>1, <1>8 DEF EcFail, Commands
  <2> QED BY <1>3, <1>8, <2>1 DEF EcFail, LocalInv, EnvOK
<1> QED BY <1>4, <1>5, <1>6, <1>7, <1>8 DEF EcAnswer
-----------------------------------------------------------------------------
\* The first state satisfies the invariant.
LEMMA InitLocal == Init => LocalInv
<1> SUFFICES ASSUME Init PROVE LocalInv
  OBVIOUS
<1>1. mbox \in [cmd : Commands, param : 0..255]
  BY DEF Init, Commands
<1>2. job \in [cmd : HostCommands \cup {"IDLE"}, arg : 0..255]
  BY DEF Init, NoJob
<1>3. recorded \in 0..255 /\ window \in Nat /\ told \in BOOLEAN
  BY EcLogAssumption DEF Init
<1>4. \A c \in Clients : Good(cl[c])
  BY EnteredGood DEF Init
<1>5. cl \in [Clients -> ClientState]
  BY <1>4 DEF Init, Good
<1> QED BY <1>1, <1>2, <1>3, <1>4, <1>5 DEF LocalInv, EnvOK

\* Every step preserves it.
LEMMA NextLocal == LocalInv /\ [Next]_vars => LocalInv'
<1> SUFFICES ASSUME LocalInv, [Next]_vars PROVE LocalInv'
  OBVIOUS
<1>1. ASSUME NEW c \in Clients, Call(c) \/ Die(c) PROVE LocalInv'
  BY <1>1, CallPreserves, DiePreserves
<1>2. ASSUME NEW c \in Clients, Run(c) PROVE LocalInv'
  BY <1>2, AwaitPreserves, SendParamPreserves, SendCmdPreserves, PollCountPreserves,
     CheckErrorPreserves, PollPagePreserves, FetchPagePreserves, ComputePreserves DEF Run
<1>3. CASE EcAnswer \/ EcFail
  BY <1>3, EcPreserves
<1>4. CASE UNCHANGED vars
  BY <1>4 DEF vars, LocalInv, EnvOK
<1> QED BY <1>1, <1>2, <1>3, <1>4 DEF Next

LEMMA LocalInvariant == Spec => []LocalInv
  BY InitLocal, NextLocal, PTL DEF Spec

\* Every variable keeps its type: in particular no page index of any client
\* passes 16 and no poll counter passes its bound.
THEOREM TypeCorrect == Spec => []TypeOK
<1>1. LocalInv => TypeOK
  BY DEF LocalInv, EnvOK, TypeOK
<1> QED BY <1>1, LocalInvariant, PTL

\* EC_SUCCESS always comes with as many pages as were announced, for any
\* number of concurrent clients, any faults and any poll bound.
THEOREM SuccessComplete == Spec => []SuccessHasEveryPage
<1>1. LocalInv => SuccessHasEveryPage
  BY DEF LocalInv, Good, SuccessHasEveryPage
<1> QED BY <1>1, LocalInvariant, PTL

\* A page is released to the EC, and the log reported as read, only by a
\* client that holds what it releases.
THEOREM ReleaseSafe == Spec => []ReleasedPageHeld
<1>1. LocalInv => ReleasedPageHeld
  <2> SUFFICES ASSUME LocalInv, NEW c \in Clients,
                      cl[c].pc \in {"param", "cmd", "released", "idle3"}
               PROVE  /\ cl[c].out = "PAGE_DONE" => Len(cl[c].vec) = cl[c].idx
                      /\ cl[c].out = "ALL_DONE"  => Len(cl[c].vec) = cl[c].n
    BY DEF ReleasedPageHeld
  <2>1. Sending(cl[c]) /\ Waiting(cl[c])
    BY DEF LocalInv, Good
  <2> QED BY <2>1 DEF Sending, Waiting
<1> QED BY <1>1, LocalInvariant, PTL
-----------------------------------------------------------------------------
(***************************************************************************)
(* A call of a lone client starts on an idle EC.                           *)
(***************************************************************************)
IdleInv == mbox.cmd = "IDLE" => job = NoJob

\* A record that is not about to ask for the count.
Quiet(r) == r.pc \in {"param", "cmd"} => r.out # "COUNT_REQ"

LEMMA QuietMoves ==
  ASSUME NEW r \in ClientState
  PROVE  /\ Quiet(Leave(r))
         /\ \A s : s # "COUNT_REQ" => Quiet(Send(r, s))
         /\ \A status : Quiet(LeaveWith(r, status))
         /\ \A pc : pc \notin {"param", "cmd"} => Quiet([r EXCEPT !.pc = pc])
         /\ \A n : Quiet(Counted(r, n))
         /\ \A ok, page : Quiet(Fetched(r, ok, page))
         /\ Quiet(Judged(r)) /\ Quiet(Decided(r)) /\ Quiet(Released(r))
<1>1. Quiet(Leave(r)) /\ (\A status : Quiet(LeaveWith(r, status)))
  BY DEF Quiet, Leave, LeaveWith, ClientState
<1>2. \A s : s # "COUNT_REQ" => Quiet(Send(r, s))
  BY DEF Quiet, Send, ClientState
<1>3. \A pc : pc \notin {"param", "cmd"} => Quiet([r EXCEPT !.pc = pc])
  BY DEF Quiet, ClientState
<1>4. \A n : Quiet(Counted(r, n))
  BY DEF Quiet, Counted, Send, ClientState
<1>5. \A ok, page : Quiet(Fetched(r, ok, page))
  BY DEF Quiet, Fetched, ClientState
<1>6. Quiet(Decided(r)) /\ Quiet(Released(r))
  BY <1>1, <1>2, <1>3 DEF Decided, Released
<1>7. Quiet(Judged(r))
  BY <1>2 DEF Judged, Quiet, Send, LeaveWith, ClientState
<1> QED BY <1>1, <1>2, <1>3, <1>4, <1>5, <1>6, <1>7

LEMMA QuietAgain ==
  ASSUME NEW r \in ClientState, r.pc \notin {"param", "cmd"}, NEW last, Quiet(last)
  PROVE  Quiet(Again(r, last))
  BY DEF Quiet, Again, ClientState

Writing(c) == SendParam(c) \/ SendCmd(c)

LEMMA IdleCheckQuiet ==
  ASSUME LocalInv, NEW c \in Clients, NEW pc, pc \notin {"param", "cmd"}, NEW found,
         AwaitIdle(c, pc, found)
  PROVE  mbox.cmd = "IDLE" \/ \E r : Step(c, r) /\ Quiet(r)
<1>1. cl[c] \in ClientState /\ cl[c].pc = pc
  BY DEF LocalInv, AwaitIdle
<1>2. PICK idle \in IsECIdle : Step(c, IF idle THEN found ELSE Again(cl[c], Leave(cl[c])))
  BY DEF AwaitIdle
<1>3. idle => mbox.cmd = "IDLE"
  BY DEF IsECIdle, Reads
<1>4. Quiet(Again(cl[c], Leave(cl[c])))
  BY <1>1, QuietMoves, QuietAgain
<1> QED BY <1>2, <1>3, <1>4

\* A step that does not write leaves the call quiet, but for the check that
\* finds the EC idle.
LEMMA RunQuiet ==
  ASSUME LocalInv, NEW c \in Clients, Run(c), ~Writing(c)
  PROVE  UNCHANGED shared /\ (mbox.cmd = "IDLE" \/ \E r : Step(c, r) /\ Quiet(r))
<1>1. cl[c] \in ClientState
  BY DEF LocalInv
<1>2. CASE AwaitIdleToCount(c)
  BY <1>2, IdleCheckQuiet DEF AwaitIdleToCount, AwaitIdle
<1>3. CASE AwaitIdleToRead(c)
  BY <1>3, IdleCheckQuiet DEF AwaitIdleToRead, AwaitIdle
<1>4. CASE AwaitIdleNextPage(c)
  BY <1>4, IdleCheckQuiet DEF AwaitIdleNextPage, AwaitIdle
<1>5. CASE AwaitIdleAllRead(c)
  BY <1>5, IdleCheckQuiet DEF AwaitIdleAllRead, AwaitIdle
<1>6. CASE PollCount(c)
  BY <1>1, <1>6, QuietMoves DEF PollCount
<1>7. CASE CheckError(c)
  <2> DEFINE t == [cl[c] EXCEPT !.pc = "count"]
  <2>1. t \in ClientState /\ t.pc = "count"
    BY <1>1, PcSet DEF PCs
  <2>2. Quiet(Again(t, Leave(cl[c])))
    <3>1. Quiet(Leave(cl[c]))
      BY <1>1, QuietMoves
    <3> HIDE DEF t
    <3> QED BY <2>1, <3>1, QuietAgain
  <2>3. PICK error \in IsErrorOccur :
          Step(c, IF error THEN Send(cl[c], "ERROR_ACK") ELSE Again(t, Leave(cl[c])))
    BY <1>7 DEF CheckError
  <2>4. Quiet(Send(cl[c], "ERROR_ACK"))
    BY <1>1, QuietMoves
  <2>5. UNCHANGED shared
    BY <1>7 DEF CheckError
  <2> QED BY <2>2, <2>3, <2>4, <2>5
<1>8. CASE PollPage(c)
  <2> DEFINE f == [cl[c] EXCEPT !.pc = "fetch"]
             j == [cl[c] EXCEPT !.pc = "judge"]
  <2>1. cl[c].pc = "page" /\ UNCHANGED shared
    BY <1>8 DEF PollPage
  <2>2. Quiet(f) /\ Quiet(j)
    BY <1>1, QuietMoves
  <2>3. Quiet(Again(cl[c], j))
    BY <1>1, <2>1, <2>2, QuietAgain
  <2>4. PICK ready \in IsLogPageReady(cl[c].idx) :
          Step(c, IF ready THEN f ELSE Again(cl[c], j))
    BY <1>8 DEF PollPage
  <2> QED BY <2>1, <2>2, <2>3, <2>4
<1>9. CASE FetchPage(c)
  BY <1>1, <1>9, QuietMoves DEF FetchPage
<1>10. CASE Decide(c) \/ JudgePage(c) \/ AfterRelease(c)
  BY <1>1, <1>10, QuietMoves DEF Decide, JudgePage, AfterRelease
<1> QED BY <1>2, <1>3, <1>4, <1>5, <1>6, <1>7, <1>8, <1>9, <1>10 DEF Run, Writing

LEMMA FreshStep ==
  ASSUME LocalInv, IdleInv, FreshStart, [Next]_vars, \A c, d \in Clients : c = d
  PROVE  (IdleInv /\ FreshStart)'
<1>1. ASSUME UNCHANGED shared, mbox.cmd = "IDLE"
      PROVE  (IdleInv /\ FreshStart)'
  BY <1>1 DEF shared, ec, IdleInv, FreshStart
<1>2. ASSUME NEW c \in Clients, NEW r, Step(c, r), Quiet(r), UNCHANGED shared
      PROVE  (IdleInv /\ FreshStart)'
  <2>1. cl'[c] = r
    BY <1>2 DEF Step, LocalInv
  <2>2. \A d \in Clients : Quiet(cl'[d])
    BY <1>2, <2>1
  <2> QED BY <1>2, <2>2 DEF Quiet, shared, ec, IdleInv, FreshStart
<1>3. ASSUME NEW c \in Clients, Call(c) \/ Die(c)
      PROVE  (IdleInv /\ FreshStart)'
  <2>1. \A op \in Ops \cup {"none"} :
          /\ Quiet(Entered(op)) /\ Quiet(Leave(Entered(op)))
          /\ Quiet(LeaveWith(Entered(op), "EC_CREATE_FILE_FAILED"))
    BY EnteredIs, QuietMoves DEF Quiet
  <2>2. \E r : Step(c, r) /\ Quiet(r)
    BY <1>3, <2>1 DEF Call, Die
  <2> QED BY <1>2, <1>3, <2>2 DEF Call, Die
<1>4. ASSUME NEW c \in Clients, Run(c), ~Writing(c)
      PROVE  (IdleInv /\ FreshStart)'
  BY <1>1, <1>2, <1>4, RunQuiet
<1>5. ASSUME NEW c \in Clients, SendParam(c)
      PROVE  (IdleInv /\ FreshStart)'
  <2>1. mbox \in [cmd : Commands, param : 0..255] /\ cl[c] \in ClientState
    BY DEF LocalInv, EnvOK
  <2>2. mbox'.cmd = mbox.cmd /\ job' = job
    BY <1>5, <2>1 DEF SendParam, ec
  <2>3. cl'[c] = [cl[c] EXCEPT !.pc = "cmd"]
    BY <1>5 DEF SendParam, Step, LocalInv
  <2>4. cl'[c].out = cl[c].out /\ cl[c].pc = "param"
    BY <1>5, <2>1, <2>3, PcSet DEF SendParam, PCs, Same
  <2>5. \A d \in Clients : cl'[d].out = cl[d].out /\ cl[d].pc = "param"
    BY <2>4
  <2> QED BY <2>2, <2>5 DEF IdleInv, FreshStart
<1>6. ASSUME NEW c \in Clients, SendCmd(c)
      PROVE  (IdleInv /\ FreshStart)'
  <2>1. /\ mbox \in [cmd : Commands, param : 0..255] /\ cl[c] \in ClientState
        /\ Good(cl[c]) /\ cl[c].pc = "cmd" /\ cl[c].out \in Signals
    BY <1>6 DEF LocalInv, EnvOK, SendCmd, ClientState
  <2>2. job' = job /\ (mbox' = mbox \/ mbox'.cmd = Word(cl[c].out))
    BY <1>6, <2>1 DEF SendCmd, ec
  <2>3. Word(cl[c].out) # "IDLE"
    BY <2>1, SignalTypes DEF HostCommands
  <2>4. cl'[c].pc = Then(cl[c].out)
    BY <1>6, <2>1 DEF SendCmd, Step, LocalInv, ClientState
  <2>5. Then(cl[c].out) \notin {"param", "cmd"}
    BY <2>1 DEF Then, Signals, HostCommands
  <2>6. \A d \in Clients : cl'[d].pc \notin {"param", "cmd"}
    BY <2>4, <2>5
  <2> QED BY <2>2, <2>3, <2>6 DEF IdleInv, FreshStart
<1>7. CASE EcAnswer \/ EcFail
  <2>1. ~(mbox.cmd = "IDLE" /\ job = NoJob)
    BY <1>7 DEF EcAnswer, EcTake, EcGiveCount, EcGivePage, EcGoIdle, EcFail, NoJob, HostCommands
  <2>2. \A c \in Clients : Quiet(cl[c])
    BY <2>1 DEF FreshStart, Quiet
  <2>3. UNCHANGED cl
    BY <1>7 DEF EcAnswer, EcTake, EcGiveCount, EcGivePage, EcGoIdle, EcFail
  <2>4. IdleInv'
    BY <1>7 DEF EcAnswer, EcTake, EcGiveCount, EcGivePage, EcGoIdle, EcFail, IdleInv, HostCommands
  <2> QED BY <2>2, <2>3, <2>4 DEF FreshStart, Quiet
<1>8. CASE UNCHANGED vars
  BY <1>8 DEF vars, IdleInv, FreshStart
<1> QED BY <1>3, <1>4, <1>5, <1>6, <1>7, <1>8 DEF Next, Writing

\* A lone client asks for the count only of an EC that is idle and has nothing
\* in hand, whatever an earlier call or a process that died has left behind.
THEOREM StartsFresh ==
  ASSUME \A c, d \in Clients : c = d
  PROVE  Spec => []FreshStart
<1>1. Init => IdleInv /\ FreshStart
  <2> SUFFICES ASSUME Init PROVE IdleInv /\ FreshStart
    OBVIOUS
  <2>1. \A c \in Clients : cl[c].pc = "off"
    BY DEF Init, Leave, Entered
  <2> QED BY <2>1 DEF Init, IdleInv, FreshStart
<1>2. LocalInv /\ IdleInv /\ FreshStart /\ [Next]_vars => (IdleInv /\ FreshStart)'
  BY FreshStep
<1> QED BY <1>1, <1>2, LocalInvariant, PTL DEF Spec
-----------------------------------------------------------------------------
(***************************************************************************)
(* How far a call is from its end, for any number of clients and any       *)
(* faults.  Stage falls whenever the call leaves a stage, and Turns with   *)
(* every turn of the poll loop it is in.                                   *)
(***************************************************************************)
SignalStage(r) ==
  CASE r.out = "COUNT_REQ"  -> 351
    [] r.out = "ERROR_ACK"  -> 341
    [] r.out = "COUNT_DONE" -> 331
    [] r.out = "PAGE_REQ"   -> 10 + 20 * (16 - r.idx) + (IF r.retried THEN 8 ELSE 13)
    [] r.out = "PAGE_DONE"  -> 10 + 20 * (16 - r.idx) + 3
    [] r.out = "ALL_DONE"   -> 2

Stage(r) ==
  CASE r.pc = "off"      -> 0
    [] r.pc = "idle0"    -> 360
    [] r.pc = "param"    -> SignalStage(r) + 1
    [] r.pc = "cmd"      -> SignalStage(r)
    [] r.pc \in {"count", "error"} -> 350
    [] r.pc = "counted"  -> 330
    [] r.pc = "idle1"    -> 325
    [] r.pc = "page"     -> 10 + 20 * (16 - r.idx) + (IF r.retried THEN 7 ELSE 12)
    [] r.pc = "fetch"    -> 10 + 20 * (16 - r.idx) + (IF r.retried THEN 6 ELSE 11)
    [] r.pc = "judge"    -> 10 + 20 * (16 - r.idx) + (IF r.retried THEN 5 ELSE 10)
    [] r.pc = "released" -> 10 + 20 * (16 - r.idx) + 2
    [] r.pc = "idle2"    -> 10 + 20 * (16 - r.idx) + 1
    [] r.pc = "idle3"    -> 1

Turns(r) == 2 * (MAX_CHECK_COUNT - r.cnt) + (IF r.pc = "count" THEN 1 ELSE 0)

\* No more steps than these are left of the call.
Left(r) == Stage(r) * (2 * MAX_CHECK_COUNT + 2) + Turns(r)

LEMMA LeftTypes ==
  ASSUME NEW r \in ClientState
  PROVE  /\ Stage(r) \in Nat /\ (r.pc # "off" => Stage(r) > 0) /\ (r.pc = "off" => Stage(r) = 0)
         /\ Turns(r) \in 0..2 * MAX_CHECK_COUNT + 1
<1>1. r.idx \in 1..16 /\ r.retried \in BOOLEAN /\ r.out \in Signals /\ r.pc \in PCs
  BY FieldTypes DEF ClientState
<1>2. SignalStage(r) \in Nat /\ SignalStage(r) > 0
  BY <1>1 DEF SignalStage, Signals, HostCommands
<1>3. Stage(r) \in Nat /\ (r.pc # "off" => Stage(r) > 0) /\ (r.pc = "off" => Stage(r) = 0)
  BY <1>1, <1>2 DEF Stage, PCs
<1>4. r.cnt \in 0..MAX_CHECK_COUNT-1 /\ MAX_CHECK_COUNT \in Nat
  BY EcLogAssumption DEF ClientState
<1>5. Turns(r) \in 0..2 * MAX_CHECK_COUNT + 1
  BY <1>4 DEF Turns
<1> QED BY <1>3, <1>5

\* Whatever the turns, leaving a stage brings the end nearer.
LEMMA StageFalls ==
  ASSUME NEW r \in ClientState, NEW t \in ClientState,
         Stage(t) < Stage(r) \/ (Stage(t) = Stage(r) /\ Turns(t) < Turns(r))
  PROVE  Left(t) < Left(r)
<1> DEFINE K == 2 * MAX_CHECK_COUNT + 2
<1>1. K \in Nat
  BY EcLogAssumption
<1>2. /\ Stage(r) \in Nat /\ Stage(t) \in Nat /\ Turns(r) \in 0..K-1 /\ Turns(t) \in 0..K-1
  <2>1. MAX_CHECK_COUNT \in Nat
    BY EcLogAssumption
  <2> QED BY <2>1, LeftTypes
<1>3. Left(r) = Stage(r) * K + Turns(r) /\ Left(t) = Stage(t) * K + Turns(t)
  BY DEF Left
<1> HIDE DEF K
<1>4. ASSUME NEW a \in Nat, NEW b \in Nat, a < b PROVE a * K + K <= b * K
  <2>1. b - a - 1 \in Nat
    BY <1>4
  <2>2. (b - a - 1) * K \in Nat
    BY <1>1, <2>1
  <2>3. b * K = a * K + K + (b - a - 1) * K
    BY <1>1, <1>4
  <2>4. a * K \in Nat /\ b * K \in Nat
    BY <1>1
  <2> QED BY <1>1, <2>2, <2>3, <2>4
<1>5. CASE Stage(t) < Stage(r)
  <2>1. Stage(t) * K + K <= Stage(r) * K
    BY <1>2, <1>4, <1>5
  <2>2. Stage(t) * K \in Nat /\ Stage(r) * K \in Nat
    BY <1>1, <1>2
  <2> QED BY <1>1, <1>2, <1>3, <2>1, <2>2
<1>6. CASE Stage(t) = Stage(r) /\ Turns(t) < Turns(r)
  <2>1. Stage(r) * K \in Nat
    BY <1>1, <1>2
  <2> QED BY <1>2, <1>3, <1>6, <2>1
<1> QED BY <1>5, <1>6

\* What the stage depends on.
LEMMA StageIs ==
  ASSUME NEW r, NEW t, t.pc = r.pc, t.out = r.out, t.idx = r.idx, t.retried = r.retried
  PROVE  Stage(t) = Stage(r)
  BY DEF Stage, SignalStage

\* A turn of a poll loop, or its end.
LEMMA AgainFalls ==
  ASSUME NEW r \in ClientState, NEW last \in ClientState, Stage(last) < Stage(r),
         Again(r, last) \in ClientState
  PROVE  Left(Again(r, last)) < Left(r)
<1> DEFINE t == [r EXCEPT !.cnt = @ + 1]
<1>1. CASE Again(r, last) = last
  BY <1>1, StageFalls
<1>2. CASE Again(r, last) = t
  <2>1. t.pc = r.pc /\ t.out = r.out /\ t.idx = r.idx /\ t.retried = r.retried
        /\ t.cnt = r.cnt + 1
    BY DEF ClientState
  <2> HIDE DEF t
  <2>2. Stage(t) = Stage(r)
    BY <2>1, StageIs
  <2>3. r.cnt \in Nat /\ MAX_CHECK_COUNT \in Nat
    BY FieldTypes, EcLogAssumption
  <2>4. Turns(t) < Turns(r)
    BY <2>1, <2>3 DEF Turns
  <2> QED BY <1>2, <2>2, <2>4, StageFalls
<1> QED BY <1>1, <1>2 DEF Again, t

LEMMA LeaveFalls ==
  ASSUME NEW r \in ClientState, r.pc # "off"
  PROVE  Leave(r) \in ClientState /\ Stage(Leave(r)) < Stage(r)
<1>1. Leave(r) \in ClientState /\ Leave(r).pc = "off"
  BY PcSet DEF Leave, PCs
<1> QED BY <1>1, LeftTypes

LEMMA AwaitFalls ==
  ASSUME LocalInv, LocalInv', NEW c \in Clients,
         \/ AwaitIdleToCount(c) \/ AwaitIdleToRead(c)
         \/ AwaitIdleNextPage(c) \/ AwaitIdleAllRead(c)
  PROVE  Left(cl'[c]) < Left(cl[c])
<1> DEFINE r == cl[c]
<1>1. /\ r \in ClientState /\ Good(r) /\ r.pc # "off" /\ cl'[c] \in ClientState
      /\ r.idx \in 1..16
  BY FieldTypes DEF LocalInv, AwaitIdleToCount, AwaitIdleToRead, AwaitIdleNextPage,
                    AwaitIdleAllRead, AwaitIdle
<1>2. ASSUME NEW pc, NEW found, AwaitIdle(c, pc, found),
             r.pc = pc => Stage(found) < Stage(r)
      PROVE  Left(cl'[c]) < Left(r)
  <2>1. cl'[c] \in {found, Again(r, Leave(r))} /\ r.pc = pc
    BY <1>2 DEF AwaitIdle, Step, LocalInv
  <2>2. Leave(r) \in ClientState /\ Stage(Leave(r)) < Stage(r)
    BY <1>1, LeaveFalls
  <2> QED BY <1>1, <1>2, <2>1, <2>2, AgainFalls, StageFalls
<1>3. r.pc = "idle0" => Stage(Send(r, "COUNT_REQ")) < Stage(r)
  <2>1. Send(r, "COUNT_REQ").pc = "param" /\ Send(r, "COUNT_REQ").out = "COUNT_REQ"
    BY <1>1 DEF Send, ClientState
  <2> QED BY <2>1 DEF Stage, SignalStage
<1>4. r.pc = "idle1" => Stage(Send(r, "PAGE_REQ")) < Stage(r)
  <2> DEFINE t == Send(r, "PAGE_REQ")
  <2>1. t.pc = "param" /\ t.out = "PAGE_REQ" /\ t.idx = r.idx
    BY <1>1 DEF Send, ClientState
  <2> HIDE DEF t
  <2>2. Stage(t) <= 325 - 1
    BY <1>1, <2>1 DEF Stage, SignalStage
  <2>3. r.pc = "idle1" => Stage(r) = 325
    BY DEF Stage
  <2>4. Stage(t) \in Int
    BY <1>1, <2>1 DEF Stage, SignalStage
  <2> QED BY <2>2, <2>3, <2>4 DEF t
<1>5. r.pc = "idle2" => Stage(NextPage(r)) < Stage(r)
  <2> DEFINE t == NextPage(r)
  <2>1. t.pc = "param" /\ t.out = "PAGE_REQ" /\ t.idx = r.idx + 1 /\ t.retried = FALSE
    BY <1>1 DEF NextPage, Send, ClientState
  <2> HIDE DEF t
  <2>2. Stage(t) = 10 + 20 * (16 - (r.idx + 1)) + 14
    BY <1>1, <2>1 DEF Stage, SignalStage
  <2>3. r.pc = "idle2" => Stage(r) = 10 + 20 * (16 - r.idx) + 1
    BY DEF Stage
  <2> QED BY <1>1, <2>2, <2>3 DEF t
<1>6. Stage(LeaveWith(r, "EC_SUCCESS")) < Stage(r)
  <2>1. LeaveWith(r, "EC_SUCCESS").pc = "off"
    BY <1>1 DEF LeaveWith, ClientState
  <2>2. Stage(LeaveWith(r, "EC_SUCCESS")) = 0
    BY <2>1 DEF Stage
  <2> QED BY <1>1, <2>2, LeftTypes
<1> QED BY <1>2, <1>3, <1>4, <1>5, <1>6
        DEF AwaitIdleToCount, AwaitIdleToRead, AwaitIdleNextPage, AwaitIdleAllRead

LEMMA SendFalls ==
  ASSUME LocalInv, LocalInv', NEW c \in Clients, SendParam(c) \/ SendCmd(c)
  PROVE  Left(cl'[c]) < Left(cl[c])
<1> DEFINE r == cl[c]
           t == cl'[c]
<1>1. r \in ClientState /\ t \in ClientState
  BY DEF LocalInv
<1>2. r.out \in Signals /\ r.idx \in 1..16 /\ r.retried \in BOOLEAN
  BY <1>1, FieldTypes DEF ClientState
<1>3. SignalStage(r) \in Int
  BY <1>2 DEF SignalStage, Signals, HostCommands
<1>4. CASE SendParam(c)
  <2>1. r.pc = "param" /\ t.pc = "cmd" /\ t.out = r.out /\ t.idx = r.idx
        /\ t.retried = r.retried
    BY <1>1, <1>4 DEF SendParam, Step, LocalInv, ClientState
  <2> HIDE DEF t, r
  <2>2. SignalStage(t) = SignalStage(r)
    BY <2>1 DEF SignalStage
  <2>3. Stage(t) < Stage(r)
    BY <1>3, <2>1, <2>2 DEF Stage
  <2> QED BY <1>1, <2>3, StageFalls DEF t, r
<1>5. CASE SendCmd(c)
  <2>1. r.pc = "cmd" /\ t.pc = Then(r.out) /\ t.out = r.out /\ t.idx = r.idx
        /\ t.retried = r.retried
    BY <1>1, <1>5 DEF SendCmd, Step, LocalInv, ClientState
  <2> HIDE DEF t, r
  <2>2. Stage(t) < Stage(r)
    BY <1>2, <2>1 DEF Stage, SignalStage, Then, Signals, HostCommands
  <2> QED BY <1>1, <2>2, StageFalls DEF t, r
<1> QED BY <1>4, <1>5

LEMMA PollFalls ==
  ASSUME LocalInv, LocalInv', NEW c \in Clients,
         PollCount(c) \/ CheckError(c) \/ PollPage(c) \/ FetchPage(c)
  PROVE  Left(cl'[c]) < Left(cl[c])
<1> DEFINE r == cl[c]
<1>1. /\ r \in ClientState /\ cl'[c] \in ClientState /\ r.pc # "off" /\ r.idx \in 1..16
      /\ r.cnt \in Nat /\ MAX_CHECK_COUNT \in Nat /\ r.retried \in BOOLEAN
  BY FieldTypes, EcLogAssumption DEF LocalInv, PollCount, CheckError, PollPage, FetchPage
<1>2. CASE PollCount(c)
  <2> DEFINE e == [r EXCEPT !.pc = "error"]
             t == Counted(r, mbox.param)
  <2>1. r.pc = "count" /\ cl'[c] \in {e, t}
    BY <1>2 DEF PollCount, Step, LocalInv
  <2>2. e.pc = "error" /\ e.cnt = r.cnt /\ t.pc = "param" /\ t.out = "COUNT_DONE"
    BY <1>1 DEF Counted, Send, ClientState
  <2> HIDE DEF e, t
  <2>3. Stage(t) < Stage(r) /\ Stage(e) = Stage(r)
    BY <2>1, <2>2 DEF Stage, SignalStage
  <2>4. Turns(e) < Turns(r)
    BY <1>1, <2>1, <2>2 DEF Turns
  <2> QED BY <1>1, <2>1, <2>3, <2>4, StageFalls
<1>3. CASE CheckError(c)
  <2> DEFINE t == [r EXCEPT !.pc = "count"]
             s == Send(r, "ERROR_ACK")
             u == [t EXCEPT !.cnt = @ + 1]
  <2>1. r.pc = "error" /\ cl'[c] \in {s, u, Leave(r)}
    BY <1>3 DEF CheckError, Again, Step, LocalInv
  <2>2. s.pc = "param" /\ s.out = "ERROR_ACK" /\ u.pc = "count" /\ u.cnt = r.cnt + 1
    BY <1>1 DEF Send, ClientState
  <2> HIDE DEF s, t, u
  <2>3. Stage(s) < Stage(r) /\ Stage(u) = Stage(r)
    BY <2>1, <2>2 DEF Stage, SignalStage
  <2>4. Turns(u) < Turns(r)
    BY <1>1, <2>1, <2>2 DEF Turns
  <2>5. Leave(r) \in ClientState /\ Stage(Leave(r)) < Stage(r)
    BY <1>1, LeaveFalls
  <2> QED BY <1>1, <2>1, <2>3, <2>4, <2>5, StageFalls
<1>4. CASE PollPage(c)
  <2> DEFINE f == [r EXCEPT !.pc = "fetch"]
             j == [r EXCEPT !.pc = "judge"]
  <2>1. r.pc = "page" /\ cl'[c] \in {f, Again(r, j)}
    BY <1>4 DEF PollPage, Step, LocalInv
  <2>2. f.pc = "fetch" /\ j.pc = "judge" /\ f.idx = r.idx /\ j.idx = r.idx
        /\ f.retried = r.retried /\ j.retried = r.retried
    BY <1>1 DEF ClientState
  <2>3. j \in ClientState
    BY <1>1, PcSet DEF PCs
  <2> HIDE DEF f, j
  <2>4. Stage(f) < Stage(r) /\ Stage(j) < Stage(r)
    BY <1>1, <2>1, <2>2 DEF Stage
  <2> QED BY <1>1, <2>1, <2>3, <2>4, AgainFalls, StageFalls
<1>5. CASE FetchPage(c)
  <2>1. r.pc = "fetch" /\ cl'[c].pc = "judge" /\ cl'[c].idx = r.idx
        /\ cl'[c].retried = r.retried
    <3>1. PICK ok : cl'[c] = Fetched(r, ok, window)
      BY <1>5 DEF FetchPage, Step, LocalInv
    <3>2. /\ Fetched(r, ok, window).pc = "judge" /\ Fetched(r, ok, window).idx = r.idx
          /\ Fetched(r, ok, window).retried = r.retried
      BY <1>1 DEF Fetched, ClientState
    <3> QED BY <1>5, <3>1, <3>2 DEF FetchPage
  <2>2. Stage(cl'[c]) < Stage(r)
    BY <1>1, <2>1 DEF Stage
  <2> QED BY <1>1, <2>2, StageFalls
<1> QED BY <1>2, <1>3, <1>4, <1>5

\* The retry of a page is bounded because pageRetryed is set.
LEMMA ComputeFalls ==
  ASSUME LocalInv, LocalInv', NEW c \in Clients, Decide(c) \/ JudgePage(c) \/ AfterRelease(c)
  PROVE  Left(cl'[c]) < Left(cl[c])
<1> DEFINE r == cl[c]
           t == cl'[c]
<1>1. /\ r \in ClientState /\ t \in ClientState /\ r.pc # "off" /\ r.idx \in 1..16
      /\ r.retried \in BOOLEAN
  BY FieldTypes DEF LocalInv, Decide, JudgePage, AfterRelease
<1>2. t.pc = "off" => Stage(t) < Stage(r)
  BY <1>1, LeftTypes
<1>3. CASE Decide(c)
  <2>1. r.pc = "counted" /\ t.pc \in {"off", "idle1"}
    BY <1>1, <1>3 DEF Decide, Decided, Leave, LeaveWith, Step, LocalInv, ClientState
  <2>2. Stage(t) < Stage(r)
    BY <1>2, <2>1 DEF Stage
  <2> QED BY <1>1, <2>2, StageFalls
<1>4. CASE JudgePage(c)
  <2>1. /\ r.pc = "judge" /\ t.pc \in {"off", "param"}
        /\ t.pc = "param" => /\ t.idx = r.idx
                             /\ \/ t.out = "PAGE_DONE" /\ t.retried = r.retried
                                \/ t.out = "PAGE_REQ" /\ t.retried = TRUE /\ r.retried = FALSE
    BY <1>1, <1>4 DEF JudgePage, Judged, Send, LeaveWith, Step, LocalInv, ClientState
  <2> HIDE DEF r, t
  <2>2. t.pc = "param" => Stage(t) < Stage(r)
    BY <1>1, <2>1 DEF Stage, SignalStage
  <2> QED BY <1>1, <1>2, <2>1, <2>2, StageFalls DEF r, t
<1>5. CASE AfterRelease(c)
  <2>1. /\ r.pc = "released"
        /\ \/ t.pc = "param" /\ t.out = "ALL_DONE"
           \/ t.pc = "idle2" /\ t.idx = r.idx
    BY <1>1, <1>5 DEF AfterRelease, Released, Send, Step, LocalInv, ClientState
  <2> HIDE DEF r, t
  <2>2. Stage(t) < Stage(r)
    BY <1>1, <2>1 DEF Stage, SignalStage
  <2> QED BY <1>1, <2>2, StageFalls DEF r, t
<1> QED BY <1>3, <1>4, <1>5

\* Every step of a call brings it nearer to its return, and nothing but a new
\* call takes it further away: no loop of the SDK can turn for ever, whatever
\* the EC answers and the other clients write (the safety half of CallReturns).
CallShrinks ==
  \A c \in Clients :
    /\ Left(cl[c]) \in Nat
    /\ Run(c) => Left(cl'[c]) < Left(cl[c])
    /\ cl'[c] # cl[c] => Call(c) \/ Run(c) \/ Die(c)

THEOREM CallsAreBounded == Spec => [][CallShrinks]_vars
<1>1. LocalInv /\ LocalInv' /\ [Next]_vars => [CallShrinks]_vars
  <2> SUFFICES ASSUME LocalInv, LocalInv', Next, NEW c \in Clients
               PROVE  /\ Left(cl[c]) \in Nat
                      /\ Run(c) => Left(cl'[c]) < Left(cl[c])
                      /\ cl'[c] # cl[c] => Call(c) \/ Run(c) \/ Die(c)
    BY DEF CallShrinks
  <2>1. Left(cl[c]) \in Nat
    <3>1. Stage(cl[c]) \in Nat /\ Turns(cl[c]) \in 0..2 * MAX_CHECK_COUNT + 1
      BY LeftTypes DEF LocalInv
    <3>2. 2 * MAX_CHECK_COUNT + 2 \in Nat
      BY EcLogAssumption
    <3>3. Stage(cl[c]) * (2 * MAX_CHECK_COUNT + 2) \in Nat
      BY <3>1, <3>2
    <3> QED BY <3>1, <3>3, EcLogAssumption DEF Left
  <2>2. Run(c) => Left(cl'[c]) < Left(cl[c])
    BY AwaitFalls, SendFalls, PollFalls, ComputeFalls DEF Run
  <2>3. ASSUME cl'[c] # cl[c] PROVE Call(c) \/ Run(c) \/ Die(c)
    <3>1. cl' # cl
      BY <2>3
    <3>2. PICK d \in Clients : Call(d) \/ Run(d) \/ Die(d)
      BY <3>1 DEF Next, EcAnswer, EcTake, EcGiveCount, EcGivePage, EcGoIdle, EcFail
    <3>3. PICK t : Step(d, t)
      <4>1. Call(d) \/ Die(d) => \E t : Step(d, t)
        BY DEF Call, Die
      <4>2. \A pc, found : AwaitIdle(d, pc, found) => \E t : Step(d, t)
        BY DEF AwaitIdle
      <4>3. Run(d) => \E t : Step(d, t)
        BY <4>2, Zenon
           DEF Run, AwaitIdleToCount, AwaitIdleToRead, AwaitIdleNextPage, AwaitIdleAllRead,
               SendParam, SendCmd, PollCount, CheckError, Decide, PollPage, FetchPage,
               JudgePage, AfterRelease
      <4> QED BY <3>2, <4>1, <4>3
    <3>4. d # c => cl'[c] = cl[c]
      BY <3>3 DEF Step, LocalInv
    <3> QED BY <2>3, <3>2, <3>4
  <2> QED BY <2>1, <2>2, <2>3
<1> QED BY <1>1, LocalInvariant, PTL DEF Spec
=============================================================================

------------------------- MODULE LogTransfer_proofs -------------------------
(***************************************************************************)
(* EcLog with one client whose writes succeed implements LogTransfer: what *)
(* the caller of GetECLog sees of a call is a behaviour of that abstract   *)
(* specification, whatever the EC, the reads and the process do.           *)
(***************************************************************************)
EXTENDS LoneClient_proofs

\* A client inside a call moves from r to t and its caller sees no progress:
\* the call goes on, or it ends with nothing changed.
Keeps(r, t) == r.pc # "off" /\ t.n = r.n /\ t.vec = r.vec /\ t.status = r.status

LEMMA OneClient ==
  ASSUME Alone, LocalInv, NEW c \in Clients, NEW t, Step(c, t)
  PROVE  TheClient = c /\ cl'[TheClient] = t
<1>1. TheClient \in Clients
  BY DEF TheClient
<1>2. TheClient = c
  BY <1>1 DEF Alone
<1> QED BY <1>2 DEF Step, LocalInv

\* No progress maps to a stutter, or to giving up.
LEMMA KeptSeen ==
  ASSUME Alone, LocalInv, NEW c \in Clients, NEW t, Step(c, t), Keeps(cl[c], t)
  PROVE  [Transfer!Next]_Transfer!vars
<1>1. TheClient = c /\ cl'[TheClient] = t
  BY OneClient
<1>2. CASE t.pc # "off"
  BY <1>1, <1>2 DEF Keeps, Transfer!vars
<1>3. CASE t.pc = "off"
  <2>1. Transfer!GiveUp
    BY <1>1, <1>3 DEF Keeps, Transfer!GiveUp
  <2> QED BY <2>1 DEF Transfer!Next
<1> QED BY <1>2, <1>3

LEMMA LeaveKeeps ==
  ASSUME NEW r \in ClientState, r.pc # "off"
  PROVE  Keeps(r, Leave(r))
  BY DEF Keeps, Leave, ClientState

LEMMA SendKeeps ==
  ASSUME NEW r \in ClientState, r.pc # "off", NEW s
  PROVE  Keeps(r, Send(r, s))
  BY SendIs DEF Keeps

LEMMA PcKeeps ==
  ASSUME NEW r \in ClientState, r.pc # "off", NEW pc
  PROVE  Keeps(r, [r EXCEPT !.pc = pc])
  BY DEF Keeps, ClientState

LEMMA AgainKeeps ==
  ASSUME NEW r \in ClientState, r.pc # "off", NEW last, Keeps(r, last)
  PROVE  Keeps(r, Again(r, last))
<1>1. Keeps(r, [r EXCEPT !.cnt = @ + 1])
  BY DEF Keeps, ClientState
<1> QED BY <1>1 DEF Again
-----------------------------------------------------------------------------
\* A call begins when it enters the SDK, or cannot open the device.
LEMMA CallSeen ==
  ASSUME Alone, LocalInv, NEW c \in Clients, Call(c)
  PROVE  Transfer!Begin
<1>1. PICK op \in Ops : \/ Step(c, Entered(op))
                        \/ Step(c, LeaveWith(Entered(op), "EC_CREATE_FILE_FAILED"))
  BY DEF Call
<1>2. cl[c].pc = "off"
  BY DEF Call
<1>3. CASE Step(c, Entered(op))
  <2>1. TheClient = c /\ cl'[TheClient] = Entered(op)
    BY <1>3, OneClient
  <2> QED BY <1>2, <2>1 DEF Entered, Transfer!Begin
<1>4. CASE Step(c, LeaveWith(Entered(op), "EC_CREATE_FILE_FAILED"))
  <2>1. TheClient = c /\ cl'[TheClient] = LeaveWith(Entered(op), "EC_CREATE_FILE_FAILED")
    BY <1>4, OneClient
  <2> QED BY <1>2, <2>1 DEF Entered, LeaveWith, Transfer!Begin
<1> QED BY <1>1, <1>3, <1>4

LEMMA DieSeen ==
  ASSUME Alone, LocalInv, NEW c \in Clients, Die(c)
  PROVE  Transfer!Die
<1>1. Step(c, Leave(Entered("none"))) /\ cl[c].pc # "off"
  BY DEF Die
<1>2. TheClient = c /\ cl'[TheClient] = Leave(Entered("none"))
  BY <1>1, OneClient
<1> QED BY <1>1, <1>2 DEF Leave, Entered, Transfer!Die

\* A wait for an idle EC that is no progress when it is over.
LEMMA IdleCheckSeen ==
  ASSUME Alone, LocalInv, NEW c \in Clients, NEW pc, pc # "off", NEW found,
         AwaitIdle(c, pc, found), Keeps(cl[c], found)
  PROVE  [Transfer!Next]_Transfer!vars
<1>1. cl[c] \in ClientState /\ cl[c].pc # "off"
  BY DEF LocalInv, AwaitIdle
<1>2. Keeps(cl[c], Again(cl[c], Leave(cl[c])))
  BY <1>1, LeaveKeeps, AgainKeeps
<1>3. PICK t : Step(c, t) /\ Keeps(cl[c], t)
  BY <1>2 DEF AwaitIdle
<1> QED BY <1>3, KeptSeen

LEMMA AwaitSeen ==
  ASSUME Alone, LocalInv, NEW c \in Clients,
         AwaitIdleToCount(c) \/ AwaitIdleToRead(c) \/ AwaitIdleNextPage(c)
  PROVE  [Transfer!Next]_Transfer!vars
<1>1. cl[c] \in ClientState /\ cl[c].pc # "off"
  BY DEF LocalInv, AwaitIdleToCount, AwaitIdleToRead, AwaitIdleNextPage, AwaitIdle
<1>2. Keeps(cl[c], NextPage(cl[c]))
  BY <1>1 DEF NextPage, Send, Keeps, ClientState
<1> QED BY <1>1, <1>2, SendKeeps, IdleCheckSeen
        DEF AwaitIdleToCount, AwaitIdleToRead, AwaitIdleNextPage

\* The call succeeds when the EC is idle again after all was read.
LEMMA AllReadSeen ==
  ASSUME Alone, LocalInv, NEW c \in Clients, AwaitIdleAllRead(c)
  PROVE  [Transfer!Next]_Transfer!vars
<1> DEFINE r == cl[c]
<1>1. r \in ClientState /\ r.pc = "idle3" /\ r.n \in 1..16 /\ Len(r.vec) = r.n
  BY DEF LocalInv, AwaitIdleAllRead, AwaitIdle, Good, Waiting, InPages
<1>2. PICK idle \in IsECIdle :
        Step(c, IF idle THEN LeaveWith(r, "EC_SUCCESS") ELSE Again(r, Leave(r)))
  BY DEF AwaitIdleAllRead, AwaitIdle
<1>3. CASE idle
  <2>1. TheClient = c /\ cl'[TheClient] = LeaveWith(r, "EC_SUCCESS")
    BY <1>2, <1>3, OneClient
  <2>2. Transfer!Succeed
    BY <1>1, <2>1 DEF LeaveWith, ClientState, Transfer!Succeed
  <2> QED BY <2>2 DEF Transfer!Next
<1>4. CASE ~idle
  BY <1>1, <1>2, <1>4, LeaveKeeps, AgainKeeps, KeptSeen
<1> QED BY <1>3, <1>4

\* The count is learnt from the EC's answer.
LEMMA CountSeen ==
  ASSUME Alone, LocalInv, LoneInv, NEW c \in Clients, PollCount(c) \/ CheckError(c)
  PROVE  [Transfer!Next]_Transfer!vars
<1> DEFINE r == cl[c]
           t == [cl[c] EXCEPT !.pc = "count"]
           e == [cl[c] EXCEPT !.pc = "error"]
<1>1. r \in ClientState /\ r.pc \in {"count", "error"} /\ Lone(r)
  BY DEF LocalInv, LoneInv, PollCount, CheckError
<1>2. CASE PollCount(c)
  <2>1. PICK ready \in IsCountReady : Step(c, IF ready THEN Counted(r, mbox.param) ELSE e)
    BY <1>2 DEF PollCount
  <2>2. CASE ready
    <3>1. r.n = -1 /\ mbox.param \in Counts
      BY <1>1, <2>2, <2>1, <1>2
         DEF Lone, CountOK, Uncounted, IsCountReady, Reads, PollCount, LoneInv
    <3>2. TheClient = c /\ cl'[TheClient] = Counted(r, mbox.param)
      BY <2>1, <2>2, OneClient
    <3>3. Transfer!Learn
      BY <1>1, <3>1, <3>2 DEF Counted, Send, ClientState, Transfer!Learn
    <3> QED BY <3>3 DEF Transfer!Next
  <2>3. CASE ~ready
    BY <1>1, <2>1, <2>3, PcKeeps, KeptSeen
  <2> QED BY <2>2, <2>3
<1>3. CASE CheckError(c)
  <2>1. Keeps(r, Send(r, "ERROR_ACK"))
    BY <1>1, SendKeeps
  <2>2. Keeps(r, Again(t, Leave(r)))
    <3>1. Keeps(r, Leave(r)) /\ Keeps(r, [t EXCEPT !.cnt = @ + 1])
      BY <1>1, LeaveKeeps DEF Keeps, ClientState
    <3> QED BY <3>1 DEF Again
  <2>3. PICK error \in IsErrorOccur :
          Step(c, IF error THEN Send(r, "ERROR_ACK") ELSE Again(t, Leave(r)))
    BY <1>3 DEF CheckError
  <2> QED BY <2>1, <2>2, <2>3, KeptSeen
<1> QED BY <1>2, <1>3

\* A count of too few or too many pages is declined.
LEMMA DecideSeen ==
  ASSUME Alone, LocalInv, LoneInv, NEW c \in Clients, Decide(c)
  PROVE  [Transfer!Next]_Transfer!vars
<1> DEFINE r == cl[c]
<1>1. /\ r \in ClientState /\ r.pc = "counted" /\ r.vec = <<>> /\ r.n \in Counts
      /\ r.op \in Ops /\ Step(c, Decided(r))
  BY DEF LocalInv, LoneInv, Lone, CountOK, Good, Waiting, Before, Decide
<1>2. CASE Decided(r) = LeaveWith(r, "EC_NEED_NOT_READ") /\ NeedNotRead(r)
  <2>1. TheClient = c /\ cl'[TheClient] = LeaveWith(r, "EC_NEED_NOT_READ")
    BY <1>1, <1>2, OneClient
  <2>2. r.n \notin 4..16
    BY <1>1, <1>2, FieldTypes DEF NeedNotRead
  <2>3. Transfer!Decline
    BY <1>1, <2>1, <2>2 DEF LeaveWith, ClientState, Transfer!Decline
  <2> QED BY <2>3 DEF Transfer!Next
<1>3. CASE Decided(r) \in {Leave(r), [r EXCEPT !.pc = "idle1"]}
  BY <1>1, <1>3, LeaveKeeps, PcKeeps, KeptSeen
<1> QED BY <1>2, <1>3 DEF Decided

\* The page that is taken is the next one of the log.
LEMMA PageSeen ==
  ASSUME Alone, Reliable, LocalInv, LoneInv, NEW c \in Clients, PollPage(c) \/ FetchPage(c)
  PROVE  [Transfer!Next]_Transfer!vars
<1> DEFINE r == cl[c]
           f == [cl[c] EXCEPT !.pc = "fetch"]
           j == [cl[c] EXCEPT !.pc = "judge"]
<1>1. r \in ClientState /\ r.pc \in {"page", "fetch"} /\ Good(r) /\ Lone(r)
  BY DEF LocalInv, LoneInv, PollPage, FetchPage
<1>2. CASE PollPage(c)
  <2>1. Keeps(r, f) /\ Keeps(r, Again(r, j))
    BY <1>1, PcKeeps, AgainKeeps
  <2>2. PICK ready \in IsLogPageReady(r.idx) : Step(c, IF ready THEN f ELSE Again(r, j))
    BY <1>2 DEF PollPage
  <2> QED BY <2>1, <2>2, KeptSeen
<1>3. CASE FetchPage(c)
  <2>1. PICK ok \in Reads(TRUE) : Step(c, Fetched(r, ok, window))
    BY <1>3 DEF FetchPage
  <2>2. CASE ok
    <3>1. r.pc = "fetch" /\ r.idx <= r.n /\ Len(r.vec) = r.idx - 1 /\ window = r.idx
      BY <1>1, <1>3 DEF FetchPage, Good, Waiting, InPages, Lone, PageOK, Asking
    <3>2. window = Len(r.vec) + 1 /\ Len(r.vec) < r.n
      BY <1>1, <3>1, FieldTypes
    <3>3. TheClient = c /\ cl'[TheClient] = Fetched(r, ok, window)
      BY <2>1, OneClient
    <3>4. Transfer!Take
      BY <1>1, <2>2, <3>1, <3>2, <3>3 DEF Fetched, ClientState, Transfer!Take
    <3> QED BY <3>4 DEF Transfer!Next
  <2>3. CASE ~ok
    <3>1. Keeps(r, Fetched(r, ok, window))
      BY <1>1, <2>3 DEF Fetched, Keeps, ClientState
    <3> QED BY <2>1, <3>1, KeptSeen
  <2> QED BY <2>2, <2>3
<1> QED BY <1>2, <1>3

\* A page that cannot be had ends the call with an empty vector.
LEMMA JudgeSeen ==
  ASSUME Alone, LocalInv, NEW c \in Clients, JudgePage(c) \/ AfterRelease(c)
  PROVE  [Transfer!Next]_Transfer!vars
<1> DEFINE r == cl[c]
           e == LeaveWith([r EXCEPT !.vec = <<>>], "EC_FAILED")
<1>1. r \in ClientState /\ r.pc \in {"judge", "released"} /\ r.status = "EC_FAILED"
  BY DEF LocalInv, Good, JudgePage, AfterRelease
<1>2. CASE JudgePage(c)
  <2>1. CASE Step(c, e)
    <3>1. TheClient = c /\ cl'[TheClient] = e
      BY <2>1, OneClient
    <3>2. e.pc = "off" /\ e.n = r.n /\ e.vec = <<>> /\ e.status = r.status
      BY <1>1 DEF LeaveWith, ClientState
    <3>3. Transfer!GiveUp
      BY <1>1, <3>1, <3>2 DEF Transfer!GiveUp
    <3> QED BY <3>3 DEF Transfer!Next
  <2>2. Keeps(r, Send(r, "PAGE_DONE"))
    BY <1>1, SendKeeps
  <2>3. Keeps(r, Send([r EXCEPT !.retried = TRUE], "PAGE_REQ"))
    BY <1>1 DEF Send, Keeps, ClientState
  <2> QED BY <1>2, <2>1, <2>2, <2>3, KeptSeen DEF JudgePage, Judged
<1>3. CASE AfterRelease(c)
  <2>1. Keeps(r, Released(r))
    BY <1>1, SendKeeps, PcKeeps DEF Released
  <2> QED BY <1>3, <2>1, KeptSeen DEF AfterRelease
<1> QED BY <1>2, <1>3

LEMMA SendSeen ==
  ASSUME Alone, LocalInv, NEW c \in Clients, SendParam(c) \/ SendCmd(c)
  PROVE  [Transfer!Next]_Transfer!vars
<1>1. cl[c] \in ClientState /\ cl[c].pc # "off"
  BY DEF LocalInv, SendParam, SendCmd
<1>2. Keeps(cl[c], [cl[c] EXCEPT !.pc = Then(cl[c].out), !.cnt = 0])
  BY <1>1 DEF Keeps, ClientState
<1> QED BY <1>1, <1>2, PcKeeps, KeptSeen DEF SendParam, SendCmd
-----------------------------------------------------------------------------
LEMMA StepSeen ==
  ASSUME Alone, Reliable
  PROVE  LocalInv /\ LoneInv /\ [Next]_vars => [Transfer!Next]_Transfer!vars
<1> SUFFICES ASSUME LocalInv, LoneInv, [Next]_vars PROVE [Transfer!Next]_Transfer!vars
  OBVIOUS
<1>1. ASSUME NEW c \in Clients, Call(c) \/ Die(c) PROVE Transfer!Next
  BY <1>1, CallSeen, DieSeen DEF Transfer!Next
<1>2. ASSUME NEW c \in Clients, Run(c) PROVE [Transfer!Next]_Transfer!vars
  BY <1>2, AwaitSeen, AllReadSeen, SendSeen, CountSeen, DecideSeen, PageSeen, JudgeSeen
     DEF Run
<1>3. UNCHANGED cl => UNCHANGED Transfer!vars
  BY DEF Transfer!vars
<1>4. EcAnswer \/ EcFail \/ UNCHANGED vars => UNCHANGED cl
  BY DEF EcAnswer, EcTake, EcGiveCount, EcGivePage, EcGoIdle, EcFail, vars
<1> QED BY <1>1, <1>2, <1>3, <1>4 DEF Next

\* What the caller of a lone client sees is what LogTransfer promises: a count,
\* the pages in order, and success only with all of them.
THEOREM TransferRefined ==
  ASSUME Alone, Clients # {}, Reliable
  PROVE  Spec => TransferImplemented
<1>1. Init => Transfer!Init
  <2> SUFFICES ASSUME Init PROVE Transfer!Init
    OBVIOUS
  <2>1. TheClient \in Clients
    BY DEF TheClient
  <2>2. cl[TheClient] = Leave(Entered("none"))
    BY <2>1 DEF Init
  <2> QED BY <2>2 DEF Leave, Entered, Transfer!Init
<1>2. LocalInv /\ LoneInv /\ [Next]_vars => [Transfer!Next]_Transfer!vars
  BY StepSeen
<1> QED BY <1>1, <1>2, LocalInvariant, LoneInvariant, PTL
        DEF Spec, TransferImplemented, Transfer!Spec
=============================================================================

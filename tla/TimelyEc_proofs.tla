-------------------------- MODULE TimelyEc_proofs --------------------------
(***************************************************************************)
(* Proofs about EcLog with one client, whose writes succeed, and an EC     *)
(* that has always answered when the client wakes up: success means that   *)
(* the EC was told, and when nothing else goes wrong no call fails.        *)
(***************************************************************************)
EXTENDS LoneClient_proofs

Timely == "ec" \notin Faults

(***************************************************************************)
(* The end of a transfer.  ALL_DONE is written to an EC that has nothing   *)
(* in hand, so that nothing but ALL_DONE can make it idle again.           *)
(***************************************************************************)
EndOK(r) ==
  /\ Sends(r, "ALL_DONE") => job = NoJob /\ mbox.cmd \notin HostCommands
  /\ r.pc = "idle3" =>
       told \/ (mbox.cmd = "ALL_DONE" /\ job.cmd \in {"IDLE", "ALL_DONE"})
  /\ r.pc = "off" /\ r.status = "EC_SUCCESS" => told

\* The invariant behind SuccessMeansTold, relative to LocalInv and LoneInv.
EndInv == \A c \in Clients : EndOK(cl[c])

\* A client that is not at the end of a transfer.
LEMMA NotAtEnd ==
  ASSUME NEW r, ~Sends(r, "ALL_DONE"), r.pc # "idle3", r.status # "EC_SUCCESS" \/ r.pc # "off"
  PROVE  EndOK(r)
  BY DEF EndOK

LEMMA EndStepped ==
  ASSUME LocalInv, EndInv, NEW c \in Clients, NEW t, EndOK(t), Step(c, t), UNCHANGED shared
  PROVE  EndInv'
<1>1. \A d \in Clients : cl'[d] = IF d = c THEN t ELSE cl[d]
  BY DEF Step, LocalInv
<1>2. \A d \in Clients : EndOK(cl'[d])
  BY <1>1 DEF EndInv
<1>3. \A d \in Clients : EndOK(cl[d])'
  BY <1>2 DEF shared, ec, EndOK, Sends
<1> QED BY <1>3 DEF EndInv

LEMMA LeaveEnd ==
  ASSUME NEW r, Good(r), r.pc # "off"
  PROVE  EndOK(Leave(r))
<1>1. Leave(r).pc = "off" /\ Leave(r).status = "EC_FAILED"
  BY DEF Leave, ClientState, Good
<1> QED BY <1>1, NotAtEnd DEF Sends

LEMMA AgainEnd ==
  ASSUME NEW r \in ClientState, EndOK(r), NEW last, EndOK(last)
  PROVE  EndOK(Again(r, last))
<1> DEFINE t == [r EXCEPT !.cnt = @ + 1]
<1>1. t.pc = r.pc /\ t.out = r.out /\ t.status = r.status
  BY DEF ClientState
<1> HIDE DEF t
<1>2. EndOK(t)
  BY <1>1 DEF EndOK, Sends
<1> QED BY <1>2 DEF Again, t

LEMMA SendEnd ==
  ASSUME NEW r \in ClientState, NEW s, s # "ALL_DONE"
  PROVE  EndOK(Send(r, s))
<1>1. Send(r, s).pc = "param" /\ Send(r, s).out = s
  BY SendIs
<1> QED BY <1>1, NotAtEnd DEF Sends

LEMMA RestEnd ==
  ASSUME NEW r \in ClientState, NEW pc, pc \notin {"off", "param", "cmd", "idle3"}
  PROVE  EndOK([r EXCEPT !.pc = pc])
<1>1. [r EXCEPT !.pc = pc].pc = pc
  BY DEF ClientState
<1> QED BY <1>1, NotAtEnd DEF Sends

LEMMA CallEnd ==
  ASSUME LocalInv, EndInv, NEW c \in Clients, Call(c) \/ Die(c)
  PROVE  EndInv'
<1>1. \A op : EndOK(Entered(op)) /\ EndOK(Leave(Entered(op)))
              /\ EndOK(LeaveWith(Entered(op), "EC_CREATE_FILE_FAILED"))
  BY DEF Entered, Leave, LeaveWith, EndOK, Sends
<1> QED BY <1>1, EndStepped DEF Call, Die

\* The wait after the last command is over only when the EC has taken it.
LEMMA AwaitEnd ==
  ASSUME LocalInv, EndInv, NEW c \in Clients,
         \/ AwaitIdleToCount(c) \/ AwaitIdleToRead(c)
         \/ AwaitIdleNextPage(c) \/ AwaitIdleAllRead(c)
  PROVE  EndInv'
<1> DEFINE r == cl[c]
<1>1. r \in ClientState /\ Good(r) /\ EndOK(r)
  BY DEF LocalInv, EndInv
<1>2. ASSUME NEW pc, pc # "off", NEW found, AwaitIdle(c, pc, found),
             r.pc = pc /\ mbox.cmd = "IDLE" => EndOK(found)
      PROVE  EndInv'
  <2>1. EndOK(Again(r, Leave(r)))
    BY <1>1, <1>2, LeaveEnd, AgainEnd DEF AwaitIdle
  <2>2. PICK t : Step(c, t) /\ EndOK(t)
    BY <1>2, <2>1 DEF AwaitIdle, IsECIdle, Reads
  <2>3. UNCHANGED shared
    BY <1>2 DEF AwaitIdle
  <2> QED BY <2>2, <2>3, EndStepped
<1>3. EndOK(Send(r, "COUNT_REQ")) /\ EndOK(Send(r, "PAGE_REQ"))
  BY <1>1, SendEnd
<1>4. EndOK(NextPage(r))
  <2>1. NextPage(r).pc = "param" /\ NextPage(r).out = "PAGE_REQ"
    BY <1>1 DEF NextPage, Send, ClientState
  <2> QED BY <2>1, NotAtEnd DEF Sends
<1>5. r.pc = "idle3" /\ mbox.cmd = "IDLE" => EndOK(LeaveWith(r, "EC_SUCCESS"))
  <2>1. LeaveWith(r, "EC_SUCCESS").pc = "off"
    BY <1>1 DEF LeaveWith, ClientState
  <2> QED BY <1>1, <2>1 DEF EndOK, Sends
<1> QED BY <1>2, <1>3, <1>4, <1>5
        DEF AwaitIdleToCount, AwaitIdleToRead, AwaitIdleNextPage, AwaitIdleAllRead

LEMMA PollEnd ==
  ASSUME LocalInv, EndInv, NEW c \in Clients,
         PollCount(c) \/ CheckError(c) \/ PollPage(c) \/ FetchPage(c)
  PROVE  EndInv'
<1> DEFINE r == cl[c]
           t == [cl[c] EXCEPT !.pc = "count"]
<1>1. r \in ClientState /\ Good(r) /\ EndOK(r) /\ UNCHANGED shared
  BY DEF LocalInv, EndInv, PollCount, CheckError, PollPage, FetchPage
<1>2. CASE PollCount(c)
  <2>1. EndOK(Counted(r, mbox.param))
    <3>1. Counted(r, mbox.param).pc = "param" /\ Counted(r, mbox.param).out = "COUNT_DONE"
      BY <1>1 DEF Counted, Send, ClientState
    <3> QED BY <3>1, NotAtEnd DEF Sends
  <2>2. EndOK([r EXCEPT !.pc = "error"])
    BY <1>1, RestEnd
  <2> QED BY <1>1, <1>2, <2>1, <2>2, EndStepped DEF PollCount
<1>3. CASE CheckError(c)
  <2>1. EndOK(Send(r, "ERROR_ACK")) /\ EndOK(t)
    BY <1>1, SendEnd, RestEnd
  <2>2. EndOK(Leave(r))
    BY <1>1, <1>3, LeaveEnd DEF CheckError
  <2>3. t \in ClientState
    BY <1>1, PcSet DEF PCs
  <2>4. EndOK(Again(t, Leave(r)))
    BY <2>1, <2>2, <2>3, AgainEnd
  <2> QED BY <1>1, <1>3, <2>1, <2>4, EndStepped DEF CheckError
<1>4. CASE PollPage(c)
  <2>1. EndOK([r EXCEPT !.pc = "fetch"]) /\ EndOK([r EXCEPT !.pc = "judge"])
    BY <1>1, RestEnd
  <2>2. EndOK(Again(r, [r EXCEPT !.pc = "judge"]))
    BY <1>1, <2>1, AgainEnd
  <2> QED BY <1>1, <1>4, <2>1, <2>2, EndStepped DEF PollPage
<1>5. CASE FetchPage(c)
  <2>1. \A ok : EndOK(Fetched(r, ok, window))
    <3>1. \A ok : Fetched(r, ok, window).pc = "judge"
      BY <1>1 DEF Fetched, ClientState
    <3> QED BY <3>1, NotAtEnd DEF Sends
  <2> QED BY <1>1, <1>5, <2>1, EndStepped DEF FetchPage
<1> QED BY <1>2, <1>3, <1>4, <1>5

\* After the Sleep the EC has dealt with the release of the last page.
LEMMA ComputeEnd ==
  ASSUME Timely, LocalInv, EndInv, NEW c \in Clients,
         Decide(c) \/ JudgePage(c) \/ AfterRelease(c)
  PROVE  EndInv'
<1> DEFINE r == cl[c]
<1>1. r \in ClientState /\ Good(r) /\ r.pc # "off" /\ UNCHANGED shared
  BY DEF LocalInv, Decide, JudgePage, AfterRelease
<1>2. CASE Decide(c)
  <2>1. EndOK(LeaveWith(r, "EC_NEED_NOT_READ"))
    <3>1. LeaveWith(r, "EC_NEED_NOT_READ").status = "EC_NEED_NOT_READ"
          /\ LeaveWith(r, "EC_NEED_NOT_READ").pc = "off"
      BY <1>1 DEF LeaveWith, ClientState
    <3> QED BY <3>1, NotAtEnd DEF Sends
  <2>2. EndOK(Decided(r))
    BY <1>1, <2>1, LeaveEnd, RestEnd DEF Decided
  <2> QED BY <1>1, <1>2, <2>2, EndStepped DEF Decide
<1>3. CASE JudgePage(c)
  <2>1. EndOK(LeaveWith([r EXCEPT !.vec = <<>>], "EC_FAILED"))
    <3> DEFINE t == LeaveWith([r EXCEPT !.vec = <<>>], "EC_FAILED")
    <3>1. t.status = "EC_FAILED" /\ t.pc = "off"
      BY <1>1 DEF LeaveWith, ClientState
    <3> HIDE DEF t
    <3>2. EndOK(t)
      BY <3>1, NotAtEnd DEF Sends
    <3> QED BY <3>2 DEF t
  <2>2. EndOK(Send([r EXCEPT !.retried = TRUE], "PAGE_REQ"))
    <3> DEFINE t == Send([r EXCEPT !.retried = TRUE], "PAGE_REQ")
    <3>1. t.pc = "param" /\ t.out = "PAGE_REQ"
      BY <1>1 DEF Send, ClientState
    <3> HIDE DEF t
    <3>2. EndOK(t)
      BY <3>1, NotAtEnd DEF Sends
    <3> QED BY <3>2 DEF t
  <2>3. EndOK(Judged(r))
    BY <1>1, <2>1, <2>2, SendEnd DEF Judged
  <2> QED BY <1>1, <1>3, <2>3, EndStepped DEF JudgePage
<1>4. CASE AfterRelease(c)
  <2>1. job = NoJob /\ mbox.cmd \notin HostCommands
    BY <1>4 DEF AfterRelease, Slept, Timely
  <2>2. EndOK(Send(r, "ALL_DONE"))
    <3>1. Send(r, "ALL_DONE").pc = "param"
      BY <1>1, SendIs
    <3> QED BY <2>1, <3>1 DEF EndOK
  <2>3. EndOK(Released(r))
    BY <1>1, <2>2, RestEnd DEF Released
  <2> QED BY <1>1, <1>4, <2>3, EndStepped DEF AfterRelease
<1> QED BY <1>2, <1>3, <1>4

\* ALL_DONE goes into a mailbox that the EC leaves alone.
LEMMA SendEnds ==
  ASSUME Alone, Reliable, LocalInv, EndInv, NEW c \in Clients, SendParam(c) \/ SendCmd(c)
  PROVE  EndInv'
<1> DEFINE r == cl[c]
<1>1. r \in ClientState /\ EndOK(r) /\ UNCHANGED <<job, told>> /\ r.out \in Signals
  BY DEF LocalInv, EndInv, SendParam, SendCmd, ec, ClientState
<1>2. CASE SendParam(c)
  <2>1. cl'[c].pc = "cmd" /\ cl'[c].out = r.out /\ r.pc = "param"
    BY <1>1, <1>2 DEF SendParam, Step, LocalInv, ClientState
  <2>2. mbox'.cmd = mbox.cmd
    BY <1>2 DEF SendParam, Writes, LocalInv, EnvOK
  <2>3. EndOK(cl[c])'
    BY <1>1, <2>1, <2>2 DEF EndOK, Sends
  <2> QED BY <2>3 DEF EndInv, Alone
<1>3. CASE SendCmd(c)
  <2>1. cl'[c].pc = Then(r.out) /\ cl'[c].out = r.out /\ cl'[c].status = r.status
        /\ r.pc = "cmd"
    BY <1>1, <1>3 DEF SendCmd, Step, LocalInv, ClientState
  <2>2. mbox'.cmd = Word(r.out)
    BY <1>3 DEF SendCmd, Writes, Reliable, LocalInv, EnvOK
  <2>3. r.status # "EC_SUCCESS"
    BY <2>1 DEF LocalInv, Good
  <2>4. EndOK(cl[c])'
    BY <1>1, <2>1, <2>2, <2>3 DEF EndOK, Sends, Then, Word, Signals, HostCommands, NoJob
  <2> QED BY <2>4 DEF EndInv, Alone
<1> QED BY <1>2, <1>3

\* The EC gives no new count to a client that has one, and goes idle only by
\* taking ALL_DONE.
LEMMA EcEnd ==
  ASSUME LocalInv, LoneInv, EndInv, EcAnswer
  PROVE  EndInv'
<1> SUFFICES ASSUME NEW c \in Clients PROVE EndOK(cl[c])'
  BY DEF EndInv
<1> DEFINE r == cl[c]
<1>1. UNCHANGED cl /\ Good(r) /\ EndOK(r) /\ CountOK(r)
  BY DEF EcAnswer, EcTake, EcGiveCount, EcGivePage, EcGoIdle, LocalInv, LoneInv, Lone, EndInv
<1>2. ASSUME EcGiveCount
      PROVE  ~Sends(r, "ALL_DONE") /\ r.pc # "idle3" /\ r.status # "EC_SUCCESS"
  <2>1. r.n = -1
    BY <1>1, <1>2 DEF EcGiveCount, CountOK
  <2> QED BY <1>1, <2>1 DEF Good, Sends, Sending, Waiting, InPages
<1>3. CASE EcTake
  BY <1>1, <1>3 DEF EcTake, EndOK, Sends
<1>4. CASE EcGiveCount
  BY <1>1, <1>2, <1>4 DEF EndOK, Sends
<1>5. CASE EcGivePage
  BY <1>1, <1>5 DEF EcGivePage, EndOK, Sends, NoJob
<1>6. CASE EcGoIdle
  <2>1. ~Sends(r, "ALL_DONE")
    BY <1>1, <1>6 DEF EcGoIdle, EndOK, NoJob
  <2>2. told \/ job.cmd = "ALL_DONE" => told'
    BY <1>6 DEF EcGoIdle
  <2>3. r.pc = "idle3" => told'
    BY <1>1, <1>6, <2>2 DEF EcGoIdle, EndOK
  <2>4. r.pc = "off" /\ r.status = "EC_SUCCESS" => told'
    BY <1>1, <2>2 DEF EndOK
  <2> QED BY <1>1, <2>1, <2>3, <2>4 DEF EndOK, Sends
<1> QED BY <1>3, <1>4, <1>5, <1>6 DEF EcAnswer

LEMMA NextEnd ==
  ASSUME Alone, Reliable, Timely
  PROVE  LocalInv /\ LoneInv /\ EndInv /\ [Next]_vars => EndInv'
<1> SUFFICES ASSUME LocalInv, LoneInv, EndInv, [Next]_vars PROVE EndInv'
  OBVIOUS
<1>1. ASSUME NEW c \in Clients, Call(c) \/ Die(c) PROVE EndInv'
  BY <1>1, CallEnd
<1>2. ASSUME NEW c \in Clients, Run(c) PROVE EndInv'
  BY <1>2, AwaitEnd, PollEnd, ComputeEnd, SendEnds DEF Run
<1>3. ~EcFail
  BY DEF EcFail, Timely
<1>4. CASE UNCHANGED vars
  BY <1>4 DEF vars, EndInv, EndOK, Sends
<1> QED BY <1>1, <1>2, <1>3, <1>4, EcEnd DEF Next

\* EC_SUCCESS means that the EC has been told that the whole log was read, also
\* when reads fail and earlier processes died inside a call.
THEOREM SuccessTold ==
  ASSUME Alone, Reliable, Timely
  PROVE  Spec => []SuccessMeansTold
<1>1. Init => EndInv
  <2> SUFFICES ASSUME Init, NEW c \in Clients PROVE EndOK(cl[c])
    BY DEF EndInv
  <2>1. cl[c].pc = "off" /\ cl[c].status = "EC_FAILED"
    BY DEF Init, Leave, Entered
  <2> QED BY <2>1, NotAtEnd DEF Sends
<1>2. LocalInv /\ LoneInv /\ EndInv /\ [Next]_vars => EndInv'
  BY NextEnd
<1>3. EndInv => SuccessMeansTold
  BY DEF EndInv, EndOK, SuccessMeansTold
<1> QED BY <1>1, <1>2, <1>3, LocalInvariant, LoneInvariant, PTL DEF Spec
-----------------------------------------------------------------------------
(***************************************************************************)
(* A call that nothing goes wrong in.  When the client acts, the mailbox   *)
(* holds the answer to its last command; between two commands it holds     *)
(* none, and the EC has at most an acknowledgement left to work on.        *)
(***************************************************************************)
Closing == {"IDLE", "COUNT_DONE", "PAGE_DONE", "ALL_DONE"}

\* The client neither waits for an answer nor holds one.
Between(r) == r.pc \in {"off", "idle0", "counted", "idle1", "released", "idle2", "idle3"}

MailboxOK(r) ==
  /\ Between(r) => mbox.cmd \in Closing /\ job.cmd \in Closing
  /\ Sends(r, "COUNT_REQ") \/ Sends(r, "PAGE_REQ") \/ Sends(r, "ALL_DONE") =>
       mbox.cmd = "IDLE"
  /\ Sends(r, "COUNT_DONE") => mbox.cmd = "COUNT_READY"
  /\ r.pc \in {"fetch", "judge"} \/ Sends(r, "PAGE_DONE") => mbox.cmd = "PAGE_READY"
  /\ r.pc \in {"count", "error"} =>
       mbox.cmd \in {"COUNT_REQ", "COUNT_READY"} /\ job.cmd \in {"IDLE", "COUNT_REQ"}
  /\ r.pc = "page" => mbox.cmd \in {"PAGE_REQ", "PAGE_READY"}

\* No loop has run out, no error was seen, and no page is missing.
Unfailing(r) ==
  /\ ~Sends(r, "ERROR_ACK")
  /\ r.pc = "error" => r.cnt = 0
  /\ r.pc = "judge" => Len(r.vec) = r.idx
  /\ r.pc = "off" => ~Failed(r)

\* The invariant behind TimelyNeverFails, relative to LocalInv and LoneInv.
TimelyInv == \A c \in Clients : MailboxOK(cl[c]) /\ Unfailing(cl[c])

LEMMA TimelyStepped ==
  ASSUME LocalInv, TimelyInv, NEW c \in Clients, NEW t, MailboxOK(t), Unfailing(t),
         Step(c, t), UNCHANGED shared
  PROVE  TimelyInv'
<1>1. \A d \in Clients : cl'[d] = IF d = c THEN t ELSE cl[d]
  BY DEF Step, LocalInv
<1>2. \A d \in Clients : MailboxOK(cl'[d]) /\ Unfailing(cl'[d])
  BY <1>1 DEF TimelyInv
<1>3. \A d \in Clients : MailboxOK(cl[d])' /\ Unfailing(cl[d])'
  BY <1>2 DEF shared, ec, MailboxOK, Unfailing, Between, Sends, Failed
<1> QED BY <1>3 DEF TimelyInv

\* A client about to write a signal that the mailbox is ready for.
LEMMA SendTimely ==
  ASSUME NEW t, t.pc = "param", t.out # "ERROR_ACK",
         t.out \in {"COUNT_REQ", "PAGE_REQ", "ALL_DONE"} => mbox.cmd = "IDLE",
         t.out = "COUNT_DONE" => mbox.cmd = "COUNT_READY",
         t.out = "PAGE_DONE" => mbox.cmd = "PAGE_READY"
  PROVE  MailboxOK(t) /\ Unfailing(t)
  BY DEF MailboxOK, Unfailing, Between, Sends

\* A stage between two commands.
LEMMA BetweenTimely ==
  ASSUME NEW t, Between(t), mbox.cmd \in Closing, job.cmd \in Closing,
         t.pc = "off" => ~Failed(t)
  PROVE  MailboxOK(t) /\ Unfailing(t)
  BY DEF MailboxOK, Unfailing, Between, Sends

LEMMA AgainTimely ==
  ASSUME NEW r \in ClientState, MailboxOK(r), Unfailing(r), r.pc \notin {"off", "error"}
  PROVE  MailboxOK([r EXCEPT !.cnt = @ + 1]) /\ Unfailing([r EXCEPT !.cnt = @ + 1])
<1> DEFINE t == [r EXCEPT !.cnt = @ + 1]
<1>1. t.pc = r.pc /\ t.out = r.out /\ t.idx = r.idx /\ t.vec = r.vec
  BY DEF ClientState
<1> HIDE DEF t
<1>2. MailboxOK(t) /\ Unfailing(t)
  BY <1>1 DEF MailboxOK, Unfailing, Between, Sends
<1> QED BY <1>2 DEF t

\* A poll loop runs out only after a Sleep.
LEMMA RunsOut ==
  ASSUME MAX_CHECK_COUNT >= 2, NEW r \in ClientState
  PROVE  /\ r.cnt = 0 => r.cnt + 1 < MAX_CHECK_COUNT
         /\ r.cnt # 0 => r.cnt > 0
  BY FieldTypes, EcLogAssumption

LEMMA CallTimely ==
  ASSUME Faults = {}, LocalInv, TimelyInv, NEW c \in Clients, Call(c) \/ Die(c)
  PROVE  TimelyInv'
<1>1. Call(c) /\ UNCHANGED shared
  BY DEF Call, Die
<1>2. cl[c].pc = "off" /\ mbox.cmd \in Closing /\ job.cmd \in Closing
  BY <1>1 DEF Call, TimelyInv, MailboxOK, Between
<1>3. PICK op \in Ops : \/ Step(c, Entered(op))
                        \/ Step(c, LeaveWith(Entered(op), "EC_CREATE_FILE_FAILED"))
  BY <1>1 DEF Call
<1>4. Between(Entered(op)) /\ Entered(op).pc # "off"
  BY DEF Entered, Between
<1>5. /\ Between(LeaveWith(Entered(op), "EC_CREATE_FILE_FAILED"))
      /\ ~Failed(LeaveWith(Entered(op), "EC_CREATE_FILE_FAILED"))
  BY DEF Entered, LeaveWith, Between, Failed
<1> QED BY <1>1, <1>2, <1>3, <1>4, <1>5, BetweenTimely, TimelyStepped

\* A wait for an idle EC is over at the latest after one Sleep.
LEMMA AwaitTimely ==
  ASSUME Faults = {}, MAX_CHECK_COUNT >= 2, LocalInv, LoneInv, TimelyInv, NEW c \in Clients,
         \/ AwaitIdleToCount(c) \/ AwaitIdleToRead(c)
         \/ AwaitIdleNextPage(c) \/ AwaitIdleAllRead(c)
  PROVE  TimelyInv'
<1> DEFINE r == cl[c]
<1>1. r \in ClientState /\ MailboxOK(r) /\ Unfailing(r) /\ JobInv /\ Good(r)
  BY DEF LocalInv, LoneInv, TimelyInv
<1>2. ASSUME NEW pc, pc \in {"idle0", "idle1", "idle2", "idle3"}, NEW found,
             AwaitIdle(c, pc, found), mbox.cmd = "IDLE" => MailboxOK(found) /\ Unfailing(found)
      PROVE  TimelyInv'
  <2>1. r.pc = pc /\ mbox.cmd \in Closing /\ UNCHANGED shared
    BY <1>1, <1>2 DEF AwaitIdle, MailboxOK, Between
  <2>2. CASE mbox.cmd = "IDLE"
    <3>1. Step(c, found)
      BY <1>2, <2>2 DEF AwaitIdle, IsECIdle, Reads
    <3> QED BY <1>2, <2>1, <2>2, <3>1, TimelyStepped
  <2>3. CASE mbox.cmd # "IDLE"
    <3>1. ~Slept
      BY <2>1, <2>3 DEF Slept, Closing, HostCommands
    <3>2. r.cnt + 1 < MAX_CHECK_COUNT
      BY <1>1, <1>2, <3>1, RunsOut DEF AwaitIdle
    <3>3. Step(c, [r EXCEPT !.cnt = @ + 1])
      BY <1>2, <2>3, <3>2 DEF AwaitIdle, IsECIdle, Reads, Again
    <3> QED BY <1>1, <1>2, <2>1, <3>3, AgainTimely, TimelyStepped
  <2> QED BY <2>2, <2>3
<1>3. mbox.cmd = "IDLE" => job.cmd \in Closing /\ mbox.cmd \in Closing
  BY <1>1 DEF JobInv, HostCommands, NoJob, Closing
<1>4. \A s \in {"COUNT_REQ", "PAGE_REQ"} : mbox.cmd = "IDLE" =>
        MailboxOK(Send(r, s)) /\ Unfailing(Send(r, s))
  BY <1>1, SendIs, SendTimely
<1>5. mbox.cmd = "IDLE" => MailboxOK(NextPage(r)) /\ Unfailing(NextPage(r))
  <2>1. NextPage(r).pc = "param" /\ NextPage(r).out = "PAGE_REQ"
    BY <1>1 DEF NextPage, Send, ClientState
  <2> QED BY <2>1, SendTimely
<1>6. mbox.cmd = "IDLE" /\ r.pc = "idle3" =>
        MailboxOK(LeaveWith(r, "EC_SUCCESS")) /\ Unfailing(LeaveWith(r, "EC_SUCCESS"))
  <2> DEFINE t == LeaveWith(r, "EC_SUCCESS")
  <2>1. t.pc = "off" /\ t.n = r.n /\ t.op = r.op /\ t.status = "EC_SUCCESS"
    BY <1>1 DEF LeaveWith, ClientState
  <2> HIDE DEF t
  <2>2. r.pc = "idle3" => r.n # -1
    BY <1>1 DEF Good, Waiting, InPages
  <2>3. r.pc = "idle3" => Between(t) /\ ~Failed(t)
    BY <2>1, <2>2 DEF Between, Failed
  <2>4. mbox.cmd = "IDLE" /\ r.pc = "idle3" => MailboxOK(t) /\ Unfailing(t)
    BY <1>3, <2>3, BetweenTimely
  <2> QED BY <2>4 DEF t
<1>7. AwaitIdleAllRead(c) => r.pc = "idle3"
  BY DEF AwaitIdleAllRead, AwaitIdle
<1> QED BY <1>2, <1>4, <1>5, <1>6, <1>7
        DEF AwaitIdleToCount, AwaitIdleToRead, AwaitIdleNextPage, AwaitIdleAllRead

\* The count is there after one Sleep, and no error was read before it.
LEMMA CountTimely ==
  ASSUME Faults = {}, MAX_CHECK_COUNT >= 2, LocalInv, TimelyInv, NEW c \in Clients,
         PollCount(c) \/ CheckError(c)
  PROVE  TimelyInv'
<1> DEFINE r == cl[c]
           t == [cl[c] EXCEPT !.pc = "count"]
           e == [cl[c] EXCEPT !.pc = "error"]
<1>1. /\ r \in ClientState /\ MailboxOK(r) /\ Unfailing(r) /\ UNCHANGED shared
      /\ r.pc \in {"count", "error"} /\ mbox.cmd \in {"COUNT_REQ", "COUNT_READY"}
      /\ job.cmd \in {"IDLE", "COUNT_REQ"}
  BY DEF LocalInv, TimelyInv, PollCount, CheckError, MailboxOK
<1>2. CASE PollCount(c)
  <2>1. CASE mbox.cmd = "COUNT_READY"
    <3>1. Step(c, Counted(r, mbox.param))
      BY <1>2, <2>1 DEF PollCount, IsCountReady, Reads
    <3>2. Counted(r, mbox.param).pc = "param" /\ Counted(r, mbox.param).out = "COUNT_DONE"
      BY <1>1 DEF Counted, Send, ClientState
    <3> QED BY <1>1, <2>1, <3>1, <3>2, SendTimely, TimelyStepped
  <2>2. CASE mbox.cmd = "COUNT_REQ"
    <3>1. ~Slept
      BY <2>2 DEF Slept, HostCommands
    <3>2. r.cnt = 0
      BY <1>1, <1>2, <3>1, FieldTypes, RunsOut DEF PollCount
    <3>3. Step(c, e)
      BY <1>2, <2>2 DEF PollCount, IsCountReady, Reads
    <3>4. e.pc = "error" /\ e.cnt = 0
      BY <1>1, <3>2 DEF ClientState
    <3> HIDE DEF e
    <3>5. MailboxOK(e) /\ Unfailing(e)
      BY <1>1, <3>4 DEF MailboxOK, Unfailing, Between, Sends
    <3> QED BY <1>1, <3>3, <3>5, TimelyStepped
  <2>3. mbox.cmd \in {"COUNT_REQ", "COUNT_READY"}
    BY <1>1
  <2> QED BY <2>1, <2>2, <2>3
<1>3. CASE CheckError(c)
  <2>1. r.pc = "error" /\ r.cnt = 0
    BY <1>1, <1>3 DEF CheckError, Unfailing
  <2>2. t.pc = "count" /\ t.cnt = 0 /\ t \in ClientState
    <3>1. t \in ClientState
      BY <1>1, PcSet DEF PCs
    <3>2. t.pc = "count" /\ t.cnt = r.cnt
      BY <1>1 DEF ClientState
    <3> QED BY <2>1, <3>1, <3>2
  <2>3. Step(c, Again(t, Leave(r)))
    BY <1>1, <1>3 DEF CheckError, IsErrorOccur, Reads
  <2>4. Step(c, [t EXCEPT !.cnt = @ + 1])
    BY <2>2, <2>3, RunsOut DEF Again
  <2>5. MailboxOK(t) /\ Unfailing(t)
    <3> HIDE DEF t
    <3> QED BY <1>1, <2>2 DEF MailboxOK, Unfailing, Between, Sends
  <2>6. MailboxOK([t EXCEPT !.cnt = @ + 1]) /\ Unfailing([t EXCEPT !.cnt = @ + 1])
    BY <2>2, <2>5, AgainTimely
  <2> QED BY <1>1, <2>4, <2>6, TimelyStepped
<1> QED BY <1>2, <1>3

\* The page is there after one Sleep, and it can be fetched.
LEMMA PageTimely ==
  ASSUME Faults = {}, MAX_CHECK_COUNT >= 2, LocalInv, LoneInv, TimelyInv, NEW c \in Clients,
         PollPage(c) \/ FetchPage(c)
  PROVE  TimelyInv'
<1> DEFINE r == cl[c]
           f == [cl[c] EXCEPT !.pc = "fetch"]
           j == Fetched(cl[c], TRUE, window)
<1>1. /\ r \in ClientState /\ MailboxOK(r) /\ Unfailing(r) /\ Good(r) /\ Lone(r)
      /\ UNCHANGED shared
  BY DEF LocalInv, LoneInv, TimelyInv, PollPage, FetchPage
<1>2. CASE PollPage(c)
  <2>1. r.pc = "page" /\ mbox.cmd \in {"PAGE_REQ", "PAGE_READY"}
    BY <1>1, <1>2 DEF PollPage, MailboxOK
  <2>2. CASE mbox.cmd = "PAGE_READY"
    <3>1. mbox.param = r.idx
      BY <1>1, <2>1, <2>2 DEF Lone, PageOK, Reliable, Asking
    <3>2. Step(c, f)
      BY <1>2, <2>2, <3>1 DEF PollPage, IsLogPageReady, Reads
    <3>3. f.pc = "fetch"
      BY <1>1 DEF ClientState
    <3> HIDE DEF f
    <3>4. MailboxOK(f) /\ Unfailing(f)
      BY <2>2, <3>3 DEF MailboxOK, Unfailing, Between, Sends
    <3> QED BY <1>1, <3>2, <3>4, TimelyStepped
  <2>3. CASE mbox.cmd = "PAGE_REQ"
    <3>1. ~Slept
      BY <2>3 DEF Slept, HostCommands
    <3>2. r.cnt + 1 < MAX_CHECK_COUNT
      BY <1>1, <1>2, <3>1, RunsOut DEF PollPage
    <3>3. Step(c, [r EXCEPT !.cnt = @ + 1])
      BY <1>2, <2>3, <3>2 DEF PollPage, IsLogPageReady, Reads, Again
    <3> QED BY <1>1, <2>1, <3>3, AgainTimely, TimelyStepped
  <2> QED BY <2>1, <2>2, <2>3
<1>3. CASE FetchPage(c)
  <2>1. r.pc = "fetch" /\ mbox.cmd = "PAGE_READY" /\ Step(c, j)
    BY <1>1, <1>3 DEF FetchPage, MailboxOK, Reads
  <2>2. /\ r.vec \in Seq(Nat) /\ Len(r.vec) = r.idx - 1 /\ r.idx \in Nat
        /\ window \in Nat
    BY <1>1, <2>1, FieldTypes DEF Good, Waiting, LocalInv, EnvOK
  <2>3. j.pc = "judge" /\ j.vec = Append(r.vec, window) /\ j.idx = r.idx
    BY <1>1 DEF Fetched, ClientState
  <2> HIDE DEF j
  <2>4. Len(j.vec) = j.idx
    BY <2>2, <2>3
  <2>5. MailboxOK(j) /\ Unfailing(j)
    BY <2>1, <2>3, <2>4 DEF MailboxOK, Unfailing, Between, Sends
  <2> QED BY <1>1, <2>1, <2>5, TimelyStepped
<1> QED BY <1>2, <1>3

\* What is decided without another access fails nothing either.
LEMMA ComputeTimely ==
  ASSUME Faults = {}, LocalInv, TimelyInv, NEW c \in Clients,
         Decide(c) \/ JudgePage(c) \/ AfterRelease(c)
  PROVE  TimelyInv'
<1> DEFINE r == cl[c]
<1>1. /\ r \in ClientState /\ MailboxOK(r) /\ Unfailing(r) /\ Good(r) /\ UNCHANGED shared
      /\ r.idx \in Nat
  BY FieldTypes DEF LocalInv, TimelyInv, Decide, JudgePage, AfterRelease
<1>2. CASE Decide(c)
  <2>1. r.pc = "counted" /\ r.n # -1 /\ mbox.cmd \in Closing /\ job.cmd \in Closing
    BY <1>1, <1>2 DEF Decide, MailboxOK, Between, Good, Waiting
  <2>2. CASE r.op = "GetECLogPageCount"
    <3>1. Step(c, Leave(r))
      BY <1>2, <2>2 DEF Decide, Decided
    <3>2. Leave(r).pc = "off" /\ Leave(r).n # -1 /\ Leave(r).op = "GetECLogPageCount"
      BY <1>1, <2>1, <2>2 DEF Leave, ClientState
    <3>3. Between(Leave(r)) /\ ~Failed(Leave(r))
      BY <3>2 DEF Between, Failed
    <3> QED BY <1>1, <2>1, <3>1, <3>3, BetweenTimely, TimelyStepped
  <2>3. CASE r.op # "GetECLogPageCount" /\ NeedNotRead(r)
    <3> DEFINE t == LeaveWith(r, "EC_NEED_NOT_READ")
    <3>1. Step(c, t)
      BY <1>2, <2>3 DEF Decide, Decided
    <3>2. t.pc = "off" /\ t.op = r.op /\ t.status = "EC_NEED_NOT_READ"
      BY <1>1 DEF LeaveWith, ClientState
    <3> HIDE DEF t
    <3>3. Between(t) /\ ~Failed(t)
      BY <2>3, <3>2 DEF Between, Failed
    <3> QED BY <1>1, <2>1, <3>1, <3>3, BetweenTimely, TimelyStepped
  <2>4. CASE r.op # "GetECLogPageCount" /\ ~NeedNotRead(r)
    <3> DEFINE t == [r EXCEPT !.pc = "idle1"]
    <3>1. Step(c, t)
      BY <1>2, <2>4 DEF Decide, Decided
    <3>2. t.pc = "idle1"
      BY <1>1 DEF ClientState
    <3> HIDE DEF t
    <3> QED BY <1>1, <2>1, <3>1, <3>2, BetweenTimely, TimelyStepped DEF Between
  <2> QED BY <2>2, <2>3, <2>4
<1>3. CASE JudgePage(c)
  <2>1. r.pc = "judge" /\ mbox.cmd = "PAGE_READY" /\ Len(r.vec) = r.idx
    BY <1>1, <1>3 DEF JudgePage, MailboxOK, Unfailing
  <2>2. Step(c, Send(r, "PAGE_DONE"))
    BY <1>1, <1>3, <2>1 DEF JudgePage, Judged
  <2>3. Send(r, "PAGE_DONE").pc = "param" /\ Send(r, "PAGE_DONE").out = "PAGE_DONE"
    BY <1>1, SendIs
  <2> QED BY <1>1, <2>1, <2>2, <2>3, SendTimely, TimelyStepped
<1>4. CASE AfterRelease(c)
  <2>1. r.pc = "released" /\ mbox.cmd \in Closing /\ job.cmd \in Closing /\ Slept
    BY <1>1, <1>4 DEF AfterRelease, MailboxOK, Between
  <2>2. mbox.cmd = "IDLE"
    BY <2>1 DEF Slept, Closing, HostCommands
  <2>3. MailboxOK(Send(r, "ALL_DONE")) /\ Unfailing(Send(r, "ALL_DONE"))
    BY <1>1, <2>2, SendIs, SendTimely
  <2>4. MailboxOK([r EXCEPT !.pc = "idle2"]) /\ Unfailing([r EXCEPT !.pc = "idle2"])
    <3> DEFINE t == [r EXCEPT !.pc = "idle2"]
    <3>1. t.pc = "idle2"
      BY <1>1 DEF ClientState
    <3> HIDE DEF t
    <3>2. MailboxOK(t) /\ Unfailing(t)
      BY <2>1, <3>1, BetweenTimely DEF Between
    <3> QED BY <3>2 DEF t
  <2> QED BY <1>1, <1>4, <2>3, <2>4, TimelyStepped DEF AfterRelease, Released
<1> QED BY <1>2, <1>3, <1>4

\* A command replaces the answer to the one before it, or an idle mailbox.
LEMMA WriteTimely ==
  ASSUME Faults = {}, Alone, LocalInv, LoneInv, TimelyInv, NEW c \in Clients,
         SendParam(c) \/ SendCmd(c)
  PROVE  TimelyInv'
<1> DEFINE r == cl[c]
<1>1. /\ r \in ClientState /\ MailboxOK(r) /\ Unfailing(r) /\ r.out \in Signals
      /\ job' = job /\ JobInv
  BY DEF LocalInv, LoneInv, TimelyInv, SendParam, SendCmd, ec, ClientState
<1>2. CASE SendParam(c)
  <2>1. cl'[c].pc = "cmd" /\ cl'[c].out = r.out /\ r.pc = "param"
    BY <1>1, <1>2 DEF SendParam, Step, LocalInv, ClientState
  <2>2. mbox'.cmd = mbox.cmd
    BY <1>2 DEF SendParam, Writes, LocalInv, EnvOK
  <2>3. (MailboxOK(cl[c]) /\ Unfailing(cl[c]))'
    BY <1>1, <2>1, <2>2 DEF MailboxOK, Unfailing, Between, Sends
  <2> QED BY <2>3 DEF TimelyInv, Alone
<1>3. CASE SendCmd(c)
  <2>1. cl'[c].pc = Then(r.out) /\ cl'[c].out = r.out /\ r.pc = "cmd"
    BY <1>1, <1>3 DEF SendCmd, Step, LocalInv, ClientState
  <2>2. mbox'.cmd = Word(r.out)
    BY <1>3 DEF SendCmd, Writes, LocalInv, EnvOK
  <2>3. r.out # "ERROR_ACK" /\ job.cmd = "IDLE"
    BY <1>1, <2>1
       DEF Unfailing, MailboxOK, Sends, JobInv, NoJob, HostCommands, Signals
  <2>4. (MailboxOK(cl[c]) /\ Unfailing(cl[c]))'
    BY <1>1, <2>1, <2>2, <2>3
       DEF MailboxOK, Unfailing, Between, Sends, Then, Word, Signals, HostCommands, Closing
  <2> QED BY <2>4 DEF TimelyInv, Alone
<1> QED BY <1>2, <1>3

\* The EC answers what it was asked.
LEMMA EcTimely ==
  ASSUME Faults = {}, LocalInv, LoneInv, TimelyInv, EcAnswer
  PROVE  TimelyInv'
<1> SUFFICES ASSUME NEW c \in Clients PROVE (MailboxOK(cl[c]) /\ Unfailing(cl[c]))'
  BY DEF TimelyInv
<1> DEFINE r == cl[c]
<1>1. /\ UNCHANGED cl /\ Good(r) /\ Lone(r) /\ MailboxOK(r) /\ Unfailing(r)
      /\ r \in ClientState /\ r.pc \in PCs /\ r.out \in Signals
  BY DEF EcAnswer, EcTake, EcGiveCount, EcGivePage, EcGoIdle, LocalInv, LoneInv,
         TimelyInv, ClientState
<1>2. Unfailing(cl[c])'
  BY <1>1 DEF Unfailing, Sends, Failed
\* While the EC works on a command the client waits for it.
<1>3. job.cmd # "IDLE" => Between(r) \/ r.pc \in {"count", "error", "page"}
  <2> SUFFICES ASSUME job.cmd # "IDLE" PROVE Between(r) \/ r.pc \in {"count", "error", "page"}
    OBVIOUS
  <2>1. mbox.cmd \in HostCommands
    BY DEF LoneInv, JobInv, NoJob
  <2>2. r.pc \notin {"param", "cmd"}
    BY <1>1, <2>1 DEF MailboxOK, Unfailing, Sends, HostCommands, Signals
  <2>3. r.pc \notin {"fetch", "judge"}
    BY <1>1, <2>1 DEF MailboxOK, HostCommands
  <2> QED BY <1>1, <2>2, <2>3 DEF PCs, Between
<1>4. r.pc = "page" => job.cmd \in {"IDLE", "PAGE_REQ"}
  BY <1>1 DEF Lone, PageOK, Reliable, Asking, NoJob
<1>5. CASE EcTake
  BY <1>1, <1>2, <1>5 DEF EcTake, MailboxOK, Between, Sends, HostCommands
<1>6. CASE EcGiveCount
  <2>1. job.cmd = "COUNT_REQ"
    BY <1>6 DEF EcGiveCount
  <2>2. r.pc \in {"count", "error"}
    BY <1>1, <1>3, <1>4, <2>1 DEF MailboxOK, Closing
  <2> QED BY <1>1, <1>2, <1>6, <2>2 DEF EcGiveCount, MailboxOK, Between, Sends, NoJob
<1>7. CASE EcGivePage
  <2>1. job.cmd = "PAGE_REQ"
    BY <1>7 DEF EcGivePage
  <2>2. r.pc = "page"
    BY <1>1, <1>3, <2>1 DEF MailboxOK, Closing
  <2> QED BY <1>1, <1>2, <1>7, <2>2 DEF EcGivePage, MailboxOK, Between, Sends, NoJob
<1>8. CASE EcGoIdle
  <2>1. job.cmd \in {"COUNT_DONE", "PAGE_DONE", "ALL_DONE"} /\ job' = NoJob
        /\ mbox'.cmd = "IDLE"
    BY <1>8 DEF EcGoIdle, LocalInv, EnvOK
  <2>2. Between(r)
    BY <1>1, <1>3, <1>4, <2>1 DEF MailboxOK
  <2> QED BY <1>1, <1>2, <2>1, <2>2 DEF MailboxOK, Between, Sends, NoJob, Closing
<1> QED BY <1>5, <1>6, <1>7, <1>8 DEF EcAnswer

LEMMA NextTimely ==
  ASSUME Alone, Faults = {}, MAX_CHECK_COUNT >= 2
  PROVE  LocalInv /\ LoneInv /\ TimelyInv /\ [Next]_vars => TimelyInv'
<1> SUFFICES ASSUME LocalInv, LoneInv, TimelyInv, [Next]_vars PROVE TimelyInv'
  OBVIOUS
<1>1. ASSUME NEW c \in Clients, Call(c) \/ Die(c) PROVE TimelyInv'
  BY <1>1, CallTimely
<1>2. ASSUME NEW c \in Clients, Run(c) PROVE TimelyInv'
  BY <1>2, AwaitTimely, CountTimely, PageTimely, ComputeTimely, WriteTimely DEF Run
<1>3. ~EcFail
  BY DEF EcFail
<1>4. CASE UNCHANGED vars
  BY <1>4 DEF vars, TimelyInv, MailboxOK, Unfailing, Between, Sends, Failed
<1> QED BY <1>1, <1>2, <1>3, <1>4, EcTimely DEF Next

\* Once the device is open no call fails: no call leaves anything in the mailbox
\* that the next one trips over, and two turns of every poll loop are enough.
THEOREM NeverFails ==
  ASSUME Alone, Faults = {}, MAX_CHECK_COUNT >= 2
  PROVE  Spec => []TimelyNeverFails
<1>1. Init => TimelyInv
  <2> SUFFICES ASSUME Init, NEW c \in Clients PROVE MailboxOK(cl[c]) /\ Unfailing(cl[c])
    BY DEF TimelyInv
  <2>1. cl[c].pc = "off" /\ cl[c].op = "none"
    BY DEF Init, Leave, Entered
  <2>2. mbox.cmd = "IDLE" /\ job.cmd = "IDLE"
    BY DEF Init, NoJob
  <2>3. Between(cl[c]) /\ ~Failed(cl[c])
    BY <2>1 DEF Between, Failed
  <2> QED BY <2>2, <2>3, BetweenTimely DEF Closing
<1>2. LocalInv /\ LoneInv /\ TimelyInv /\ [Next]_vars => TimelyInv'
  BY NextTimely
<1>3. TimelyInv => TimelyNeverFails
  BY DEF TimelyInv, Unfailing, TimelyNeverFails
<1> QED BY <1>1, <1>2, <1>3, LocalInvariant, LoneInvariant, PTL DEF Spec
=============================================================================

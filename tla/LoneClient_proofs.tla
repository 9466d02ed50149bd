------------------------- MODULE LoneClient_proofs -------------------------
(***************************************************************************)
(* Proofs about EcLog with one client: the count it returns is the EC's    *)
(* and, when its writes succeed, what it reads is the log, page by page.   *)
(* The EC may be late, fail or reset itself, reads may fail, and the       *)
(* client's process may die.                                               *)
(***************************************************************************)
EXTENDS EcLog_proofs

\* The client is about to write a signal, or between its two writes.
Sends(r, signal) == r.pc \in {"param", "cmd"} /\ r.out = signal

\* The EC works only on a command that is still in the mailbox, or on one that
\* was written over by another command.
JobInv == job = NoJob \/ mbox.cmd \in HostCommands

(***************************************************************************)
(* The count.  A call that has one has it from the EC, and nothing is      *)
(* under way that makes the EC record another.                             *)
(***************************************************************************)
Uncounted(r) ==
  \/ r.pc \in {"idle0", "count", "error"}
  \/ Sends(r, "COUNT_REQ") \/ Sends(r, "ERROR_ACK")

CountOK(r) ==
  /\ Uncounted(r) => r.n = -1
  /\ r.n # -1 => r.n = recorded /\ mbox.cmd # "COUNT_REQ" /\ job.cmd # "COUNT_REQ"
  /\ r.pc \in {"count", "error"} /\ mbox.cmd = "COUNT_READY" => mbox.param = recorded

(***************************************************************************)
(* The page, when no write fails.  From the first write of a request to    *)
(* the judgement of its answer the mailbox, the EC's job and the window    *)
(* are about page idx.                                                     *)
(***************************************************************************)
Reliable == "write" \notin Faults

Asking(r) == Sends(r, "PAGE_REQ") \/ r.pc \in {"page", "fetch", "judge"}

PageOK(r) ==
  Reliable /\ Asking(r) =>
    /\ mbox.cmd \in {"IDLE", "PAGE_REQ", "PAGE_READY", "ERROR"}
    /\ r.pc # "param" \/ mbox.cmd # "IDLE" => mbox.param = r.idx
    /\ job = NoJob \/ (job.cmd = "PAGE_REQ" /\ job.arg = r.idx)
    /\ mbox.cmd = "PAGE_READY" => window = r.idx
    /\ r.pc = "fetch" =>
         window = r.idx /\ job = NoJob /\ mbox.cmd \in {"IDLE", "PAGE_READY"}

InOrder(r) == Reliable => \A i \in 1..Len(r.vec) : r.vec[i] = i

Lone(r) == CountOK(r) /\ PageOK(r) /\ InOrder(r)

\* The invariant behind PagesInOrder, RequestsMatch, PageInWindow and
\* CountIsRecorded, relative to LocalInv and FreshStart.
LoneInv ==
  /\ JobInv
  /\ recorded \in Counts
  /\ \A c \in Clients : Lone(cl[c])

(***************************************************************************)
(* At most one client.                                                     *)
(***************************************************************************)
Alone == \A c, d \in Clients : c = d
-----------------------------------------------------------------------------
(***************************************************************************)
(* The new record of a client that only reads.  First: what is left when   *)
(* it leaves the call, and what a stage needs to be entered.               *)
(***************************************************************************)
\* A call that is over keeps its count and its pages, or forgets them.
LEMMA OffLone ==
  ASSUME NEW r, Lone(r), NEW t, t.pc = "off", t.n \in {-1, r.n}, t.vec \in {r.vec, <<>>}
  PROVE  Lone(t)
<1>1. CountOK(t)
  BY DEF Lone, CountOK, Uncounted, Sends
<1>2. PageOK(t)
  BY DEF PageOK, Asking, Sends
<1>3. InOrder(t)
  <2>1. CASE t.vec = r.vec
    BY <2>1 DEF Lone, InOrder
  <2>2. CASE t.vec = <<>>
    BY <2>2 DEF InOrder
  <2> QED BY <2>1, <2>2
<1> QED BY <1>1, <1>2, <1>3 DEF Lone

\* Leaving keeps them.
LEMMA LeaveLone ==
  ASSUME NEW r \in ClientState, Lone(r)
  PROVE  Lone(Leave(r)) /\ \A status : Lone(LeaveWith(r, status))
<1>1. Leave(r).pc = "off" /\ Leave(r).n = r.n /\ Leave(r).vec = r.vec
  BY DEF Leave, ClientState
<1>2. \A status : /\ LeaveWith(r, status).pc = "off" /\ LeaveWith(r, status).n = r.n
                  /\ LeaveWith(r, status).vec = r.vec
  BY DEF LeaveWith, ClientState
<1> QED BY <1>1, <1>2, OffLone

\* Another turn of a poll loop is no progress.
LEMMA AgainLone ==
  ASSUME NEW r \in ClientState, Lone(r), NEW last, Lone(last)
  PROVE  Lone(Again(r, last))
<1> DEFINE t == [r EXCEPT !.cnt = @ + 1]
<1>1. t.pc = r.pc /\ t.out = r.out /\ t.n = r.n /\ t.idx = r.idx /\ t.vec = r.vec
  BY DEF ClientState
<1> HIDE DEF t
<1>2. Lone(t)
  BY <1>1 DEF Lone, CountOK, Uncounted, PageOK, Asking, Sends, InOrder
<1> QED BY <1>2 DEF Again, t

\* What a signal is sent with.
LEMMA SendIs ==
  ASSUME NEW r \in ClientState, NEW s
  PROVE  /\ Send(r, s).pc = "param" /\ Send(r, s).out = s /\ Send(r, s).n = r.n
         /\ Send(r, s).idx = r.idx /\ Send(r, s).vec = r.vec /\ Send(r, s).op = r.op
         /\ Send(r, s).status = r.status
  BY DEF Send, ClientState

\* Sending a signal other than a request for a page.
LEMMA SendLone ==
  ASSUME NEW r \in ClientState, Lone(r), NEW s, s # "PAGE_REQ",
         s \in {"COUNT_REQ", "ERROR_ACK"} => r.n = -1
  PROVE  Lone(Send(r, s))
<1> DEFINE t == Send(r, s)
<1>1. t.pc = "param" /\ t.out = s /\ t.n = r.n /\ t.vec = r.vec
  BY SendIs
<1> HIDE DEF t
<1>2. CountOK(t) /\ PageOK(t) /\ InOrder(t)
  BY <1>1 DEF Lone, CountOK, Uncounted, PageOK, Asking, Sends, InOrder
<1> QED BY <1>2 DEF Lone, t

\* A page is asked for when the EC is idle.
LEMMA SendPageLone ==
  ASSUME NEW r \in ClientState, Lone(r), JobInv, mbox.cmd = "IDLE"
  PROVE  Lone(Send(r, "PAGE_REQ"))
<1> DEFINE t == Send(r, "PAGE_REQ")
<1>1. t.pc = "param" /\ t.out = "PAGE_REQ" /\ t.n = r.n /\ t.idx = r.idx /\ t.vec = r.vec
  BY SendIs
<1>2. job = NoJob
  BY DEF JobInv, HostCommands
<1> HIDE DEF t
<1>3. CountOK(t) /\ PageOK(t) /\ InOrder(t)
  BY <1>1, <1>2 DEF Lone, CountOK, Uncounted, PageOK, Asking, Sends, InOrder
<1> QED BY <1>3 DEF Lone, t

\* A stage in which the call waits, and asks for no page.
LEMMA RestLone ==
  ASSUME NEW r \in ClientState, Lone(r), NEW pc,
         pc \in {"counted", "idle1", "released", "idle2", "idle3"}
  PROVE  Lone([r EXCEPT !.pc = pc])
<1> DEFINE t == [r EXCEPT !.pc = pc]
<1>1. t.pc = pc /\ t.out = r.out /\ t.n = r.n /\ t.idx = r.idx /\ t.vec = r.vec
  BY DEF ClientState
<1> HIDE DEF t
<1>2. CountOK(t) /\ PageOK(t) /\ InOrder(t)
  BY <1>1 DEF Lone, CountOK, Uncounted, PageOK, Asking, Sends, InOrder
<1> QED BY <1>2 DEF Lone, t

\* The two reads of the count loop.
LEMMA CountingLone ==
  ASSUME NEW r \in ClientState, Lone(r), r.pc \in {"count", "error"},
         NEW pc, pc \in {"count", "error"}
  PROVE  Lone([r EXCEPT !.pc = pc]) /\ [r EXCEPT !.pc = pc] \in ClientState
<1> DEFINE t == [r EXCEPT !.pc = pc]
<1>1. t.pc = pc /\ t.out = r.out /\ t.n = r.n /\ t.idx = r.idx /\ t.vec = r.vec
  BY DEF ClientState
<1>2. t \in ClientState
  BY PcSet DEF PCs
<1> HIDE DEF t
<1>3. CountOK(t) /\ PageOK(t) /\ InOrder(t)
  BY <1>1 DEF Lone, CountOK, Uncounted, PageOK, Asking, Sends, InOrder
<1> QED BY <1>2, <1>3 DEF Lone, t

\* The count that is taken is the EC's.
LEMMA CountedLone ==
  ASSUME NEW r \in ClientState, Lone(r), r.pc = "count", JobInv, mbox.cmd = "COUNT_READY"
  PROVE  Lone(Counted(r, mbox.param))
<1> DEFINE t == Counted(r, mbox.param)
<1>1. t.pc = "param" /\ t.out = "COUNT_DONE" /\ t.n = mbox.param /\ t.vec = r.vec
  BY DEF Counted, Send, ClientState
<1>2. mbox.param = recorded /\ job.cmd # "COUNT_REQ"
  BY DEF Lone, CountOK, Uncounted, JobInv, HostCommands, NoJob
<1> HIDE DEF t
<1>3. CountOK(t) /\ PageOK(t) /\ InOrder(t)
  BY <1>1, <1>2 DEF Lone, CountOK, Uncounted, PageOK, Asking, Sends, InOrder
<1> QED BY <1>3 DEF Lone, t

\* The page asked for is ready, or the poll loop has run out.
LEMMA PolledLone ==
  ASSUME NEW r \in ClientState, Lone(r), r.pc = "page", JobInv
  PROVE  /\ mbox.cmd = "PAGE_READY" => Lone([r EXCEPT !.pc = "fetch"])
         /\ Lone([r EXCEPT !.pc = "judge"])
<1>1. ASSUME NEW pc, pc \in {"fetch", "judge"},
             pc = "fetch" => mbox.cmd = "PAGE_READY"
      PROVE  Lone([r EXCEPT !.pc = pc])
  <2> DEFINE t == [r EXCEPT !.pc = pc]
  <2>1. t.pc = pc /\ t.out = r.out /\ t.n = r.n /\ t.idx = r.idx /\ t.vec = r.vec
    BY DEF ClientState
  <2> HIDE DEF t
  <2>2. mbox.cmd = "PAGE_READY" => job = NoJob
    BY DEF JobInv, HostCommands
  <2>3. Asking(r)
    BY DEF Asking
  <2>4. CountOK(t) /\ InOrder(t)
    BY <1>1, <2>1 DEF Lone, CountOK, Uncounted, Sends, InOrder
  <2>5. PageOK(t)
    BY <1>1, <2>1, <2>2, <2>3 DEF Lone, PageOK
  <2> QED BY <2>4, <2>5 DEF Lone, t
<1> QED BY <1>1

\* The page that is pushed is page idx of the log.
LEMMA FetchedLone ==
  ASSUME NEW r \in ClientState, Good(r), Lone(r), r.pc = "fetch", NEW ok \in BOOLEAN
  PROVE  Lone(Fetched(r, ok, window))
<1> DEFINE v == IF ok THEN Append(r.vec, window) ELSE r.vec
           t == Fetched(r, ok, window)
<1>1. t.pc = "judge" /\ t.out = r.out /\ t.n = r.n /\ t.idx = r.idx /\ t.vec = v
  BY DEF Fetched, ClientState
<1>2. /\ r.vec \in Seq(Nat) /\ Len(r.vec) = r.idx - 1 /\ r.idx \in Nat
      /\ Reliable => window = r.idx
  BY FieldTypes DEF Good, Waiting, Lone, PageOK, Asking
<1>3. ASSUME Reliable PROVE \A i \in 1..Len(v) : v[i] = i
  <2>1. \A i \in 1..Len(r.vec) : r.vec[i] = i
    BY <1>3 DEF Lone, InOrder
  <2>2. \A i \in 1..Len(Append(r.vec, window)) : Append(r.vec, window)[i] = i
    BY <1>2, <1>3, <2>1
  <2> QED BY <2>1, <2>2
<1> HIDE DEF t, v
<1>4. InOrder(t)
  BY <1>1, <1>3 DEF InOrder
<1>5. CountOK(t)
  BY <1>1 DEF Lone, CountOK, Uncounted, Sends
<1>6. PageOK(t)
  BY <1>1 DEF Lone, PageOK, Asking, Sends
<1> QED BY <1>4, <1>5, <1>6 DEF Lone, t

\* The judgement of a page: on with it, ask again, or give everything up.
LEMMA JudgedLone ==
  ASSUME NEW r \in ClientState, Lone(r), r.pc = "judge"
  PROVE  Lone(Judged(r))
<1>1. Lone(Send(r, "PAGE_DONE"))
  BY SendLone
<1>2. Lone(Send([r EXCEPT !.retried = TRUE], "PAGE_REQ"))
  <2> DEFINE t == Send([r EXCEPT !.retried = TRUE], "PAGE_REQ")
  <2>1. t.pc = "param" /\ t.out = "PAGE_REQ" /\ t.n = r.n /\ t.idx = r.idx /\ t.vec = r.vec
    BY DEF Send, ClientState
  <2>2. Asking(r)
    BY DEF Asking
  <2> HIDE DEF t
  <2>3. CountOK(t) /\ InOrder(t)
    BY <2>1 DEF Lone, CountOK, Uncounted, Sends, InOrder
  <2>4. PageOK(t)
    BY <2>1, <2>2 DEF Lone, PageOK
  <2> QED BY <2>3, <2>4 DEF Lone, t
<1>3. Lone(LeaveWith([r EXCEPT !.vec = <<>>], "EC_FAILED"))
  <2> DEFINE t == LeaveWith([r EXCEPT !.vec = <<>>], "EC_FAILED")
  <2>1. t.pc = "off" /\ t.n = r.n /\ t.vec = <<>>
    BY DEF LeaveWith, ClientState
  <2> HIDE DEF t
  <2>2. Lone(t)
    BY <2>1, OffLone
  <2> QED BY <2>2 DEF t
<1> QED BY <1>1, <1>2, <1>3 DEF Judged

LEMMA NextPageLone ==
  ASSUME NEW r \in ClientState, Lone(r), JobInv, mbox.cmd = "IDLE"
  PROVE  Lone(NextPage(r))
<1> DEFINE t == NextPage(r)
<1>1. t.pc = "param" /\ t.out = "PAGE_REQ" /\ t.n = r.n /\ t.vec = r.vec
  BY DEF NextPage, Send, ClientState
<1>2. job = NoJob
  BY DEF JobInv, HostCommands
<1> HIDE DEF t
<1>3. CountOK(t) /\ PageOK(t) /\ InOrder(t)
  BY <1>1, <1>2 DEF Lone, CountOK, Uncounted, PageOK, Asking, Sends, InOrder
<1> QED BY <1>3 DEF Lone, t
-----------------------------------------------------------------------------
(***************************************************************************)
(* The steps of a lone client.                                             *)
(***************************************************************************)
\* A step that gives a client a record that fits, and touches nothing else.
LEMMA LoneStepped ==
  ASSUME LocalInv, LoneInv, NEW c \in Clients, NEW r, Lone(r), Step(c, r), UNCHANGED shared
  PROVE  LoneInv'
<1>1. \A d \in Clients : cl'[d] = IF d = c THEN r ELSE cl[d]
  BY DEF Step, LocalInv
<1>2. \A d \in Clients : Lone(cl'[d])
  BY <1>1 DEF LoneInv
<1>3. \A d \in Clients : Lone(cl[d])'
  BY <1>2 DEF shared, ec, Lone, CountOK, Uncounted, PageOK, Asking, Sends, InOrder
<1>4. (JobInv /\ recorded \in Counts)'
  BY DEF LoneInv, JobInv, shared, ec
<1> QED BY <1>3, <1>4 DEF LoneInv

LEMMA CallLone ==
  ASSUME LocalInv, LoneInv, NEW c \in Clients, Call(c) \/ Die(c)
  PROVE  LoneInv'
<1>1. \A op : Lone(Entered(op)) /\ Lone(Leave(Entered(op)))
              /\ Lone(LeaveWith(Entered(op), "EC_CREATE_FILE_FAILED"))
  BY DEF Entered, Leave, LeaveWith, Lone, CountOK, Uncounted, PageOK, Asking, Sends, InOrder
<1>2. PICK r : Step(c, r) /\ Lone(r)
  BY <1>1 DEF Call, Die
<1>3. UNCHANGED shared
  BY DEF Call, Die
<1> QED BY <1>2, <1>3, LoneStepped

\* A wait for an idle EC, which ends in a record that fits an idle EC.
LEMMA IdleCheckLone ==
  ASSUME LocalInv, LoneInv, NEW c \in Clients, NEW pc, NEW found,
         mbox.cmd = "IDLE" => Lone(found), AwaitIdle(c, pc, found)
  PROVE  LoneInv'
<1>1. cl[c] \in ClientState /\ Lone(cl[c])
  BY DEF LocalInv, LoneInv
<1>2. Lone(Again(cl[c], Leave(cl[c])))
  BY <1>1, LeaveLone, AgainLone
<1>3. PICK idle \in IsECIdle : Step(c, IF idle THEN found ELSE Again(cl[c], Leave(cl[c])))
  BY DEF AwaitIdle
<1>4. idle => mbox.cmd = "IDLE"
  BY DEF IsECIdle, Reads
<1>5. PICK r : Step(c, r) /\ Lone(r)
  BY <1>2, <1>3, <1>4
<1>6. UNCHANGED shared
  BY DEF AwaitIdle
<1> QED BY <1>5, <1>6, LoneStepped

LEMMA AwaitLone ==
  ASSUME LocalInv, LoneInv, NEW c \in Clients,
         \/ AwaitIdleToCount(c) \/ AwaitIdleToRead(c)
         \/ AwaitIdleNextPage(c) \/ AwaitIdleAllRead(c)
  PROVE  LoneInv'
<1>1. cl[c] \in ClientState /\ Lone(cl[c]) /\ JobInv
  BY DEF LocalInv, LoneInv
<1>2. CASE AwaitIdleToCount(c)
  <2>1. cl[c].n = -1
    BY <1>1, <1>2 DEF AwaitIdleToCount, AwaitIdle, Lone, CountOK, Uncounted
  <2>2. Lone(Send(cl[c], "COUNT_REQ"))
    BY <1>1, <2>1, SendLone
  <2> QED BY <1>2, <2>2, IdleCheckLone DEF AwaitIdleToCount
<1>3. CASE AwaitIdleToRead(c)
  BY <1>1, <1>3, SendPageLone, IdleCheckLone DEF AwaitIdleToRead
<1>4. CASE AwaitIdleNextPage(c)
  BY <1>1, <1>4, NextPageLone, IdleCheckLone DEF AwaitIdleNextPage
<1>5. CASE AwaitIdleAllRead(c)
  BY <1>1, <1>5, LeaveLone, IdleCheckLone DEF AwaitIdleAllRead
<1> QED BY <1>2, <1>3, <1>4, <1>5

LEMMA CountLone ==
  ASSUME LocalInv, LoneInv, NEW c \in Clients, PollCount(c) \/ CheckError(c)
  PROVE  LoneInv'
<1> DEFINE r == cl[c]
           t == [cl[c] EXCEPT !.pc = "count"]
           e == [cl[c] EXCEPT !.pc = "error"]
<1>1. r \in ClientState /\ Lone(r) /\ JobInv /\ UNCHANGED shared
  BY DEF LocalInv, LoneInv, PollCount, CheckError
<1>2. CASE PollCount(c)
  <2>1. r.pc = "count"
    BY <1>2 DEF PollCount
  <2>2. PICK ready \in IsCountReady : Step(c, IF ready THEN Counted(r, mbox.param) ELSE e)
    BY <1>2 DEF PollCount
  <2>3. ready => mbox.cmd = "COUNT_READY"
    BY DEF IsCountReady, Reads
  <2>4. ready => Lone(Counted(r, mbox.param))
    BY <1>1, <2>1, <2>3, CountedLone
  <2>5. Lone(e)
    BY <1>1, <2>1, CountingLone
  <2> QED BY <1>1, <2>2, <2>4, <2>5, LoneStepped
<1>3. CASE CheckError(c)
  <2>1. r.pc = "error" /\ r.n = -1
    BY <1>1, <1>3 DEF CheckError, Lone, CountOK, Uncounted
  <2>2. PICK error \in IsErrorOccur :
          Step(c, IF error THEN Send(r, "ERROR_ACK") ELSE Again(t, Leave(r)))
    BY <1>3 DEF CheckError
  <2>3. Lone(Send(r, "ERROR_ACK"))
    BY <1>1, <2>1, SendLone
  <2>4. t \in ClientState /\ Lone(t) /\ Lone(Leave(r))
    BY <1>1, <2>1, CountingLone, LeaveLone
  <2>5. Lone(Again(t, Leave(r)))
    BY <2>4, AgainLone
  <2> QED BY <1>1, <2>2, <2>3, <2>5, LoneStepped
<1> QED BY <1>2, <1>3

LEMMA PageLone ==
  ASSUME LocalInv, LoneInv, NEW c \in Clients, PollPage(c) \/ FetchPage(c)
  PROVE  LoneInv'
<1> DEFINE r == cl[c]
           f == [cl[c] EXCEPT !.pc = "fetch"]
           j == [cl[c] EXCEPT !.pc = "judge"]
<1>1. r \in ClientState /\ Good(r) /\ Lone(r) /\ JobInv /\ UNCHANGED shared
  BY DEF LocalInv, LoneInv, PollPage, FetchPage
<1>2. CASE PollPage(c)
  <2>1. PICK ready \in IsLogPageReady(r.idx) : Step(c, IF ready THEN f ELSE Again(r, j))
    BY <1>2 DEF PollPage
  <2>2. ready => mbox.cmd = "PAGE_READY"
    BY DEF IsLogPageReady, Reads
  <2>3. ready => Lone(f)
    BY <1>1, <1>2, <2>2, PolledLone DEF PollPage
  <2>4. Lone(j)
    BY <1>1, <1>2, PolledLone DEF PollPage
  <2>5. Lone(Again(r, j))
    BY <1>1, <2>4, AgainLone
  <2> QED BY <1>1, <2>1, <2>3, <2>5, LoneStepped
<1>3. CASE FetchPage(c)
  <2>1. PICK ok \in Reads(TRUE) : Step(c, Fetched(r, ok, window))
    BY <1>3 DEF FetchPage
  <2>2. ok \in BOOLEAN
    BY DEF Reads
  <2>3. Lone(Fetched(r, ok, window))
    BY <1>1, <1>3, <2>2, FetchedLone DEF FetchPage
  <2> QED BY <1>1, <2>1, <2>3, LoneStepped
<1> QED BY <1>2, <1>3

LEMMA ComputeLone ==
  ASSUME LocalInv, LoneInv, NEW c \in Clients, Decide(c) \/ JudgePage(c) \/ AfterRelease(c)
  PROVE  LoneInv'
<1>1. cl[c] \in ClientState /\ Lone(cl[c]) /\ UNCHANGED shared
  BY DEF LocalInv, LoneInv, Decide, JudgePage, AfterRelease
<1>2. CASE Decide(c)
  <2>1. Lone(Decided(cl[c]))
    BY <1>1, LeaveLone, RestLone DEF Decided
  <2> QED BY <1>1, <1>2, <2>1, LoneStepped DEF Decide
<1>3. CASE JudgePage(c)
  BY <1>1, <1>3, JudgedLone, LoneStepped DEF JudgePage
<1>4. CASE AfterRelease(c)
  <2>1. Lone(Released(cl[c]))
    BY <1>1, SendLone, RestLone DEF Released
  <2> QED BY <1>1, <1>4, <2>1, LoneStepped DEF AfterRelease
<1> QED BY <1>2, <1>3, <1>4

\* The two writes of a signal.  The parameter first: when the command follows,
\* it stands next to the page that is asked for.
LEMMA SendParamLone ==
  ASSUME LocalInv, LoneInv, Alone, NEW c \in Clients, SendParam(c)
  PROVE  LoneInv'
<1> DEFINE r == cl[c]
           t == [cl[c] EXCEPT !.pc = "cmd"]
<1>1. r \in ClientState /\ Lone(r) /\ JobInv /\ r.pc = "param"
  BY DEF LocalInv, LoneInv, SendParam
<1>2. /\ mbox'.cmd = mbox.cmd /\ UNCHANGED <<window, job, recorded>>
      /\ Reliable => mbox'.param = Arg(r)
  BY DEF SendParam, Reliable, Writes, LocalInv, EnvOK, ec
<1>3. t.pc = "cmd" /\ t.out = r.out /\ t.n = r.n /\ t.idx = r.idx /\ t.vec = r.vec
  BY <1>1 DEF ClientState
<1>4. \A d \in Clients : cl'[d] = t
  BY DEF SendParam, Step, LocalInv, Alone
<1> HIDE DEF t
<1>5. Lone(cl[c])'
  <2>1. cl'[c] = t
    BY <1>4
  <2>2. CountOK(cl[c])'
    BY <1>1, <1>2, <1>3, <2>1 DEF Lone, CountOK, Uncounted, Sends
  <2>3. PageOK(cl[c])'
    <3>1. Asking(t) => r.out = "PAGE_REQ" /\ Asking(r) /\ Arg(r) = r.idx
      BY <1>1, <1>3 DEF Asking, Sends, Arg
    <3> QED BY <1>1, <1>2, <1>3, <2>1, <3>1 DEF Lone, PageOK, Asking, Sends
  <2>4. InOrder(cl[c])'
    BY <1>1, <1>3, <2>1 DEF Lone, InOrder
  <2> QED BY <2>2, <2>3, <2>4 DEF Lone
<1>6. \A d \in Clients : Lone(cl[d])'
  BY <1>5 DEF Alone
<1>7. (JobInv /\ recorded \in Counts)'
  BY <1>1, <1>2 DEF JobInv, LoneInv
<1> QED BY <1>6, <1>7 DEF LoneInv

LEMMA SendCmdLone ==
  ASSUME LocalInv, FreshStart, LoneInv, Alone, NEW c \in Clients, SendCmd(c)
  PROVE  LoneInv'
<1> DEFINE r == cl[c]
           t == [cl[c] EXCEPT !.pc = Then(cl[c].out), !.cnt = 0]
<1>1. r \in ClientState /\ Good(r) /\ Lone(r) /\ r.pc = "cmd" /\ r.out \in Signals
  BY DEF LocalInv, LoneInv, SendCmd, ClientState
<1>2. /\ mbox'.cmd \in {mbox.cmd, Word(r.out)} /\ mbox'.param = mbox.param
      /\ UNCHANGED <<window, job, recorded>>
      /\ Reliable => mbox'.cmd = Word(r.out)
  BY DEF SendCmd, Reliable, Writes, LocalInv, EnvOK, ec
<1>3. t.pc = Then(r.out) /\ t.out = r.out /\ t.n = r.n /\ t.idx = r.idx /\ t.vec = r.vec
  BY <1>1 DEF ClientState
<1>4. cl'[c] = t
  BY DEF SendCmd, Step, LocalInv
<1>5. Word(r.out) \in HostCommands
  BY <1>1, SignalTypes
<1> HIDE DEF t
<1>6. CountOK(cl[c])'
  <2>1. r.out = "COUNT_REQ" => mbox.cmd = "IDLE"
    BY <1>1 DEF FreshStart
  <2> QED BY <1>1, <1>2, <1>3, <1>4, <2>1
          DEF Lone, CountOK, Uncounted, Sends, Then, Word, Signals, HostCommands
<1>7. PageOK(cl[c])'
  <2>1. Asking(t) => r.out = "PAGE_REQ" /\ t.pc = "page"
    BY <1>1, <1>2, <1>3 DEF Asking, Sends, Then, Word, Signals, HostCommands
  <2>2. r.out = "PAGE_REQ" => Asking(r)
    BY <1>1 DEF Asking, Sends
  <2>3. Word("PAGE_REQ") = "PAGE_REQ"
    BY DEF Word
  <2> QED BY <1>1, <1>2, <1>3, <1>4, <2>1, <2>2, <2>3 DEF Lone, PageOK, Asking, Sends
<1>8. InOrder(cl[c])'
  BY <1>1, <1>3, <1>4 DEF Lone, InOrder
<1>9. \A d \in Clients : Lone(cl[d])'
  BY <1>6, <1>7, <1>8 DEF Alone, Lone
<1>10. (JobInv /\ recorded \in Counts)'
  BY <1>2, <1>5 DEF JobInv, LoneInv
<1> QED BY <1>9, <1>10 DEF LoneInv
-----------------------------------------------------------------------------
(***************************************************************************)
(* The steps of the EC.                                                    *)
(***************************************************************************)
\* It takes a command: while a page is asked for, that page.
LEMMA EcTakeLone ==
  ASSUME LocalInv, LoneInv, EcTake
  PROVE  LoneInv'
<1>1. /\ job'.cmd = mbox.cmd /\ job'.arg = mbox.param /\ mbox.cmd \in HostCommands
      /\ UNCHANGED <<mbox, window, recorded, cl>>
  BY DEF EcTake
<1>2. ASSUME NEW c \in Clients PROVE Lone(cl[c])'
  <2>1. Lone(cl[c])
    BY DEF LoneInv
  <2>2. CountOK(cl[c])' /\ InOrder(cl[c])'
    BY <1>1, <2>1 DEF Lone, CountOK, Uncounted, Sends, InOrder
  <2>3. PageOK(cl[c])'
    <3>1. Asking(cl[c])' <=> Asking(cl[c])
      BY <1>1 DEF Asking, Sends
    <3>2. ASSUME Asking(cl[c]) PROVE PageOK(cl[c])'
      BY <1>1, <2>1, <3>2 DEF Lone, PageOK, HostCommands
    <3> QED BY <3>1, <3>2 DEF PageOK
  <2> QED BY <2>2, <2>3 DEF Lone
<1> QED BY <1>1, <1>2 DEF LoneInv, JobInv

\* It records another count only when no call has one.
LEMMA EcGiveCountLone ==
  ASSUME LocalInv, LoneInv, EcGiveCount
  PROVE  LoneInv'
<1>1. /\ job.cmd = "COUNT_REQ" /\ job' = NoJob /\ mbox'.cmd = "COUNT_READY"
      /\ mbox'.param = recorded' /\ recorded' \in Counts /\ UNCHANGED cl
  BY DEF EcGiveCount
<1>2. ASSUME NEW c \in Clients PROVE Lone(cl[c])'
  <2>1. Lone(cl[c]) /\ Good(cl[c])
    BY DEF LoneInv, LocalInv
  <2>2. cl[c].n = -1
    BY <1>1, <2>1 DEF Lone, CountOK
  <2>3. CountOK(cl[c])' /\ InOrder(cl[c])'
    BY <1>1, <2>1, <2>2 DEF Lone, CountOK, Uncounted, Sends, InOrder
  <2>4. ~Asking(cl[c])
    BY <2>1, <2>2 DEF Asking, Sends, Good, Sending, Waiting, InPages
  <2>5. PageOK(cl[c])'
    BY <1>1, <2>4 DEF PageOK, Asking, Sends
  <2> QED BY <2>3, <2>5 DEF Lone
<1> QED BY <1>1, <1>2 DEF LoneInv, JobInv

\* A page that is asked for is one of those recorded: it comes into the window.
LEMMA EcGivePageLone ==
  ASSUME LocalInv, LoneInv, EcGivePage
  PROVE  LoneInv'
<1>1. /\ job.cmd = "PAGE_REQ" /\ job' = NoJob /\ mbox'.cmd = "PAGE_READY"
      /\ mbox'.param = job.arg /\ UNCHANGED <<recorded, cl>>
      /\ window' = IF job.arg \in 1..recorded THEN job.arg ELSE 0
  BY DEF EcGivePage
<1>2. ASSUME NEW c \in Clients PROVE Lone(cl[c])'
  <2>1. Lone(cl[c]) /\ Good(cl[c])
    BY DEF LoneInv, LocalInv
  <2>2. CountOK(cl[c])' /\ InOrder(cl[c])'
    BY <1>1, <2>1 DEF Lone, CountOK, Uncounted, Sends, InOrder, NoJob
  <2>3. ASSUME Reliable, Asking(cl[c]) PROVE PageOK(cl[c])'
    <3>1. job # NoJob /\ job.arg = cl[c].idx /\ cl[c].pc # "fetch"
      BY <1>1, <2>1, <2>3 DEF Lone, PageOK, NoJob
    <3>2. InPages(cl[c])
      BY <2>1, <2>3 DEF Asking, Sends, Good, Sending, Waiting
    <3>3. cl[c].idx \in 1..recorded
      <4>1. cl[c].idx \in 1..16 /\ cl[c].n \in Int
        BY <2>1, FieldTypes DEF Good
      <4>2. cl[c].n = recorded
        BY <2>1, <3>2 DEF Lone, CountOK, InPages
      <4> QED BY <3>2, <4>1, <4>2 DEF InPages
    <3> QED BY <1>1, <3>1, <3>3 DEF PageOK
  <2>4. Asking(cl[c])' <=> Asking(cl[c])
    BY <1>1 DEF Asking, Sends
  <2> QED BY <2>2, <2>3, <2>4 DEF Lone, PageOK
<1> QED BY <1>1, <1>2 DEF LoneInv, JobInv

\* It goes idle only on an acknowledgement, which no asking client has sent.
LEMMA EcGoIdleLone ==
  ASSUME LocalInv, LoneInv, EcGoIdle
  PROVE  LoneInv'
<1>1. /\ job.cmd \in {"COUNT_DONE", "PAGE_DONE", "ALL_DONE"} /\ job' = NoJob
      /\ mbox'.cmd = "IDLE" /\ mbox'.param = mbox.param
      /\ UNCHANGED <<window, recorded, cl>>
  BY DEF EcGoIdle, LocalInv, EnvOK
<1>2. ASSUME NEW c \in Clients PROVE Lone(cl[c])'
  <2>1. Lone(cl[c])
    BY DEF LoneInv
  <2>2. CountOK(cl[c])' /\ InOrder(cl[c])'
    BY <1>1, <2>1 DEF Lone, CountOK, Uncounted, Sends, InOrder, NoJob
  <2>3. ~(Reliable /\ Asking(cl[c]))
    BY <1>1, <2>1 DEF Lone, PageOK, NoJob
  <2>4. PageOK(cl[c])'
    BY <1>1, <2>3 DEF PageOK, Asking, Sends
  <2> QED BY <2>2, <2>4 DEF Lone
<1> QED BY <1>1, <1>2 DEF LoneInv, JobInv

\* A failure changes the command word only, and drops the job.
LEMMA EcFailLone ==
  ASSUME LocalInv, LoneInv, EcFail
  PROVE  LoneInv'
<1>1. /\ job' = NoJob /\ mbox'.param = mbox.param
      /\ \/ mbox'.cmd = "ERROR" /\ job # NoJob
         \/ mbox'.cmd = "IDLE"
      /\ UNCHANGED <<window, recorded, cl>>
  BY DEF EcFail, LocalInv, EnvOK
<1>2. job # NoJob => mbox.cmd # "IDLE"
  BY DEF LoneInv, JobInv, HostCommands
<1>3. ASSUME NEW c \in Clients PROVE Lone(cl[c])'
  <2>1. Lone(cl[c])
    BY DEF LoneInv
  <2>2. CountOK(cl[c])' /\ InOrder(cl[c])'
    BY <1>1, <2>1 DEF Lone, CountOK, Uncounted, Sends, InOrder, NoJob
  <2>3. ASSUME Asking(cl[c]) PROVE PageOK(cl[c])'
    BY <1>1, <1>2, <2>1, <2>3 DEF Lone, PageOK
  <2>4. Asking(cl[c])' <=> Asking(cl[c])
    BY <1>1 DEF Asking, Sends
  <2> QED BY <2>2, <2>3, <2>4 DEF Lone, PageOK
<1> QED BY <1>1, <1>3 DEF LoneInv, JobInv
-----------------------------------------------------------------------------
LEMMA InitLone == Init => LoneInv
<1> SUFFICES ASSUME Init PROVE LoneInv
  OBVIOUS
<1>1. ASSUME NEW c \in Clients PROVE Lone(cl[c])
  <2>1. cl[c].pc = "off" /\ cl[c].n = -1 /\ cl[c].vec = <<>>
    BY DEF Init, Leave, Entered
  <2> QED BY <2>1 DEF Lone, CountOK, Uncounted, PageOK, Asking, Sends, InOrder
<1> QED BY <1>1 DEF Init, LoneInv, JobInv

LEMMA NextLone == Alone /\ LocalInv /\ FreshStart /\ LoneInv /\ [Next]_vars => LoneInv'
<1> SUFFICES ASSUME Alone, LocalInv, FreshStart, LoneInv, [Next]_vars PROVE LoneInv'
  OBVIOUS
<1>1. ASSUME NEW c \in Clients, Call(c) \/ Die(c) PROVE LoneInv'
  BY <1>1, CallLone
<1>2. ASSUME NEW c \in Clients, Run(c) PROVE LoneInv'
  BY <1>2, AwaitLone, SendParamLone, SendCmdLone, CountLone, PageLone, ComputeLone DEF Run
<1>3. CASE EcAnswer \/ EcFail
  BY <1>3, EcTakeLone, EcGiveCountLone, EcGivePageLone, EcGoIdleLone, EcFailLone DEF EcAnswer
<1>4. CASE UNCHANGED vars
  BY <1>4 DEF vars, LoneInv, JobInv, Lone, CountOK, Uncounted, PageOK, Asking, Sends, InOrder
<1> QED BY <1>1, <1>2, <1>3, <1>4 DEF Next

LEMMA LoneInvariant ==
  ASSUME Alone
  PROVE  Spec => []LoneInv
<1>1. LocalInv /\ FreshStart /\ LoneInv /\ [Next]_vars => LoneInv'
  BY NextLone
<1>2. Spec => []FreshStart
  BY StartsFresh DEF Alone
<1> QED BY <1>1, <1>2, InitLone, LocalInvariant, PTL DEF Spec

\* The vector of a lone client is a prefix of the log, in order, after any
\* retries, late answers, resets of the EC and deaths of the process.
THEOREM LogInOrder ==
  ASSUME Alone, Reliable
  PROVE  Spec => []PagesInOrder
<1>1. LoneInv => PagesInOrder
  BY DEF LoneInv, Lone, InOrder, PagesInOrder
<1> QED BY <1>1, LoneInvariant, PTL

\* The EC never works on a request for another page than the one awaited.
THEOREM RequestsAgree ==
  ASSUME Alone, Reliable
  PROVE  Spec => []RequestsMatch
<1>1. LoneInv => RequestsMatch
  <2> SUFFICES ASSUME LoneInv, NEW c \in Clients,
                      cl[c].pc \in {"page", "fetch"}, job.cmd = "PAGE_REQ"
               PROVE  job.arg = cl[c].idx
    BY DEF RequestsMatch
  <2>1. PageOK(cl[c]) /\ Asking(cl[c])
    BY DEF LoneInv, Lone, Asking
  <2> QED BY <2>1 DEF PageOK, NoJob
<1> QED BY <1>1, LoneInvariant, PTL

\* When a page is fetched the window holds it, although the fetch is a later
\* access than the one that found the page ready.
THEOREM WindowHoldsPage ==
  ASSUME Alone, Reliable
  PROVE  Spec => []PageInWindow
<1>1. LoneInv => PageInWindow
  BY DEF LoneInv, Lone, PageOK, Asking, PageInWindow
<1> QED BY <1>1, LoneInvariant, PTL

\* The count that a call returns is the one the EC recorded, or -1.
THEOREM CountIsRight ==
  ASSUME Alone
  PROVE  Spec => []CountIsRecorded
<1>1. LoneInv => CountIsRecorded
  BY DEF LoneInv, Lone, CountOK, CountIsRecorded
<1> QED BY <1>1, LoneInvariant, PTL

\* EC_SUCCESS means that the vector is the whole log that the EC recorded: all
\* of its pages, in order, and nothing else.
THEOREM SuccessIsTheLog ==
  ASSUME Alone, Reliable
  PROVE  Spec => [](\A c \in Clients : cl[c].status = "EC_SUCCESS" =>
                      cl[c].vec = [i \in 1..recorded |-> i])
<1> DEFINE Whole == \A c \in Clients : cl[c].status = "EC_SUCCESS" =>
                      cl[c].vec = [i \in 1..recorded |-> i]
<1>1. LocalInv /\ LoneInv => Whole
  <2> SUFFICES ASSUME LocalInv, LoneInv, NEW c \in Clients, cl[c].status = "EC_SUCCESS"
               PROVE  cl[c].vec = [i \in 1..recorded |-> i]
    OBVIOUS
  <2>1. cl[c] \in ClientState /\ cl[c].n \in 1..16 /\ Len(cl[c].vec) = cl[c].n
    BY DEF LocalInv, Good
  <2>2. cl[c].n = recorded
    BY <2>1 DEF LoneInv, Lone, CountOK
  <2>3. \A i \in 1..Len(cl[c].vec) : cl[c].vec[i] = i
    BY DEF LoneInv, Lone, InOrder
  <2>4. cl[c].vec \in Seq(Nat)
    BY <2>1, FieldTypes
  <2> HIDE DEF Whole
  <2> QED BY <2>1, <2>2, <2>3, <2>4
<1> HIDE DEF Whole
<1>2. Spec => []Whole
  BY <1>1, LocalInvariant, LoneInvariant, PTL
<1> QED BY <1>2 DEF Whole
=============================================================================

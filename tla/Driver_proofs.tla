---------------------------- MODULE Driver_proofs ----------------------------
(***************************************************************************)
(* The driver's safety, for every page size, memory, set of requests and   *)
(* set of faults: types, the copy inside its view, what a TRUE result      *)
(* means, the names, and that callers see PhysicalMemory.                  *)
(***************************************************************************)
EXTENDS Driver, TLAPS

\* What is true of one request at every stage.  It says nothing of any other
\* request and of no byte of the memory.
IrpOK(r) ==
  /\ r \in Irp
  /\ r.pc # "none" =>
       /\ r.req \in Requests /\ r.req.code \in {"READ", "WRITE"}
       /\ OperationByteCount(r.req) \in 1..PAGE_SIZE
       /\ r.moved <= OperationByteCount(r.req)
       /\ r.info = 0
  /\ r.pc \in {"section", "map"} => r.moved = 0
  /\ r.pc = "none" =>
       /\ r.info = r.moved
       /\ NT_SUCCESS(r.status) =>
            r.moved = IF OperationByteCount(r.req) \in 1..PAGE_SIZE
                      THEN OperationByteCount(r.req) ELSE 0

NamesInv ==
  /\ driver \in Stages /\ device \in BOOLEAN /\ link \in BOOLEAN
  /\ link => driver \in {"loaded", "stopping"}
  /\ device <=> driver \in {"created", "loaded", "stopping", "unlinked"}

Inv ==
  /\ mem \in [Memory -> Data]
  /\ handles \in SUBSET Threads
  /\ irp \in [Threads -> Irp] /\ \A t \in Threads : IrpOK(irp[t])
  /\ NamesInv
-----------------------------------------------------------------------------
(***************************************************************************)
(* The helpers.                                                            *)
(***************************************************************************)
LEMMA CountNat ==
  ASSUME NEW q \in RequestShape
  PROVE  OperationByteCount(q) \in Nat /\ OperationByteCount(q) <= q.accessCount
  BY DEF OperationByteCount, RequestShape

LEMMA OffsetInPage ==
  ASSUME NEW q \in RequestShape
  PROVE  MemoryOffset(q) \in 0..PAGE_SIZE - 1
  BY DriverAssumption DEF MemoryOffset, RequestShape

\* The copy touches the addresses that were asked for, whatever the page size.
LEMMA CursorIs ==
  ASSUME NEW r \in Irp
  PROVE  Cursor(r) = r.req.address + r.moved
<1>1. r.req.address \in Nat /\ r.moved \in Int
  BY DEF Irp, RequestShape
<1>2. r.req.address % PAGE_SIZE \in Int
  BY <1>1, DriverAssumption
<1>3. QED  BY <1>1, <1>2 DEF Cursor, ViewBase, MemoryOffset

LEMMA CursorInMemory ==
  ASSUME NEW r, IrpOK(r), r.pc = "copy", r.moved < OperationByteCount(r.req)
  PROVE  /\ Cursor(r) \in Memory
         /\ r.moved + 1 <= OperationByteCount(r.req) /\ r.moved + 1 \in 0..PAGE_SIZE
         /\ r.moved \in 0..PAGE_SIZE - 1
<1>1. r \in Irp /\ r.moved \in 0..PAGE_SIZE /\ r.req \in Requests
      /\ OperationByteCount(r.req) \in 1..PAGE_SIZE
  BY DEF IrpOK, Irp
<1>2. r.req.address \in Nat
  BY <1>1 DEF Irp, RequestShape
<1>3. r.moved \in 0..PAGE_SIZE - 1 /\ r.moved + 1 <= OperationByteCount(r.req)
  BY <1>1, DriverAssumption
<1>4. r.req.address + r.moved \in r.req.address..(r.req.address + PAGE_SIZE - 1)
  BY <1>2, <1>3, DriverAssumption
<1>5. Cursor(r) \in Memory
  BY <1>1, <1>4, CursorIs, DriverAssumption
<1>6. QED  BY <1>1, <1>3, <1>5, DriverAssumption

LEMMA CompletedOK ==
  ASSUME NEW r \in Irp, NEW status \in Statuses,
         status = "SUCCESS" => /\ OperationByteCount(r.req) \in 1..PAGE_SIZE
                               /\ r.moved = OperationByteCount(r.req),
         status # "SUCCESS" => r.moved = 0,
         status = "ABANDONED" => OperationByteCount(r.req) \notin 1..PAGE_SIZE
  PROVE  IrpOK(Completed(r, status))
<1> DEFINE d == Completed(r, status)
<1>1. d \in Irp
  <2>1. (IF status = "SUCCESS" THEN OperationByteCount(r.req) ELSE 0) \in 0..PAGE_SIZE
    BY DriverAssumption
  <2>2. QED  BY <2>1 DEF Completed, Irp
<1>2. /\ d.pc = "none" /\ d.status = status /\ d.req = r.req /\ d.moved = r.moved
      /\ d.info = (IF status = "SUCCESS" THEN OperationByteCount(r.req) ELSE 0)
  BY DEF Completed, Irp
<1> HIDE DEF d
<1>3. IrpOK(d)
  BY <1>1, <1>2 DEF IrpOK, NT_SUCCESS
<1>4. QED  BY <1>3 DEF d

LEMMA ReceivedIs ==
  ASSUME NEW q \in RequestShape
  PROVE  /\ Received(q) \in Irp
         /\ Received(q).req = q /\ Received(q).pc = "section" /\ Received(q).moved = 0
         /\ Received(q).info = 0 /\ Received(q).got = <<>>
  BY DriverAssumption DEF Received, Irp, Statuses

LEMMA CheckedOK ==
  ASSUME NEW q \in Requests, q.code # "OTHER"
  PROVE  IrpOK(Checked(Received(q)))
<1> DEFINE r == Received(q)
<1>1. q \in RequestShape /\ q.code \in {"READ", "WRITE"}
  BY DriverAssumption DEF RequestShape
<1>2. r \in Irp /\ r.req = q /\ r.pc = "section" /\ r.moved = 0 /\ r.info = 0
  BY <1>1, ReceivedIs
<1>3. OperationByteCount(q) \in Nat
  BY <1>1, CountNat
<1> HIDE DEF r
<1>4. CASE OperationByteCount(q) > PAGE_SIZE \/ OperationByteCount(q) = 0
  <2>1. OperationByteCount(q) \notin 1..PAGE_SIZE
    BY <1>3, <1>4, DriverAssumption
  <2>2. IrpOK(Completed(r, "ABANDONED"))
    BY <1>2, <2>1, CompletedOK DEF Statuses
  <2>3. QED  BY <1>2, <1>4, <2>2 DEF Checked, r
<1>5. CASE ~(OperationByteCount(q) > PAGE_SIZE \/ OperationByteCount(q) = 0)
  <2>1. OperationByteCount(q) \in 1..PAGE_SIZE
    BY <1>3, <1>5, DriverAssumption
  <2>2. IrpOK(r)
    BY <1>1, <1>2, <2>1 DEF IrpOK
  <2>3. QED  BY <1>2, <1>5, <2>2 DEF Checked, r
<1>6. QED  BY <1>4, <1>5

LEMMA DispatchedOK ==
  ASSUME NEW q \in Requests, NEW locked \in BOOLEAN
  PROVE  IrpOK(Dispatched(Received(q), locked))
<1> DEFINE r == Received(q)
<1>1. q \in RequestShape /\ r \in Irp /\ r.req = q /\ r.moved = 0
  BY ReceivedIs, DriverAssumption
<1> HIDE DEF r
<1>2. \A s \in {"INVALID_DEVICE_REQUEST", "INVALID_PARAMETER", "INSUFFICIENT_RESOURCES"} :
        IrpOK(Completed(r, s))
  BY <1>1, CompletedOK DEF Statuses
<1>3. CASE q.code = "OTHER"
  BY <1>1, <1>2, <1>3 DEF Dispatched, r
<1>4. CASE q.code # "OTHER" /\ ~q.whole
  BY <1>1, <1>2, <1>4 DEF Dispatched, r
<1>5. CASE q.code = "WRITE" /\ q.whole /\ ~locked
  BY <1>1, <1>2, <1>5 DEF Dispatched, r
<1>6. CASE q.code # "OTHER" /\ q.whole /\ ~(q.code = "WRITE" /\ ~locked)
  BY <1>1, <1>6, CheckedOK DEF Dispatched, r
<1>7. QED  BY <1>3, <1>4, <1>5, <1>6
-----------------------------------------------------------------------------
(***************************************************************************)
(* The steps of a request: each gives one thread a request that is again   *)
(* as IrpOK says.                                                          *)
(***************************************************************************)
LEMMA OneThread ==
  ASSUME Inv, NEW t \in Threads, NEW r, IrpOK(r), Step(t, r)
  PROVE  irp' \in [Threads -> Irp] /\ \A u \in Threads : IrpOK(irp'[u])
  BY DEF Inv, Step, IrpOK

LEMMA OpenSectionOK ==
  ASSUME Inv, NEW t \in Threads, OpenSection(t)
  PROVE  Inv'
<1> DEFINE r == irp[t]
<1>1. r \in Irp /\ r.pc = "section" /\ IrpOK(r)
  BY DEF Inv, OpenSection
<1>2. IrpOK([r EXCEPT !.pc = "map"])
  <2>1. [r EXCEPT !.pc = "map"] \in Irp
    BY <1>1 DEF Irp
  <2>2. QED  BY <1>1, <2>1 DEF IrpOK, Irp
<1>3. IrpOK(Completed(r, "UNSUCCESSFUL"))
  BY <1>1, CompletedOK DEF IrpOK, Statuses
<1>4. \E d : IrpOK(d) /\ Step(t, d)
  BY <1>2, <1>3 DEF OpenSection
<1>5. irp' \in [Threads -> Irp] /\ \A u \in Threads : IrpOK(irp'[u])
  BY <1>4, OneThread
<1>6. QED  BY <1>5 DEF Inv, NamesInv, OpenSection, life

LEMMA MapViewOK ==
  ASSUME Inv, NEW t \in Threads, MapView(t)
  PROVE  Inv'
<1> DEFINE r == irp[t]
<1>1. r \in Irp /\ r.pc = "map" /\ IrpOK(r)
  BY DEF Inv, MapView
<1>2. IrpOK([r EXCEPT !.pc = "copy"])
  <2>1. [r EXCEPT !.pc = "copy"] \in Irp
    BY <1>1 DEF Irp
  <2>2. QED  BY <1>1, <2>1 DEF IrpOK, Irp
<1>3. IrpOK(Completed(r, "UNSUCCESSFUL"))
  BY <1>1, CompletedOK DEF IrpOK, Statuses
<1>4. \E d : IrpOK(d) /\ Step(t, d)
  BY <1>2, <1>3 DEF MapView
<1>5. irp' \in [Threads -> Irp] /\ \A u \in Threads : IrpOK(irp'[u])
  BY <1>4, OneThread
<1>6. QED  BY <1>5 DEF Inv, NamesInv, MapView, life

LEMMA ReadOK ==
  ASSUME Inv, NEW t \in Threads, PhysicalAddressRead(t)
  PROVE  Inv'
<1> DEFINE r == irp[t]
           d == [r EXCEPT !.moved = @ + 1, !.got = Append(@, mem[Cursor(r)])]
<1>1. r \in Irp /\ IrpOK(r) /\ r.pc = "copy" /\ r.moved < OperationByteCount(r.req)
  BY DEF Inv, PhysicalAddressRead, Copying
<1>2. /\ mem[Cursor(r)] \in Data
      /\ r.moved + 1 <= OperationByteCount(r.req) /\ r.moved + 1 \in 0..PAGE_SIZE
  BY <1>1, CursorInMemory DEF Inv
<1>3. Append(r.got, mem[Cursor(r)]) \in Seq(Data)
  BY <1>1, <1>2 DEF Irp
<1>4. d \in Irp
  BY <1>1, <1>2, <1>3, Zenon DEF Irp
<1>5. d.pc = "copy" /\ d.req = r.req /\ d.moved = r.moved + 1 /\ d.info = r.info
  BY <1>1 DEF Irp
<1>6. Step(t, d)
  BY DEF PhysicalAddressRead
<1> HIDE DEF d
<1>7. IrpOK(d)
  BY <1>1, <1>2, <1>4, <1>5 DEF IrpOK
<1>8. irp' \in [Threads -> Irp] /\ \A u \in Threads : IrpOK(irp'[u])
  BY <1>6, <1>7, OneThread
<1>9. QED  BY <1>8 DEF Inv, NamesInv, PhysicalAddressRead, life

LEMMA WriteOK ==
  ASSUME Inv, NEW t \in Threads, PhysicalAddressWrite(t)
  PROVE  Inv'
<1> DEFINE r == irp[t]
           d == [r EXCEPT !.moved = @ + 1]
<1>1. r \in Irp /\ IrpOK(r) /\ r.pc = "copy" /\ r.moved < OperationByteCount(r.req)
  BY DEF Inv, PhysicalAddressWrite, Copying
<1>2. /\ r.moved \in 0..PAGE_SIZE - 1
      /\ r.moved + 1 <= OperationByteCount(r.req) /\ r.moved + 1 \in 0..PAGE_SIZE
  BY <1>1, CursorInMemory
<1>3. d \in Irp
  BY <1>1, <1>2, Zenon DEF Irp
<1>4. d.pc = "copy" /\ d.req = r.req /\ d.moved = r.moved + 1 /\ d.info = r.info
  BY <1>1 DEF Irp
<1>5. Step(t, d)
  BY DEF PhysicalAddressWrite
<1> HIDE DEF d
<1>6. IrpOK(d)
  BY <1>1, <1>2, <1>3, <1>4 DEF IrpOK
<1>7. irp' \in [Threads -> Irp] /\ \A u \in Threads : IrpOK(irp'[u])
  BY <1>5, <1>6, OneThread
<1>8. Sent(t, r.moved) \in Data
  BY <1>2 DEF Data
<1>9. mem' \in [Memory -> Data]
  BY <1>8 DEF PhysicalAddressWrite, Inv
<1>10. QED  BY <1>7, <1>9 DEF Inv, NamesInv, PhysicalAddressWrite, life

LEMMA CompleteRequestOK ==
  ASSUME Inv, NEW t \in Threads, CompleteRequest(t)
  PROVE  /\ Inv'
         /\ irp[t].moved = OperationByteCount(irp[t].req)
<1> DEFINE r == irp[t]
<1>1. r \in Irp /\ IrpOK(r) /\ r.pc = "copy" /\ ~(r.moved < OperationByteCount(r.req))
  BY DEF Inv, CompleteRequest, Copying
<1>2. r.moved = OperationByteCount(r.req) /\ OperationByteCount(r.req) \in 1..PAGE_SIZE
  BY <1>1, DriverAssumption DEF IrpOK, Irp
<1>3. IrpOK(Completed(r, "SUCCESS"))
  BY <1>1, <1>2, CompletedOK DEF Statuses
<1>4. irp' \in [Threads -> Irp] /\ \A u \in Threads : IrpOK(irp'[u])
  BY <1>3, OneThread DEF CompleteRequest
<1>5. QED  BY <1>2, <1>4 DEF Inv, NamesInv, CompleteRequest, life

LEMMA DispatchDeviceControlOK ==
  ASSUME Inv, NEW t \in Threads, DispatchDeviceControl(t)
  PROVE  Inv'
<1>1. PICK q \in Requests, locked \in May("lock") : Step(t, Dispatched(Received(q), locked))
  BY DEF DispatchDeviceControl
<1>2. locked \in BOOLEAN
  BY DEF May
<1>3. irp' \in [Threads -> Irp] /\ \A u \in Threads : IrpOK(irp'[u])
  BY <1>1, <1>2, DispatchedOK, OneThread
<1>4. QED  BY <1>3 DEF Inv, NamesInv, DispatchDeviceControl, life

LEMMA ServeOK ==
  ASSUME Inv, NEW t \in Threads, Serve(t)
  PROVE  Inv'
  BY OpenSectionOK, MapViewOK, ReadOK, WriteOK, CompleteRequestOK DEF Serve
-----------------------------------------------------------------------------
LEMMA InitOK == Init => Inv
<1> SUFFICES ASSUME Init PROVE Inv
  OBVIOUS
<1> DEFINE r == [Received(NoRequest) EXCEPT !.pc = "none"]
<1>1. NoRequest \in RequestShape
  BY DEF NoRequest, RequestShape
<1>2. Received(NoRequest) \in Irp /\ Received(NoRequest).status = "PENDING"
  BY <1>1, ReceivedIs DEF Received
<1>3. r \in Irp
  BY <1>2 DEF Irp
<1>4. r.pc = "none" /\ r.info = 0 /\ r.moved = 0 /\ r.status = "PENDING"
  BY <1>1, <1>2, ReceivedIs DEF Irp
<1> HIDE DEF r
<1>5. IrpOK(r)
  BY <1>3, <1>4 DEF IrpOK, NT_SUCCESS
<1>6. irp = [t \in Threads |-> r]
  BY DEF Init, r
<1>7. mem \in [Memory -> Data]
  BY DEF Init, Data
<1>8. NamesInv
  BY DEF Init, NamesInv, Stages
<1>9. QED  BY <1>3, <1>5, <1>6, <1>7, <1>8 DEF Inv, Init

\* The driver's life touches no request: only NamesInv is at stake.
LEMMA LifeOK ==
  ASSUME Inv, DriverEntry \/ CreateLink \/ StopDriver \/ Unload \/ Reboot
  PROVE  Inv'
<1>1. UNCHANGED <<mem, irp, handles>>
  BY DEF DriverEntry, CreateLink, StopDriver, Unload, UnloadLink, UnloadDevice, UnloadNext, Reboot
<1>2. NamesInv'
  <2>1. CASE DriverEntry
    BY <2>1 DEF Inv, NamesInv, Stages, DriverEntry
  <2>2. CASE CreateLink
    BY <2>2 DEF Inv, NamesInv, Stages, CreateLink
  <2>3. CASE StopDriver
    BY <2>3 DEF Inv, NamesInv, Stages, StopDriver
  <2>4. CASE Unload
    <3>1. CASE UnloadLink
      BY <3>1 DEF Inv, NamesInv, Stages, UnloadLink
    <3>2. CASE UnloadDevice
      BY <3>2 DEF Inv, NamesInv, Stages, UnloadDevice
    <3>3. CASE UnloadNext
      BY <3>3 DEF Inv, NamesInv, Stages, UnloadNext
    <3>4. QED  BY <2>4, <3>1, <3>2, <3>3 DEF Unload
  <2>5. CASE Reboot
    BY <2>5 DEF Inv, NamesInv, Stages, Reboot
  <2>6. QED  BY <2>1, <2>2, <2>3, <2>4, <2>5
<1>3. QED  BY <1>1, <1>2 DEF Inv

LEMMA NextOK == Inv /\ [Next]_vars => Inv'
<1> SUFFICES ASSUME Inv, [Next]_vars PROVE Inv'
  OBVIOUS
<1>1. ASSUME NEW t \in Threads, DispatchCreate(t) \/ DispatchClose(t) PROVE Inv'
  BY <1>1 DEF Inv, NamesInv, DispatchCreate, DispatchClose, life
<1>2. ASSUME NEW t \in Threads, DispatchDeviceControl(t) \/ Serve(t) PROVE Inv'
  BY <1>2, DispatchDeviceControlOK, ServeOK
<1>3. CASE DriverEntry \/ CreateLink \/ StopDriver \/ Unload \/ Reboot
  BY <1>3, LifeOK
<1>4. CASE Firmware
  BY <1>4 DEF Inv, NamesInv, Firmware, life, Data
<1>5. CASE UNCHANGED vars
  BY <1>5 DEF Inv, NamesInv, vars, life
<1>6. QED  BY <1>1, <1>2, <1>3, <1>4, <1>5 DEF Next

LEMMA Invariant == Spec => []Inv
  BY InitOK, NextOK, PTL DEF Spec

\* The variables keep their types, for every page size and set of requests:
\* no copy moves more than a page, however much is asked for.
THEOREM TypeCorrect == Spec => []TypeOK
<1>1. Inv => TypeOK
  BY DEF Inv, NamesInv, TypeOK
<1>2. QED  BY <1>1, Invariant, PTL

\* The copy of every request stays inside its view of two pages (lines 92, 94,
\* 126 and 198), at every offset of the address in its page.
THEOREM CopySafe == Spec => []CopyInsideView
<1>1. Inv => CopyInsideView
  <2> SUFFICES ASSUME Inv, NEW t \in Threads, irp[t].pc = "copy"
               PROVE  MemoryOffset(irp[t].req) + OperationByteCount(irp[t].req) <= ViewLength
    BY DEF CopyInsideView
  <2>1. OperationByteCount(irp[t].req) \in 1..PAGE_SIZE /\ irp[t].req \in RequestShape
    BY DEF Inv, IrpOK, Irp
  <2>2. MemoryOffset(irp[t].req) \in 0..PAGE_SIZE - 1
    BY <2>1, OffsetInPage
  <2>3. QED  BY <2>1, <2>2, DriverAssumption DEF ViewLength
<1>2. QED  BY <1>1, Invariant, PTL

\* Information is the number of bytes moved, and TRUE means that all were that
\* were asked for and have room, or that these were none or more than a page
\* and nothing was (lines 94, 166, 235, 258 and 270).
THEOREM TrueIsTrue == Spec => []TrueMeansMoved
<1>1. Inv => TrueMeansMoved
  BY DEF Inv, IrpOK, TrueMeansMoved
<1>2. QED  BY <1>1, Invariant, PTL

\* Device and link follow the driver through failures of DriverEntry and every
\* order of unload and reload (lines 60-65 and 306-313).
THEOREM NamesOrdered == Spec => []NamesFollowDriver
<1>1. Inv => NamesFollowDriver
  BY DEF Inv, NamesInv, NamesFollowDriver
<1>2. QED  BY <1>1, Invariant, PTL
-----------------------------------------------------------------------------
(***************************************************************************)
(* The driver implements PhysicalMemory.  Dispatching a request begins or  *)
(* refuses an access, a byte copied is a byte moved at the address asked   *)
(* for, a completion ends the access; the rest is invisible.               *)
(***************************************************************************)
Acc == [t \in Threads |-> Seen(irp[t])]

LEMMA AccStep ==
  ASSUME Inv, NEW t \in Threads, NEW d, Step(t, d)
  PROVE  Acc' = [Acc EXCEPT ![t] = Seen(d)] /\ Acc[t] = Seen(irp[t])
  BY DEF Inv, Step, Acc

LEMMA CompletedSeen ==
  ASSUME NEW r \in Irp, NEW status
  PROVE  Seen(Completed(r, status)) =
           [stage |-> "over", access |-> Access(r.req), moved |-> r.moved, got |-> r.got,
            told |-> IF status = "SUCCESS" THEN OperationByteCount(r.req) ELSE 0]
<1> DEFINE d == Completed(r, status)
<1>1. /\ d.pc = "none" /\ d.req = r.req /\ d.moved = r.moved /\ d.got = r.got
      /\ d.info = IF status = "SUCCESS" THEN OperationByteCount(r.req) ELSE 0
  BY DEF Completed, Irp
<1> HIDE DEF d
<1>2. Seen(d) =
        [stage |-> "over", access |-> Access(r.req), moved |-> r.moved, got |-> r.got,
         told |-> IF status = "SUCCESS" THEN OperationByteCount(r.req) ELSE 0]
  BY <1>1, Zenon DEF Seen
<1>3. QED  BY <1>2 DEF d

LEMMA ReceivedSeen ==
  ASSUME NEW q \in RequestShape
  PROVE  Seen(Received(q)) = Physical!Start(Access(q))
<1>1. Received(q).pc # "none"
  BY ReceivedIs
<1>2. QED  BY <1>1, ReceivedIs, Zenon DEF Seen, Physical!Start

\* A request that is refused has moved nothing and says so.
LEMMA RefusedSeen ==
  ASSUME NEW q \in RequestShape, NEW status, status # "SUCCESS"
  PROVE  Seen(Completed(Received(q), status)) = Physical!Over(Physical!Start(Access(q)), 0)
<1>1. Seen(Completed(Received(q), status)) =
        [stage |-> "over", access |-> Access(q), moved |-> 0, got |-> <<>>, told |-> 0]
  <2>1. /\ Received(q) \in Irp /\ Received(q).req = q /\ Received(q).moved = 0
        /\ Received(q).got = <<>>
    BY ReceivedIs
  <2>2. Seen(Completed(Received(q), status)) =
          [stage |-> "over", access |-> Access(Received(q).req), moved |-> Received(q).moved,
           got |-> Received(q).got,
           told |-> IF status = "SUCCESS" THEN OperationByteCount(Received(q).req) ELSE 0]
    BY <2>1, CompletedSeen
  <2>3. QED  BY <2>1, <2>2, Zenon
<1>2. QED  BY <1>1, Zenon DEF Physical!Start, Physical!Over

LEMMA DispatchSeen ==
  ASSUME Inv, NEW t \in Threads, DispatchDeviceControl(t)
  PROVE  Physical!Next
<1>1. PICK q \in Requests, locked \in May("lock") : Step(t, Dispatched(Received(q), locked))
  BY DEF DispatchDeviceControl
<1>2. q \in RequestShape /\ Received(q).req = q
  BY ReceivedIs, DriverAssumption
<1>3. \/ Dispatched(Received(q), locked) = Received(q)
      \/ \E s : s # "SUCCESS" /\ Dispatched(Received(q), locked) = Completed(Received(q), s)
  BY <1>2 DEF Dispatched, Checked
<1>4. \/ Seen(Dispatched(Received(q), locked)) = Physical!Start(Access(q))
      \/ Seen(Dispatched(Received(q), locked)) = Physical!Over(Physical!Start(Access(q)), 0)
  BY <1>2, <1>3, ReceivedSeen, RefusedSeen
<1>5. Acc' = [Acc EXCEPT ![t] = Seen(Dispatched(Received(q), locked))] /\ Acc[t].stage = "over"
  <2>1. irp[t].pc = "none" /\ Acc[t] = Seen(irp[t])
    BY <1>1, AccStep DEF DispatchDeviceControl
  <2>2. Acc[t].stage = "over"
    BY <2>1 DEF Seen
  <2>3. QED  BY <1>1, <2>2, AccStep
<1>6. mem' = mem
  BY DEF DispatchDeviceControl
<1>7. Physical!Begin(t) \/ Physical!Refuse(t)
  BY <1>4, <1>5, <1>6 DEF Physical!Begin, Physical!Refuse, Acc
<1>8. QED  BY <1>7 DEF Physical!Next

LEMMA EndSeen ==
  ASSUME Inv, NEW t \in Threads, NEW status, irp[t].pc # "none", mem' = mem,
         Step(t, Completed(irp[t], status)),
         irp[t].moved = IF status = "SUCCESS" THEN OperationByteCount(irp[t].req) ELSE 0
  PROVE  Physical!Next
<1>1. irp[t] \in Irp
  BY DEF Inv
<1>2. Acc' = [Acc EXCEPT ![t] = Physical!Over(Acc[t], Acc[t].moved)]
  <2>1. Seen(Completed(irp[t], status)) = Physical!Over(Seen(irp[t]), irp[t].moved)
    <3>1. Seen(Completed(irp[t], status)) =
            [stage |-> "over", access |-> Access(irp[t].req), moved |-> irp[t].moved,
             got |-> irp[t].got, told |-> irp[t].moved]
      BY <1>1, CompletedSeen
    <3>2. QED  BY <3>1, Zenon DEF Seen, Physical!Over
  <2>2. Acc[t] = Seen(irp[t]) /\ Acc[t].moved = irp[t].moved
    BY AccStep DEF Seen
  <2>3. Acc' = [Acc EXCEPT ![t] = Seen(Completed(irp[t], status))]
    BY AccStep
  <2>4. QED  BY <2>1, <2>2, <2>3
<1>3. Acc[t].stage = "busy" /\ Acc[t].moved \in {0, Acc[t].access.count}
  BY DEF Acc, Seen, Access
<1>4. Physical!End(t)
  BY <1>2, <1>3 DEF Physical!End, Acc
<1>5. QED  BY <1>4 DEF Physical!Next

LEMMA MapSeen ==
  ASSUME Inv, NEW t \in Threads, OpenSection(t) \/ MapView(t)
  PROVE  [Physical!Next]_Physical!vars
<1>1. irp[t] \in Irp /\ irp[t].pc \in {"section", "map"} /\ irp[t].moved = 0 /\ mem' = mem
  BY DEF Inv, IrpOK, OpenSection, MapView
<1>2. \/ Step(t, Completed(irp[t], "UNSUCCESSFUL"))
      \/ \E pc \in {"map", "copy"} : Step(t, [irp[t] EXCEPT !.pc = pc])
  BY DEF OpenSection, MapView
<1>3. CASE Step(t, Completed(irp[t], "UNSUCCESSFUL"))
  BY <1>1, <1>3, EndSeen
<1>4. ASSUME NEW pc \in {"map", "copy"}, Step(t, [irp[t] EXCEPT !.pc = pc])
      PROVE  Acc' = Acc
  <2>1. Seen([irp[t] EXCEPT !.pc = pc]) = Seen(irp[t])
    BY <1>1 DEF Seen, Irp
  <2>2. QED  BY <1>4, <2>1, AccStep DEF Acc
<1>5. QED  BY <1>1, <1>2, <1>3, <1>4 DEF Physical!vars, Acc

LEMMA ReadSeen ==
  ASSUME Inv, NEW t \in Threads, PhysicalAddressRead(t)
  PROVE  Physical!Next
<1> DEFINE r == irp[t]
           d == [r EXCEPT !.moved = @ + 1, !.got = Append(@, mem[Cursor(r)])]
<1>1. r \in Irp /\ r.pc = "copy" /\ r.req.code = "READ" /\ r.moved < OperationByteCount(r.req)
      /\ r.info = 0 /\ Step(t, d) /\ mem' = mem
  BY DEF Inv, IrpOK, PhysicalAddressRead, Copying
<1>2. Cursor(r) = r.req.address + r.moved
  BY <1>1, CursorIs
<1>3. Seen(d) = Physical!Onward(Seen(r), Append(r.got, mem[Cursor(r)]))
  <2>1. /\ d.pc = "copy" /\ d.req = r.req /\ d.info = 0 /\ d.moved = r.moved + 1
        /\ d.got = Append(r.got, mem[Cursor(r)])
    BY <1>1 DEF Irp
  <2> HIDE DEF d
  <2>2. QED  BY <2>1, Zenon DEF Seen, Physical!Onward
<1>4. Acc[t] = Seen(r) /\ Acc' = [Acc EXCEPT ![t] = Seen(d)]
  BY <1>1, AccStep
<1>5. /\ Acc[t].stage = "busy" /\ Acc[t].access.kind = "READ" /\ Acc[t].moved < Acc[t].access.count
      /\ Acc[t].moved = r.moved /\ Acc[t].got = r.got
      /\ Acc[t].access.address + Acc[t].moved = Cursor(r)
  BY <1>1, <1>2, <1>4 DEF Seen, Access
<1>6. Acc' = [Acc EXCEPT ![t] = Physical!Onward(Acc[t],
                Append(Acc[t].got, mem[Acc[t].access.address + Acc[t].moved]))]
  BY <1>3, <1>4, <1>5
<1>7. Physical!ReadByte(t)
  BY <1>1, <1>5, <1>6 DEF Physical!ReadByte, Acc
<1>8. QED  BY <1>7 DEF Physical!Next

LEMMA WriteSeen ==
  ASSUME Inv, NEW t \in Threads, PhysicalAddressWrite(t)
  PROVE  Physical!Next
<1> DEFINE r == irp[t]
           d == [r EXCEPT !.moved = @ + 1]
<1>1. r \in Irp /\ r.pc = "copy" /\ r.req.code = "WRITE" /\ r.moved < OperationByteCount(r.req)
      /\ r.info = 0 /\ Step(t, d) /\ mem' = [mem EXCEPT ![Cursor(r)] = Sent(t, r.moved)]
  BY DEF Inv, IrpOK, PhysicalAddressWrite, Copying
<1>2. Cursor(r) = r.req.address + r.moved
  BY <1>1, CursorIs
<1>3. Seen(d) = Physical!Onward(Seen(r), r.got)
  <2>1. /\ d.pc = "copy" /\ d.req = r.req /\ d.info = 0 /\ d.moved = r.moved + 1
        /\ d.got = r.got
    BY <1>1 DEF Irp
  <2> HIDE DEF d
  <2>2. QED  BY <2>1, Zenon DEF Seen, Physical!Onward
<1>4. Acc[t] = Seen(r) /\ Acc' = [Acc EXCEPT ![t] = Seen(d)]
  BY <1>1, AccStep
<1>5. /\ Acc[t].stage = "busy" /\ Acc[t].access.kind = "WRITE" /\ Acc[t].moved < Acc[t].access.count
      /\ Acc[t].moved = r.moved /\ Acc[t].got = r.got
      /\ Acc[t].access.address + Acc[t].moved = Cursor(r)
  BY <1>1, <1>2, <1>4 DEF Seen, Access
<1>6. Acc' = [Acc EXCEPT ![t] = Physical!Onward(Acc[t], Acc[t].got)]
  BY <1>3, <1>4, <1>5
<1>7. Physical!WriteByte(t)
  BY <1>1, <1>5, <1>6 DEF Physical!WriteByte, Acc
<1>8. QED  BY <1>7 DEF Physical!Next

LEMMA StepSeen == Inv /\ [Next]_vars => [Physical!Next]_Physical!vars
<1> SUFFICES ASSUME Inv, [Next]_vars PROVE [Physical!Next]_Physical!vars
  OBVIOUS
<1>1. ASSUME NEW t \in Threads, DispatchDeviceControl(t) PROVE Physical!Next
  BY <1>1, DispatchSeen
<1>2. ASSUME NEW t \in Threads, Serve(t) PROVE [Physical!Next]_Physical!vars
  <2>1. CASE CompleteRequest(t)
    BY <2>1, CompleteRequestOK, EndSeen DEF CompleteRequest
  <2>2. QED  BY <1>2, <2>1, MapSeen, ReadSeen, WriteSeen DEF Serve
<1>3. CASE Firmware
  <2>1. FIRMWARE \in Data
    BY DEF Data
  <2>2. Physical!Others
    BY <1>3, <2>1, Zenon DEF Firmware, Physical!Others
  <2>3. QED  BY <2>2 DEF Physical!Next
<1>4. CASE UNCHANGED <<mem, irp>>
  BY <1>4 DEF Physical!vars
<1>5. ASSUME NEW t \in Threads, DispatchCreate(t) \/ DispatchClose(t)
      PROVE  UNCHANGED <<mem, irp>>
  BY <1>5 DEF DispatchCreate, DispatchClose
<1>6. ASSUME DriverEntry \/ CreateLink \/ StopDriver \/ Unload \/ Reboot
      PROVE  UNCHANGED <<mem, irp>>
  BY <1>6 DEF DriverEntry, CreateLink, StopDriver, Unload, UnloadLink, UnloadDevice,
              UnloadNext, Reboot
<1>7. UNCHANGED vars => UNCHANGED <<mem, irp>>
  BY DEF vars
<1>8. QED  BY <1>1, <1>2, <1>3, <1>4, <1>5, <1>6, <1>7 DEF Next

\* Callers see PhysicalMemory: each access moves exactly the bytes asked for and
\* says so, or moves none (lines 99-138, 171-210 and 235-275).
THEOREM Implementation == Spec => AccessImplemented
<1>1. Init => Physical!Init
  <2> SUFFICES ASSUME Init PROVE Physical!Init
    OBVIOUS
  <2> DEFINE r == [Received(NoRequest) EXCEPT !.pc = "none"]
  <2>1. Seen(r) = Physical!Over(Physical!Start(Physical!NoAccess), 0)
    <3>1. /\ r.pc = "none" /\ r.req = NoRequest /\ r.moved = 0 /\ r.got = <<>> /\ r.info = 0
      BY DEF Received
    <3>2. Access(NoRequest) = Physical!NoAccess
      BY DEF Access, NoRequest, OperationByteCount, Physical!NoAccess
    <3> HIDE DEF r
    <3>3. Seen(r) = [stage |-> "over", access |-> Physical!NoAccess, moved |-> 0,
                     got |-> <<>>, told |-> 0]
      BY <3>1, <3>2, Zenon DEF Seen
    <3>4. QED  BY <3>3, Zenon DEF Physical!Start, Physical!Over
  <2>2. mem \in [Memory -> Data]
    BY DEF Init, Data
  <2>3. irp = [t \in Threads |-> r]
    BY DEF Init
  <2> HIDE DEF r
  <2>4. [t \in Threads |-> Seen(irp[t])] = [t \in Threads |-> Seen(r)]
    BY <2>3
  <2>5. QED  BY <2>1, <2>2, <2>4 DEF Physical!Init
<1>2. QED  BY <1>1, StepSeen, Invariant, PTL DEF Spec, AccessImplemented, Physical!Spec
-----------------------------------------------------------------------------
(***************************************************************************)
(* How far a request is from its completion.                               *)
(***************************************************************************)
Left(r) ==
  CASE r.pc = "none"    -> 0
    [] r.pc = "section" -> PAGE_SIZE + 3
    [] r.pc = "map"     -> PAGE_SIZE + 2
    [] r.pc = "copy"    -> PAGE_SIZE - r.moved + 1

\* Every step of a request brings it nearer to its completion, and nothing but a
\* new request of the same thread takes it further away: at most a page is copied
\* (the safety half of RequestCompletes).
RequestShrinks ==
  \A t \in Threads :
    /\ Left(irp[t]) \in Nat
    /\ Serve(t) => Left(irp'[t]) < Left(irp[t])
    /\ irp'[t] # irp[t] => DispatchDeviceControl(t) \/ Serve(t)

LEMMA LeftTypes ==
  ASSUME NEW r \in Irp
  PROVE  Left(r) \in Nat /\ (r.pc # "none" => Left(r) > 0) /\ (r.pc = "none" => Left(r) = 0)
<1>1. r.pc \in {"none", "section", "map", "copy"} /\ r.moved \in 0..PAGE_SIZE
  BY DEF Irp
<1>2. QED  BY <1>1, DriverAssumption DEF Left

LEMMA ServeFalls ==
  ASSUME Inv, Inv', NEW t \in Threads, Serve(t)
  PROVE  Left(irp'[t]) < Left(irp[t])
<1> DEFINE r == irp[t]
           d == irp'[t]
<1>1. /\ r \in Irp /\ d \in Irp /\ r.moved \in 0..PAGE_SIZE /\ PAGE_SIZE \in Nat
      /\ r.pc # "none"
  BY DriverAssumption
     DEF Inv, Irp, Serve, OpenSection, MapView, CompleteRequest, PhysicalAddressRead,
         PhysicalAddressWrite, Copying
<1>2. d.pc = "none" => Left(d) < Left(r)
  BY <1>1, LeftTypes
<1>3. CASE OpenSection(t)
  <2>1. d \in {[r EXCEPT !.pc = "map"], Completed(r, "UNSUCCESSFUL")} /\ r.pc = "section"
    BY <1>3 DEF OpenSection, Step, Inv
  <2>2. d.pc \in {"none", "map"}
    BY <1>1, <2>1 DEF Completed, Irp
  <2> HIDE DEF d, r
  <2>3. Left(r) = PAGE_SIZE + 3 /\ (d.pc = "map" => Left(d) = PAGE_SIZE + 2)
    BY <2>1 DEF Left
  <2>4. QED  BY <1>1, <1>2, <2>2, <2>3 DEF d, r
<1>4. CASE MapView(t)
  <2>1. d \in {[r EXCEPT !.pc = "copy"], Completed(r, "UNSUCCESSFUL")} /\ r.pc = "map"
    BY <1>4 DEF MapView, Step, Inv
  <2>2. d.pc \in {"none", "copy"} /\ d.moved = r.moved
    BY <1>1, <2>1 DEF Completed, Irp
  <2> HIDE DEF d, r
  <2>3. Left(r) = PAGE_SIZE + 2 /\ (d.pc = "copy" => Left(d) = PAGE_SIZE - d.moved + 1)
    BY <2>1 DEF Left
  <2>4. QED  BY <1>1, <1>2, <2>2, <2>3 DEF d, r
<1>5. CASE CompleteRequest(t)
  <2>1. d.pc = "none"
    BY <1>1, <1>5 DEF CompleteRequest, Completed, Step, Inv, Irp
  <2>2. QED  BY <1>2, <2>1
<1>6. CASE PhysicalAddressRead(t) \/ PhysicalAddressWrite(t)
  <2>1. PICK got : \/ d = [r EXCEPT !.moved = @ + 1, !.got = got]
                   \/ d = [r EXCEPT !.moved = @ + 1]
    BY <1>6 DEF PhysicalAddressRead, PhysicalAddressWrite, Step, Inv
  <2>2. r.pc = "copy" /\ d.pc = "copy" /\ d.moved = r.moved + 1
    BY <1>1, <1>6, <2>1 DEF PhysicalAddressRead, PhysicalAddressWrite, Copying, Irp
  <2>3. d.moved \in 0..PAGE_SIZE
    BY <1>1 DEF Irp
  <2> HIDE DEF d, r
  <2>4. Left(r) = PAGE_SIZE - r.moved + 1 /\ Left(d) = PAGE_SIZE - d.moved + 1
    BY <2>2 DEF Left
  <2>5. QED  BY <1>1, <2>2, <2>3, <2>4 DEF d, r
<1>7. QED  BY <1>3, <1>4, <1>5, <1>6 DEF Serve

THEOREM RequestsAreBounded == Spec => [][RequestShrinks]_vars
<1>1. Inv /\ Inv' /\ [Next]_vars => [RequestShrinks]_vars
  <2> SUFFICES ASSUME Inv, Inv', Next, NEW t \in Threads
               PROVE  /\ Left(irp[t]) \in Nat
                      /\ Serve(t) => Left(irp'[t]) < Left(irp[t])
                      /\ irp'[t] # irp[t] => DispatchDeviceControl(t) \/ Serve(t)
    BY DEF RequestShrinks
  <2>1. Left(irp[t]) \in Nat
    BY LeftTypes DEF Inv
  <2>2. ASSUME irp'[t] # irp[t] PROVE DispatchDeviceControl(t) \/ Serve(t)
    <3>1. irp' # irp
      BY <2>2
    <3>2. PICK u \in Threads : DispatchDeviceControl(u) \/ Serve(u)
      BY <3>1 DEF Next, DispatchCreate, DispatchClose, DriverEntry, CreateLink, StopDriver,
                  Unload, UnloadLink, UnloadDevice, UnloadNext, Reboot, Firmware
    <3>3. \E r : Step(u, r)
      BY <3>2, Zenon DEF DispatchDeviceControl, Serve, OpenSection, MapView, CompleteRequest,
                         PhysicalAddressRead, PhysicalAddressWrite
    <3>4. u # t => irp'[t] = irp[t]
      BY <3>3 DEF Step, Inv
    <3>5. QED  BY <2>2, <3>2, <3>4
  <2>3. QED  BY <2>1, <2>2, ServeFalls
<1>2. QED  BY <1>1, Invariant, PTL DEF Spec
=============================================================================

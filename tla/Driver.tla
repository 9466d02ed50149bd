------------------------------- MODULE Driver -------------------------------
(***************************************************************************)
(* The kernel driver XiaomiEcIo/PhysicalAddressAccess.c: its device object *)
(* and symbolic link, the requests of the threads that have the device     *)
(* open, and the copy between a request's buffer and a view of two pages   *)
(* of physical memory, made for every request.  Nothing in the driver      *)
(* locks: the steps of two requests interleave, and so do their bytes.     *)
(*                                                                         *)
(* The I/O manager (who opens, who is let in, when DriverUnload runs) and  *)
(* the memory manager (where a view begins) are not part of the repository *)
(* and are modelled from how the driver uses them.                         *)
(***************************************************************************)
EXTENDS Integers, Sequences

CONSTANTS
  Threads,    \* threads of the processes that use the driver
  PAGE_SIZE,  \* 0x1000 in the code
  Memory,     \* the physical addresses
  Requests,   \* what the threads ask for
  Faults      \* what may fail: "names", "lock", "map", "pool"

\* whole: the input buffer holds a PHYSICAL_ADDRESS_ACCESS_REQUEST;
\* out: the length of the output buffer, which WRITE reads its data from.
RequestShape ==
  [code : {"READ", "WRITE", "OTHER"}, whole : BOOLEAN, address : Nat,
   accessCount : Nat, out : Nat]

(***************************************************************************)
(* "names": IoCreateDevice or IoCreateSymbolicLink fails; "lock": the data *)
(* buffer of a WRITE cannot be mapped; "map": the section cannot be opened *)
(* or viewed; "pool": the memory of a deleted device object is reused      *)
(* before DriverUnload reads it.  A WRITE has an output buffer, as the     *)
(* SDK's have: without one Irp->MdlAddress is NULL.                        *)
(***************************************************************************)
ASSUME DriverAssumption ==
  /\ PAGE_SIZE \in Nat \ {0}
  /\ Requests \subseteq RequestShape
  /\ \A q \in Requests :
       /\ q.code = "WRITE" => q.out > 0
       /\ q.address..(q.address + PAGE_SIZE - 1) \subseteq Memory
  /\ Faults \subseteq {"names", "lock", "map", "pool"}

VARIABLES
  mem,      \* the byte at every address
  irp,      \* per thread: its request in progress, or its last one
  handles,  \* the threads that have the device open
  driver,   \* the stage of the driver's life
  device,   \* \Device\PhysicalAddressAccess exists
  link      \* the symbolic link that CreateFile opens exists

life == <<driver, device, link>>
vars == <<mem, irp, handles, driver, device, link>>

\* What a byte holds: who stored it, and from where in his buffer.
Sent(t, i) == <<t, i>>
FIRMWARE   == <<"firmware", 0>>
Data       == {FIRMWARE} \cup {Sent(t, i) : t \in Threads, i \in 0..PAGE_SIZE - 1}

Stages   == {"unloaded", "created", "loaded", "stopping", "unlinked", "deleted", "crashed"}
Statuses == {"PENDING", "SUCCESS", "ABANDONED", "UNSUCCESSFUL", "INVALID_PARAMETER",
             "INSUFFICIENT_RESOURCES", "INVALID_DEVICE_REQUEST"}

\* The I/O manager's NT_SUCCESS, which DeviceIoControl returns: STATUS_ABANDONED
\* (0x80) is a success code.
NT_SUCCESS(status) == status \in {"SUCCESS", "ABANDONED"}
May(fault)         == {TRUE} \cup (IF fault \in Faults THEN {FALSE} ELSE {})
-----------------------------------------------------------------------------
(***************************************************************************)
(* One request: its stages, and what is computed from it.                  *)
(***************************************************************************)
NoRequest == [code |-> "OTHER", whole |-> FALSE, address |-> 0, accessCount |-> 0, out |-> 0]

Received(q) ==
  [pc |-> "section", req |-> q, moved |-> 0, got |-> <<>>, status |-> "PENDING", info |-> 0]

OperationByteCount(q) == IF q.accessCount < q.out THEN q.accessCount ELSE q.out

\* Mutant: the view is one page long.
ViewLength_OnePage == PAGE_SIZE

ViewLength == PAGE_SIZE * 2

\* The memory manager rounds the address of a view down to a page.
ViewBase(q) == q.address - (q.address % PAGE_SIZE)

\* Mutant: the offset in the page is not added to the base of the view.
MemoryOffset_None(q) == 0

MemoryOffset(q) == q.address % PAGE_SIZE

\* The physical address behind the next byte of the view that memcpy touches.
Cursor(r) == ViewBase(r.req) + MemoryOffset(r.req) + r.moved

\* Mutant: Information is set whenever NT_SUCCESS(ntStatus).
Completed_AnySuccess(r, status) ==
  [r EXCEPT !.pc = "none", !.status = status,
            !.info = IF NT_SUCCESS(status) THEN OperationByteCount(r.req) ELSE 0]

Completed(r, status) ==
  [r EXCEPT !.pc = "none", !.status = status,
            !.info = IF status = "SUCCESS" THEN OperationByteCount(r.req) ELSE 0]

\* Mutant: what fits into the view is let through.
Checked_WholeView(r) ==
  IF OperationByteCount(r.req) > ViewLength \/ OperationByteCount(r.req) = 0
  THEN Completed(r, "ABANDONED") ELSE r

\* PhysicalAddressRead and PhysicalAddressWrite look at the count first.
Checked(r) ==
  IF OperationByteCount(r.req) > PAGE_SIZE \/ OperationByteCount(r.req) = 0
  THEN Completed(r, "ABANDONED") ELSE r

\* Mutant: a WRITE whose buffer is not mapped returns without completing.
Dispatched_NotCompleted(r, locked) ==
  CASE r.req.code = "OTHER" -> Completed(r, "INVALID_DEVICE_REQUEST")
    [] r.req.code # "OTHER" /\ ~r.req.whole -> Completed(r, "INVALID_PARAMETER")
    [] r.req.code = "WRITE" /\ r.req.whole /\ ~locked -> [r EXCEPT !.pc = "lost"]
    [] OTHER -> Checked(r)

Dispatched(r, locked) ==
  CASE r.req.code = "OTHER" -> Completed(r, "INVALID_DEVICE_REQUEST")
    [] r.req.code # "OTHER" /\ ~r.req.whole -> Completed(r, "INVALID_PARAMETER")
    [] r.req.code = "WRITE" /\ r.req.whole /\ ~locked ->
         Completed(r, "INSUFFICIENT_RESOURCES")
    [] OTHER -> Checked(r)

Init ==
  /\ mem = [a \in Memory |-> FIRMWARE]
  /\ irp = [t \in Threads |-> [Received(NoRequest) EXCEPT !.pc = "none"]]
  /\ handles = {}
  /\ driver = "unloaded" /\ device = FALSE /\ link = FALSE
-----------------------------------------------------------------------------
(***************************************************************************)
(* The requests.  DriverUnload never runs while a handle is open.          *)
(***************************************************************************)
Step(t, r) == irp' = [irp EXCEPT ![t] = r]

DispatchDeviceControl(t) ==
  /\ t \in handles /\ irp[t].pc = "none"
  /\ \E q \in Requests, locked \in May("lock") : Step(t, Dispatched(Received(q), locked))
  /\ UNCHANGED <<mem, handles, life>>

OpenSection(t) ==
  /\ irp[t].pc = "section"
  /\ \E ok \in May("map") :
       Step(t, IF ok THEN [irp[t] EXCEPT !.pc = "map"] ELSE Completed(irp[t], "UNSUCCESSFUL"))
  /\ UNCHANGED <<mem, handles, life>>

\* Mutant: the result of ZwMapViewOfSection is not kept.
MapView_ResultLost(t) ==
  /\ irp[t].pc = "map"
  /\ \E ok \in May("map") :
       Step(t, IF ok THEN [irp[t] EXCEPT !.pc = "copy"] ELSE Completed(irp[t], "SUCCESS"))
  /\ UNCHANGED <<mem, handles, life>>

MapView(t) ==
  /\ irp[t].pc = "map"
  /\ \E ok \in May("map") :
       Step(t, IF ok THEN [irp[t] EXCEPT !.pc = "copy"] ELSE Completed(irp[t], "UNSUCCESSFUL"))
  /\ UNCHANGED <<mem, handles, life>>

Copying(t) == irp[t].pc = "copy" /\ irp[t].moved < OperationByteCount(irp[t].req)

\* memcpy from the view, into the buffer that held the request.
PhysicalAddressRead(t) ==
  /\ Copying(t) /\ irp[t].req.code = "READ"
  /\ Step(t, [irp[t] EXCEPT !.moved = @ + 1, !.got = Append(@, mem[Cursor(irp[t])])])
  /\ UNCHANGED <<mem, handles, life>>

\* memcpy from the caller's locked buffer into the view.
PhysicalAddressWrite(t) ==
  /\ Copying(t) /\ irp[t].req.code = "WRITE"
  /\ mem' = [mem EXCEPT ![Cursor(irp[t])] = Sent(t, irp[t].moved)]
  /\ Step(t, [irp[t] EXCEPT !.moved = @ + 1])
  /\ UNCHANGED <<handles, life>>

\* The view is unmapped, the section closed and the request completed.
CompleteRequest(t) ==
  /\ irp[t].pc = "copy" /\ ~Copying(t)
  /\ Step(t, Completed(irp[t], "SUCCESS"))
  /\ UNCHANGED <<mem, handles, life>>

Serve(t) ==
  \/ OpenSection(t) \/ MapView(t) \/ CompleteRequest(t)
  \/ PhysicalAddressRead(t) \/ PhysicalAddressWrite(t)

\* CreateFile finds the device by its link; DispatchCreate lets everybody in.
DispatchCreate(t) ==
  /\ link /\ device /\ driver = "loaded"
  /\ t \notin handles
  /\ handles' = handles \cup {t}
  /\ UNCHANGED <<mem, irp, life>>

DispatchClose(t) ==
  /\ t \in handles /\ irp[t].pc = "none"
  /\ handles' = handles \ {t}
  /\ UNCHANGED <<mem, irp, life>>
-----------------------------------------------------------------------------
(***************************************************************************)
(* The life of the driver.                                                 *)
(***************************************************************************)
\* IoCreateDevice; when it fails nothing has happened.
DriverEntry ==
  /\ driver = "unloaded" /\ ~device
  /\ driver' = "created" /\ device' = TRUE
  /\ UNCHANGED <<mem, irp, handles, link>>

\* Mutant: the device stays when its link cannot be created.
CreateLink_KeepsDevice ==
  /\ driver = "created"
  /\ \E ok \in May("names") :
       IF ok /\ ~link THEN driver' = "loaded" /\ link' = TRUE
                      ELSE driver' = "unloaded" /\ link' = link
  /\ UNCHANGED <<mem, irp, handles, device>>

\* Without the link there is no device: DriverEntry deletes it and fails.
CreateLink ==
  /\ driver = "created"
  /\ \E ok \in May("names") :
       IF ok /\ ~link THEN driver' = "loaded" /\ link' = TRUE /\ device' = device
                      ELSE driver' = "unloaded" /\ link' = link /\ device' = FALSE
  /\ UNCHANGED <<mem, irp, handles>>

\* The I/O manager is told to unload the driver: it lets nobody in from now on.
StopDriver ==
  /\ driver = "loaded"
  /\ driver' = "stopping"
  /\ UNCHANGED <<mem, irp, handles, device, link>>

\* DriverUnload, when the last handle is closed.
UnloadLink ==
  /\ driver = "stopping" /\ handles = {}
  /\ driver' = "unlinked" /\ link' = FALSE
  /\ UNCHANGED <<mem, irp, handles, device>>

UnloadDevice ==
  /\ driver = "unlinked"
  /\ driver' = "deleted" /\ device' = FALSE
  /\ UNCHANGED <<mem, irp, handles, link>>

\* NextDevice is read from the device that was deleted.  What is there now is
\* NULL, or what the next owner of the memory left, whose DeviceExtension is
\* no device extension.
UnloadNext ==
  /\ driver = "deleted"
  /\ \E kept \in May("pool") : driver' = IF kept THEN "unloaded" ELSE "crashed"
  /\ UNCHANGED <<mem, irp, handles, device, link>>

Reboot ==
  /\ driver = "crashed"
  /\ driver' = "unloaded"
  /\ UNCHANGED <<mem, irp, handles, device, link>>

\* The EC's side of the memory.
Firmware ==
  /\ \E a \in Memory : mem' = [mem EXCEPT ![a] = FIRMWARE]
  /\ UNCHANGED <<irp, handles, life>>

Unload == UnloadLink \/ UnloadDevice \/ UnloadNext

Next ==
  \/ \E t \in Threads :
       DispatchCreate(t) \/ DispatchDeviceControl(t) \/ Serve(t) \/ DispatchClose(t)
  \/ DriverEntry \/ CreateLink \/ StopDriver \/ Unload \/ Reboot
  \/ Firmware

Spec == Init /\ [][Next]_vars

(***************************************************************************)
(* The kernel goes on with a request and with an unload; a thread of the   *)
(* SDK closes the device in the end, at the end of every call of EcLog.    *)
(***************************************************************************)
FairSpec ==
  /\ Spec /\ WF_vars(Unload)
  /\ \A t \in Threads : WF_vars(Serve(t)) /\ SF_vars(DispatchClose(t))
-----------------------------------------------------------------------------
Irp ==
  [pc : {"none", "section", "map", "copy"}, req : RequestShape, moved : 0..PAGE_SIZE,
   got : Seq(Data), status : Statuses, info : 0..PAGE_SIZE]

TypeOK ==
  /\ mem \in [Memory -> Data]
  /\ irp \in [Threads -> Irp]
  /\ handles \in SUBSET Threads
  /\ driver \in Stages
  /\ device \in BOOLEAN /\ link \in BOOLEAN

\* Every byte that a copy has yet to touch lies inside its view, wherever in a
\* page the address is (lines 92, 94 and 126 together).
CopyInsideView ==
  \A t \in Threads : irp[t].pc = "copy" =>
    MemoryOffset(irp[t].req) + OperationByteCount(irp[t].req) <= ViewLength

\* What an answer says: Information is the number of bytes moved, and when
\* DeviceIoControl returns TRUE all the bytes that were asked for and for which
\* there is room have been moved, or, when these are none or more than a page,
\* not one (STATUS_ABANDONED, lines 95 and 167, is answered TRUE as well).
TrueMeansMoved ==
  \A t \in Threads : irp[t].pc = "none" =>
    LET count == OperationByteCount(irp[t].req) IN
    /\ irp[t].info = irp[t].moved
    /\ NT_SUCCESS(irp[t].status) =>
         irp[t].moved = IF count \in 1..PAGE_SIZE THEN count ELSE 0

\* There is no link without its device, and a driver that is not loaded has
\* left neither behind: it can be loaded again.
NamesFollowDriver ==
  /\ link => device
  /\ driver = "unloaded" => ~device

\* For its callers the driver is PhysicalMemory.
Access(q) == [kind |-> q.code, address |-> q.address, count |-> OperationByteCount(q)]
Seen(r) ==
  [stage |-> IF r.pc = "none" THEN "over" ELSE "busy", access |-> Access(r.req), moved |-> r.moved,
   got |-> r.got, told |-> r.info]
Physical == INSTANCE PhysicalMemory WITH
  Accesses <- {Access(q) : q \in Requests},
  acc <- [t \in Threads |-> Seen(irp[t])]
AccessImplemented == Physical!Spec

\* Every request is completed.
RequestCompletes == \A t \in Threads : irp[t].pc # "none" ~> irp[t].pc = "none"

\* A driver that is told to stop is unloaded in the end, whoever has it open, or
\* its unload has brought the machine down.
StopCompletes == driver = "stopping" ~> driver \in {"unloaded", "crashed"}
=============================================================================

--------------------------- MODULE PhysicalMemory ---------------------------
(***************************************************************************)
(* What the driver promises a thread that reads or writes physical memory, *)
(* with no device, no request codes, no pages and no views: an access      *)
(* moves the bytes at address, address + 1, ... one by one and reports how *)
(* many it moved, which is all of them, or none.  It is not atomic: other  *)
(* threads and the firmware may use the memory between two bytes.          *)
(***************************************************************************)
EXTENDS Integers, Sequences

CONSTANTS
  Threads,
  Memory,    \* the physical addresses
  Data,      \* what a byte may hold
  Accesses,  \* what may be asked for: [kind, address, count]
  Sent(_, _) \* the byte that a thread writes at an index of its buffer

VARIABLES
  mem,  \* the byte at every address
  acc   \* per thread: its access in progress, or its last one

vars == <<mem, acc>>

Start(a) == [stage |-> "busy", access |-> a, moved |-> 0, got |-> <<>>, told |-> 0]
Onward(x, got) ==
  [stage |-> "busy", access |-> x.access, moved |-> x.moved + 1, got |-> got, told |-> 0]
Over(x, told) ==
  [stage |-> "over", access |-> x.access, moved |-> x.moved, got |-> x.got, told |-> told]
NoAccess == [kind |-> "OTHER", address |-> 0, count |-> 0]

Init ==
  /\ mem \in [Memory -> Data]
  /\ acc = [t \in Threads |-> Over(Start(NoAccess), 0)]

Begin(t) ==
  /\ acc[t].stage = "over"
  /\ \E a \in Accesses : acc' = [acc EXCEPT ![t] = Start(a)]
  /\ UNCHANGED mem

Refuse(t) ==
  /\ acc[t].stage = "over"
  /\ \E a \in Accesses : acc' = [acc EXCEPT ![t] = Over(Start(a), 0)]
  /\ UNCHANGED mem

ReadByte(t) ==
  LET x == acc[t] IN
  /\ x.stage = "busy" /\ x.access.kind = "READ" /\ x.moved < x.access.count
  /\ acc' = [acc EXCEPT ![t] = Onward(x, Append(x.got, mem[x.access.address + x.moved]))]
  /\ UNCHANGED mem

WriteByte(t) ==
  LET x == acc[t] IN
  /\ x.stage = "busy" /\ x.access.kind = "WRITE" /\ x.moved < x.access.count
  /\ mem' = [mem EXCEPT ![x.access.address + x.moved] = Sent(t, x.moved)]
  /\ acc' = [acc EXCEPT ![t] = Onward(x, x.got)]

\* The access ends: with all bytes moved, or with none.
End(t) ==
  /\ acc[t].stage = "busy"
  /\ acc[t].moved \in {0, acc[t].access.count}
  /\ acc' = [acc EXCEPT ![t] = Over(acc[t], acc[t].moved)]
  /\ UNCHANGED mem

\* Somebody else stores a byte.
Others ==
  /\ \E a \in Memory, d \in Data : mem' = [mem EXCEPT ![a] = d]
  /\ UNCHANGED acc

Next ==
  \/ \E t \in Threads : Begin(t) \/ Refuse(t) \/ ReadByte(t) \/ WriteByte(t) \/ End(t)
  \/ Others

Spec == Init /\ [][Next]_vars
=============================================================================

------------------------------ MODULE MCDriver ------------------------------
EXTENDS Driver, TLC
CONSTANTS t1, t2

Ask(code, address, accessCount, out) ==
  [code |-> code, whole |-> TRUE, address |-> address, accessCount |-> accessCount, out |-> out]

\* With PAGE_SIZE = 2: copies over the end of a page, one with a buffer that is
\* too short for what it asks, counts that are 0 or more than a page, an unknown
\* code, and half a request.
MixedRequests ==
  {Ask("READ", 1, 2, 2), Ask("WRITE", 1, 3, 2), Ask("READ", 1, 3, 3),
   Ask("READ", 0, 0, 2), Ask("OTHER", 0, 1, 1),
   [Ask("WRITE", 0, 1, 1) EXCEPT !.whole = FALSE]}

FourBytes == 0..3
=============================================================================

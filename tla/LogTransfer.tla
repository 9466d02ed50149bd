---------------------------- MODULE LogTransfer ----------------------------
(***************************************************************************)
(* What GetECLog promises its caller, with no EC, no mailbox and no        *)
(* retries: a call learns how many pages there are, hands them over one by *)
(* one in order, and reports success only when all are there.  It may give *)
(* up at any time, and then leaves a prefix of the log or nothing; or the  *)
(* process that called dies.                                               *)
(***************************************************************************)
EXTENDS Integers, Sequences

CONSTANT Counts

VARIABLES
  busy,    \* a call is in progress
  total,   \* the pages the EC has recorded, -1 until the call knows
  got,     \* the pages in the caller's vector
  status   \* the result of the call

vars == <<busy, total, got, status>>

Init == busy = FALSE /\ total = -1 /\ got = <<>> /\ status = "EC_FAILED"

Begin ==
  /\ ~busy
  /\ \/ busy' = TRUE /\ status' = "EC_FAILED"
     \/ busy' = FALSE /\ status' = "EC_CREATE_FILE_FAILED"
  /\ total' = -1
  /\ got' = <<>>

Learn ==
  /\ busy /\ total = -1
  /\ total' \in Counts
  /\ UNCHANGED <<busy, got, status>>

Take ==
  /\ busy /\ Len(got) < total
  /\ got' = Append(got, Len(got) + 1)
  /\ UNCHANGED <<busy, total, status>>

Succeed ==
  /\ busy /\ total \in 1..16 /\ Len(got) = total
  /\ status' = "EC_SUCCESS"
  /\ busy' = FALSE
  /\ UNCHANGED <<total, got>>

Decline ==
  /\ busy /\ total \in Counts /\ total \notin 4..16 /\ got = <<>>
  /\ status' = "EC_NEED_NOT_READ"
  /\ busy' = FALSE
  /\ UNCHANGED <<total, got>>

GiveUp ==
  /\ busy
  /\ busy' = FALSE
  /\ got' \in {got, <<>>}
  /\ UNCHANGED <<total, status>>

Die ==
  /\ busy
  /\ busy' = FALSE /\ total' = -1 /\ got' = <<>> /\ status' = "EC_FAILED"

Next == Begin \/ Learn \/ Take \/ Succeed \/ Decline \/ GiveUp \/ Die

Spec == Init /\ [][Next]_vars
=============================================================================

---------------------------- MODULE QueryService ----------------------------
(***************************************************************************)
(* What CAsyncSQL (source/server/libsql) promises its caller: statements   *)
(* are answered one at a time in the order they were submitted, the        *)
(* answers that were asked for (bReturn) are collected in the same order,  *)
(* and the service closes only when nothing is left unanswered - unless    *)
(* its connection was never established, in which case nothing is ever     *)
(* answered.                                                               *)
(***************************************************************************)
EXTENDS Naturals, Sequences

CONSTANT Query        \* the statements; a record with a BOOLEAN field bReturn

VARIABLES
    pending,          \* submitted, not answered yet, oldest first
    replies,          \* answered with bReturn, not collected yet
    status,           \* "new", "serving" or "dead"
    closed            \* the caller's Quit() has returned

sqvars == <<pending, replies, status, closed>>

Init == /\ pending = <<>>
        /\ replies = <<>>
        /\ status = "new"
        /\ closed = FALSE

Connected == /\ status = "new"
             /\ status' = "serving"
             /\ UNCHANGED <<pending, replies, closed>>

Unreachable == /\ status = "new"
               /\ status' = "dead"
               /\ UNCHANGED <<pending, replies, closed>>

Submit == /\ ~closed
          /\ \E q \in Query : pending' = Append(pending, q)
          /\ UNCHANGED <<replies, status, closed>>

Answer == /\ status = "serving"
          /\ pending # <<>>
          /\ pending' = Tail(pending)
          /\ replies' = IF Head(pending).bReturn
                          THEN Append(replies, Head(pending)) ELSE replies
          /\ UNCHANGED <<status, closed>>

Collect == /\ replies # <<>>
           /\ replies' = Tail(replies)
           /\ UNCHANGED <<pending, status, closed>>

Close == /\ ~closed
         /\ \/ status = "serving" /\ pending = <<>>
            \/ status = "dead"
         /\ closed' = TRUE
         /\ UNCHANGED <<pending, replies, status>>

Next == Connected \/ Unreachable \/ Submit \/ Answer \/ Collect \/ Close

Spec == Init /\ [][Next]_sqvars

=============================================================================

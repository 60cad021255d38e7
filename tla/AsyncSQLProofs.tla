--------------------------- MODULE AsyncSQLProofs ---------------------------
(***************************************************************************)
(* Theorems about AsyncSQL for every number of statements, every number of *)
(* failures and every capacity of the semaphore.                           *)
(***************************************************************************)
EXTENDS AsyncSQL, SequenceTheorems, TLAPS

(* Moving the head of t to the end of s leaves s \o t unchanged.           *)
LEMMA MoveHead ==
    ASSUME NEW S, NEW s \in Seq(S), NEW t \in Seq(S), t # <<>>
    PROVE  Append(s, Head(t)) \o Tail(t) = s \o t
<1>1. Head(t) \in S /\ Tail(t) \in Seq(S) /\ Len(Tail(t)) = Len(t) - 1
  BY HeadTailProperties
<1>2. \A i \in 1..Len(Tail(t)) : Tail(t)[i] = t[i + 1]
  BY HeadTailProperties
<1>3. /\ Append(s, Head(t)) \in Seq(S)
      /\ Len(Append(s, Head(t))) = Len(s) + 1
      /\ \A i \in 1..Len(s) : Append(s, Head(t))[i] = s[i]
      /\ Append(s, Head(t))[Len(s) + 1] = Head(t)
  BY <1>1, AppendProperties
<1>4. Len(t) \in Nat \ {0} /\ Len(s) \in Nat /\ Head(t) = t[1]
  BY EmptySeq, LenProperties
<1> DEFINE l == Append(s, Head(t)) \o Tail(t)
           r == s \o t
<1>5. l \in Seq(S) /\ Len(l) = Len(s) + Len(t)
  BY <1>1, <1>3, <1>4, ConcatProperties
<1>6. r \in Seq(S) /\ Len(r) = Len(s) + Len(t)
  BY ConcatProperties
<1>7. ASSUME NEW i \in 1..Len(l) PROVE l[i] = r[i]
  <2>1. r[i] = IF i <= Len(s) THEN s[i] ELSE t[i - Len(s)]
    BY <1>5, ConcatProperties
  <2>2. l[i] = IF i <= Len(s) + 1 THEN Append(s, Head(t))[i]
                                  ELSE Tail(t)[i - (Len(s) + 1)]
    BY <1>1, <1>3, <1>4, <1>5, ConcatProperties
  <2>3. CASE i <= Len(s)
    <3>1. i \in 1..Len(s)  BY <2>3, <1>4, <1>5
    <3> QED  BY <2>1, <2>2, <2>3, <3>1, <1>3, <1>4
  <2>4. CASE i = Len(s) + 1
    BY <2>1, <2>2, <2>4, <1>3, <1>4
  <2>5. CASE i > Len(s) + 1
    <3>1. i - (Len(s) + 1) \in 1..Len(Tail(t))
      BY <2>5, <1>1, <1>4, <1>5
    <3>2. (i - (Len(s) + 1)) + 1 = i - Len(s)
      BY <1>4, <1>5
    <3> QED  BY <2>1, <2>2, <2>5, <3>1, <3>2, <1>2, <1>4
  <2> QED  BY <2>3, <2>4, <2>5, <1>4, <1>5
<1> HIDE DEF l, r
<1>8. l = r
  BY <1>5, <1>6, <1>7, SeqEqual
<1> QED  BY <1>8 DEF l, r

(* The head and the tail of a concatenation come from its first part.      *)
LEMMA HeadTailConcat ==
    ASSUME NEW S, NEW s \in Seq(S), NEW t \in Seq(S), s # <<>>
    PROVE  /\ s \o t # <<>>
           /\ Head(s \o t) = Head(s)
           /\ Tail(s \o t) = Tail(s) \o t
<1>1. /\ Head(s) \in S /\ Tail(s) \in Seq(S)
      /\ Len(Tail(s)) = Len(s) - 1
      /\ \A i \in 1..Len(Tail(s)) : Tail(s)[i] = s[i + 1]
  BY HeadTailProperties
<1>2. Len(s) \in Nat \ {0} /\ Len(t) \in Nat
  BY EmptySeq, LenProperties
<1>3. /\ s \o t \in Seq(S) /\ Len(s \o t) = Len(s) + Len(t)
      /\ \A i \in 1..Len(s) + Len(t) :
            (s \o t)[i] = IF i <= Len(s) THEN s[i] ELSE t[i - Len(s)]
  BY ConcatProperties
<1>4. s \o t # <<>>
  BY <1>2, <1>3, EmptySeq
<1>5. Head(s \o t) = Head(s)
  BY <1>2, <1>3, <1>4
<1> DEFINE l == Tail(s \o t)
           r == Tail(s) \o t
<1>6. /\ l \in Seq(S) /\ Len(l) = Len(s) + Len(t) - 1
      /\ \A i \in 1..Len(l) : l[i] = (s \o t)[i + 1]
  BY <1>3, <1>4, HeadTailProperties
<1>7. /\ r \in Seq(S) /\ Len(r) = Len(s) + Len(t) - 1
      /\ \A i \in 1..Len(s) - 1 + Len(t) :
            r[i] = IF i <= Len(s) - 1 THEN Tail(s)[i] ELSE t[i - (Len(s) - 1)]
  BY <1>1, <1>2, ConcatProperties
<1>8. ASSUME NEW i \in 1..Len(l) PROVE l[i] = r[i]
  <2>1. i \in 1..Len(s) - 1 + Len(t) /\ i + 1 \in 1..Len(s) + Len(t)
    BY <1>2, <1>6
  <2>2. l[i] = IF i + 1 <= Len(s) THEN s[i + 1] ELSE t[i + 1 - Len(s)]
    BY <1>3, <1>6, <2>1
  <2>3. r[i] = IF i <= Len(s) - 1 THEN Tail(s)[i] ELSE t[i - (Len(s) - 1)]
    BY <1>7, <2>1
  <2>4. CASE i <= Len(s) - 1
    <3>1. i \in 1..Len(Tail(s))  BY <2>4, <1>1, <1>2, <2>1
    <3> QED  BY <3>1, <2>2, <2>3, <2>4, <1>1, <1>2, <2>1
  <2>5. CASE ~(i <= Len(s) - 1)
    <3>1. i + 1 - Len(s) = i - (Len(s) - 1)  BY <1>2, <2>1
    <3> QED  BY <3>1, <2>2, <2>3, <2>5, <1>2, <2>1
  <2> QED  BY <2>4, <2>5
<1> HIDE DEF l, r
<1>9. l = r
  BY <1>6, <1>7, <1>8, SeqEqual
<1> QED  BY <1>4, <1>5, <1>9 DEF l, r
-----------------------------------------------------------------------------
(* Type correctness.                                                       *)

(* The worker executes or publishes exactly when its local queue holds a   *)
(* statement.                                                              *)
BatchInv == worker \in {"exec", "publish"} <=> batch # <<>>

TInv == TypeOK /\ BatchInv

LEMMA TInvInit == Init => TInv
<1> USE AsyncSQLAssumption
<1> SUFFICES ASSUME Init PROVE TInv  OBVIOUS
<1>1. <<>> \in Seq(Msg) /\ <<>> \in Seq(Id)  BY EmptySeq
<1>2. m_sem \in 0..SemMax /\ m_iMsgCount \in 0..MaxQueries /\ faults \in 0..MaxFaults
  BY DEF Init, AsyncSQLAssumption
<1>3. TypeOK
  BY <1>1, <1>2 DEF Init, TypeOK, WorkerPc, MainPc
<1>4. BatchInv
  BY DEF Init, BatchInv
<1> QED  BY <1>3, <1>4 DEF TInv

LEMMA TInvStep == TInv /\ [Next]_vars => TInv'
<1> USE AsyncSQLAssumption DEF TInv, TypeOK, BatchInv, WorkerPc, MainPc
<1> SUFFICES ASSUME TInv, [Next]_vars PROVE TInv'  OBVIOUS
<1>0. batch # <<>> => /\ Head(batch) \in Msg /\ Tail(batch) \in Seq(Msg)
                      /\ Head(batch).id \in Id
  <2> SUFFICES ASSUME batch # <<>>
               PROVE  Head(batch) \in Msg /\ Tail(batch) \in Seq(Msg)
    BY DEF Msg
  <2> QED  BY HeadTailProperties
<1>1. ASSUME NEW b \in BOOLEAN, PushQuery(b) PROVE TInv'
  <2>1. [id |-> m_iMsgCount + 1, bReturn |-> b] \in Msg
    BY <1>1 DEF PushQuery, Msg, Id
  <2>2. m_queue_query' \in Seq(Msg)
    BY <1>1, <2>1, AppendProperties DEF PushQuery
  <2> QED  BY <1>1, <2>2 DEF PushQuery, history
<1>2. CASE PushRelease
  BY <1>2 DEF PushRelease, SemRelease, queues, history
<1>3. CASE PopResult
  <2>1. Head(m_queue_result) \in Msg /\ Tail(m_queue_result) \in Seq(Msg)
    BY <1>3, HeadTailProperties DEF PopResult
  <2> QED  BY <1>3, <2>1 DEF PopResult
<1>4. CASE QuitSetEnd
  BY <1>4 DEF QuitSetEnd, queues, history
<1>5. CASE QuitRelease
  BY <1>5 DEF QuitRelease, SemRelease, queues, history
<1>6. CASE QuitJoin
  BY <1>6 DEF QuitJoin, queues, history
<1>7. CASE CountReachesZero
  BY <1>7 DEF CountReachesZero, queues, history
<1>8. CASE WorkerConnect
  BY <1>8 DEF WorkerConnect, queues, history
<1>9. CASE WorkerTest
  BY <1>9 DEF WorkerTest, queues, history
<1>10. CASE WorkerWait
  BY <1>10 DEF WorkerWait, queues, history
<1>11. CASE PopPendingQueries
  <2>1. <<>> \in Seq(Msg)  BY EmptySeq
  <2> QED  BY <1>11, <2>1 DEF PopPendingQueries, AfterLoop, history
<1>12. CASE ExecSucceeds
  <2>1. applied' \in Seq(Id)
    BY <1>0, <1>12, AppendProperties DEF ExecSucceeds
  <2> QED  BY <1>12, <2>1 DEF ExecSucceeds, queues
<1>13. CASE ExecFails
  BY <1>0, <1>13 DEF ExecFails, queues, history
<1>14. CASE ExecRetries
  <2>1. applied' \in Seq(Id)
    BY <1>0, <1>14, AppendProperties DEF ExecRetries
  <2>2. faults' \in 0..MaxFaults
    BY <1>14 DEF ExecRetries
  <2> QED  BY <1>0, <1>14, <2>1, <2>2 DEF ExecRetries, queues
<1>15. CASE Publish
  <2>1. batch' \in Seq(Msg)
    BY <1>0, <1>15 DEF Publish
  <2>2. finished' \in Seq(Msg)
    BY <1>0, <1>15, AppendProperties DEF Publish
  <2>3. m_queue_result' \in Seq(Msg)
    BY <1>0, <1>15, AppendProperties DEF Publish
  <2> QED  BY <1>15, <2>1, <2>2, <2>3 DEF Publish, AfterLoop
<1>16. CASE UNCHANGED vars
  BY <1>16 DEF vars
<1> QED
  BY <1>1, <1>2, <1>3, <1>4, <1>5, <1>6, <1>7, <1>8, <1>9, <1>10, <1>11,
     <1>12, <1>13, <1>14, <1>15, <1>16
     DEF Next, MainStep, Quit, WorkerStep, Exec

(* Every variable of the two threads keeps its type.                       *)
THEOREM TypeCorrect == Spec => []TypeOK
<1>1. TInv => TypeOK  BY DEF TInv
<1> QED  BY TInvInit, TInvStep, <1>1, PTL DEF Spec
-----------------------------------------------------------------------------
(* No lost wake-up.                                                        *)

(* Strengthening: while the worker is in its loop and not about to swap    *)
(* the queues, a queued statement has a token or a pending release; the    *)
(* worker reaches its wait only with m_bEnd unset, so a set m_bEnd there   *)
(* was set after the test and its release is pending or counted.           *)
WakeInv ==
    /\ draining => worker \notin {"connect", "test", "wait"}
    /\ ~draining /\ worker \notin {"pop", "done"} /\ m_queue_query # <<>> =>
          m_sem > 0 \/ main = "release"
    /\ worker = "wait" /\ m_bEnd => m_sem > 0 \/ main = "quitting"

LEMMA WakeInvInit == Init => WakeInv
  BY DEF Init, WakeInv

LEMMA WakeInvStep == TInv /\ WakeInv /\ [Next]_vars => WakeInv'
<1> USE AsyncSQLAssumption DEF WakeInv
<1> SUFFICES ASSUME TInv, WakeInv, [Next]_vars PROVE WakeInv'  OBVIOUS
<1>0. m_sem \in 0..SemMax /\ worker \in WorkerPc /\ main \in MainPc
      /\ m_bEnd \in BOOLEAN /\ draining \in BOOLEAN
  BY DEF TInv, TypeOK
<1>1. ASSUME NEW b \in BOOLEAN, PushQuery(b) PROVE WakeInv'
  BY <1>1 DEF PushQuery, history
<1>2. CASE PushRelease
  BY <1>0, <1>2 DEF PushRelease, SemRelease, queues, history
<1>3. CASE PopResult
  BY <1>3 DEF PopResult
<1>4. CASE QuitSetEnd
  BY <1>4 DEF QuitSetEnd, queues, history
<1>5. CASE QuitRelease
  BY <1>0, <1>5 DEF QuitRelease, SemRelease, queues, history
<1>6. CASE QuitJoin
  BY <1>6 DEF QuitJoin, queues, history
<1>7. CASE CountReachesZero
  BY <1>7 DEF CountReachesZero, queues, history
<1>8. CASE WorkerConnect
  BY <1>8 DEF WorkerConnect, queues, history
<1>9. CASE WorkerTest
  BY <1>9 DEF WorkerTest, queues, history
<1>10. CASE WorkerWait
  BY <1>10 DEF WorkerWait, queues, history
<1>11. CASE PopPendingQueries
  BY <1>0, <1>11 DEF PopPendingQueries, AfterLoop, history, WorkerPc
<1>12. CASE ExecSucceeds
  BY <1>12 DEF ExecSucceeds, queues
<1>13. CASE ExecFails
  BY <1>13 DEF ExecFails, queues, history
<1>14. CASE ExecRetries
  BY <1>14 DEF ExecRetries, queues
<1>15. CASE Publish
  BY <1>0, <1>15 DEF Publish, AfterLoop
<1>16. CASE UNCHANGED vars
  BY <1>16 DEF vars
<1> QED
  BY <1>1, <1>2, <1>3, <1>4, <1>5, <1>6, <1>7, <1>8, <1>9, <1>10, <1>11,
     <1>12, <1>13, <1>14, <1>15, <1>16
     DEF Next, MainStep, Quit, WorkerStep, Exec

(* The worker never sleeps over queued work or over a Quit(), whatever the *)
(* capacity of the semaphore: a release ignored at the maximum is harmless *)
(* because the count is then positive.                                     *)
THEOREM WakeupNeverLost == Spec => []NoLostWakeup
<1>1. WakeInv => NoLostWakeup
  BY DEF WakeInv, NoLostWakeup
<1> QED
  BY TInvInit, TInvStep, WakeInvInit, WakeInvStep, <1>1, PTL DEF Spec
-----------------------------------------------------------------------------
(* First in, first out, nothing lost.                                      *)

All == finished \o batch \o m_queue_query

LEMMA FifoInit == Init => FifoConservation
<1> SUFFICES ASSUME Init PROVE FifoConservation  OBVIOUS
<1>1. <<>> \in Seq(Msg) /\ Len(<<>>) = 0  BY EmptySeq
<1>2. All = <<>>
  BY <1>1, ConcatEmptySeq DEF Init, All
<1> QED  BY <1>1, <1>2 DEF Init, FifoConservation, All

LEMMA FifoStep == TInv /\ FifoConservation /\ [Next]_vars => FifoConservation'
<1> SUFFICES ASSUME TInv, FifoConservation, [Next]_vars
             PROVE  FifoConservation'
  OBVIOUS
<1>0. /\ finished \in Seq(Msg) /\ batch \in Seq(Msg)
      /\ m_queue_query \in Seq(Msg) /\ m_iMsgCount \in Nat
      /\ BatchInv
  BY AsyncSQLAssumption DEF TInv, TypeOK
<1>a. All \in Seq(Msg) /\ finished \o batch \in Seq(Msg)
  BY <1>0, ConcatProperties DEF All
<1>b. ASSUME All' = All, m_iMsgCount' = m_iMsgCount
      PROVE  FifoConservation'
  BY <1>b DEF FifoConservation, All
<1>1. ASSUME NEW b \in BOOLEAN, PushQuery(b) PROVE FifoConservation'
  <2> DEFINE m == [id |-> m_iMsgCount + 1, bReturn |-> b]
  <2>1. m \in Msg /\ m.id = m_iMsgCount + 1
    BY <1>0, <1>1, AsyncSQLAssumption DEF PushQuery, Msg, Id
  <2> HIDE DEF m
  <2>2. m_queue_query' = Append(m_queue_query, m) /\ m_iMsgCount' = m_iMsgCount + 1
        /\ finished' = finished /\ batch' = batch
    BY <1>1 DEF PushQuery, history, m
  <2>3. /\ Append(m_queue_query, m) = m_queue_query \o <<m>>
        /\ Append(All, m) = All \o <<m>>
        /\ <<m>> \in Seq(Msg)
    BY <1>0, <1>a, <2>1, AppendIsConcat
  <2>4. All' = Append(All, m)
    BY <1>0, <1>a, <2>2, <2>3, ConcatAssociative DEF All
  <2>5. /\ Len(Append(All, m)) = Len(All) + 1
        /\ \A i \in 1..Len(All) : Append(All, m)[i] = All[i]
        /\ Append(All, m)[Len(All) + 1] = m
    BY <1>a, <2>1, AppendProperties
  <2>6. Len(All) = m_iMsgCount /\ \A i \in 1..Len(All) : All[i].id = i
    BY DEF FifoConservation, All
  <2>7. Len(All') = m_iMsgCount' /\ \A i \in 1..Len(All') : All'[i].id = i
    BY <1>0, <2>1, <2>2, <2>4, <2>5, <2>6
  <2> QED  BY <2>7 DEF FifoConservation, All
<1>2. CASE PopPendingQueries
  <2>1. batch = <<>>
    BY <1>0, <1>2 DEF PopPendingQueries, BatchInv
  <2>2. All = finished \o m_queue_query
    BY <1>0, <2>1, ConcatEmptySeq DEF All
  <2>3. All' = (finished \o m_queue_query) \o <<>>
    BY <1>2 DEF PopPendingQueries, history, All
  <2>4. All' = All
    BY <1>0, <1>a, <2>2, <2>3, ConcatEmptySeq
  <2> QED  BY <1>b, <1>2, <2>4 DEF PopPendingQueries
<1>3. CASE Publish
  <2>1. batch # <<>>
    BY <1>0, <1>3 DEF Publish, BatchInv
  <2>2. Append(finished, Head(batch)) \o Tail(batch) = finished \o batch
    BY <1>0, <2>1, MoveHead
  <2>3. All' = All
    BY <1>3, <2>2 DEF Publish, All
  <2> QED  BY <1>b, <1>3, <2>3 DEF Publish
<1>4. ASSUME UNCHANGED <<finished, batch, m_queue_query, m_iMsgCount>>
      PROVE  FifoConservation'
  BY <1>4 DEF FifoConservation
<1>5. \/ \E b \in BOOLEAN : PushQuery(b)
      \/ PopPendingQueries
      \/ Publish
      \/ UNCHANGED <<finished, batch, m_queue_query, m_iMsgCount>>
  BY DEF Next, MainStep, Quit, WorkerStep, Exec, PushRelease, PopResult,
         QuitSetEnd, QuitRelease, QuitJoin, CountReachesZero, WorkerConnect,
         WorkerTest, WorkerWait, ExecSucceeds, ExecFails, ExecRetries,
         queues, history, vars
<1> QED  BY <1>1, <1>2, <1>3, <1>4, <1>5

(* Statements are neither lost nor duplicated nor overtaken on their way   *)
(* through the two queues.                                                 *)
THEOREM FifoPreserved == Spec => []FifoConservation
  BY TInvInit, TInvStep, FifoInit, FifoStep, PTL DEF Spec
-----------------------------------------------------------------------------
(* Quit() returns with nothing left to do.                                 *)

(* Strengthening: the phases of the two threads.  Once draining, the main  *)
(* thread is past m_bEnd = true and pushes no more, so that the queue      *)
(* stays empty after the last PopPendingQueries.                           *)
QuitInv ==
    /\ m_bEnd <=> main \in {"quitting", "join", "count", "exited"}
    /\ draining => m_bEnd
    /\ draining /\ worker # "pop" => m_queue_query = <<>>
    /\ main \in {"count", "exited"} => worker = "done"
    /\ worker = "connect" => ~m_connected
    /\ worker \notin {"connect", "done"} => m_connected
    /\ worker = "done" /\ m_connected => draining

LEMMA QuitInvInit == Init => QuitInv
  BY DEF Init, QuitInv

LEMMA QuitInvStep == TInv /\ QuitInv /\ [Next]_vars => QuitInv'
<1> USE DEF QuitInv
<1> SUFFICES ASSUME TInv, QuitInv, [Next]_vars PROVE QuitInv'  OBVIOUS
<1>0. /\ worker \in WorkerPc /\ main \in MainPc
      /\ m_bEnd \in BOOLEAN /\ draining \in BOOLEAN /\ m_connected \in BOOLEAN
  BY DEF TInv, TypeOK
<1>1. ASSUME NEW b \in BOOLEAN, PushQuery(b) PROVE QuitInv'
  BY <1>1 DEF PushQuery, history
<1>2. CASE PushRelease
  BY <1>2 DEF PushRelease, queues, history
<1>3. CASE PopResult
  BY <1>3 DEF PopResult
<1>4. CASE QuitSetEnd
  BY <1>4 DEF QuitSetEnd, queues, history
<1>5. CASE QuitRelease
  BY <1>5 DEF QuitRelease, queues, history
<1>6. CASE QuitJoin
  BY <1>6 DEF QuitJoin, queues, history
<1>7. CASE CountReachesZero
  BY <1>7 DEF CountReachesZero, queues, history
<1>8. CASE WorkerConnect
  BY <1>0, <1>8 DEF WorkerConnect, queues, history
<1>9. CASE WorkerTest
  BY <1>0, <1>9 DEF WorkerTest, queues, history
<1>10. CASE WorkerWait
  BY <1>10 DEF WorkerWait, queues, history
<1>11. CASE PopPendingQueries
  BY <1>0, <1>11 DEF PopPendingQueries, AfterLoop, history, WorkerPc
<1>12. CASE ExecSucceeds
  BY <1>12 DEF ExecSucceeds, queues
<1>13. CASE ExecFails
  BY <1>13 DEF ExecFails, queues, history
<1>14. CASE ExecRetries
  BY <1>14 DEF ExecRetries, queues
<1>15. CASE Publish
  BY <1>0, <1>15 DEF Publish, AfterLoop, WorkerPc
<1>16. CASE UNCHANGED vars
  BY <1>16 DEF vars
<1> QED
  BY <1>1, <1>2, <1>3, <1>4, <1>5, <1>6, <1>7, <1>8, <1>9, <1>10, <1>11,
     <1>12, <1>13, <1>14, <1>15, <1>16
     DEF Next, MainStep, Quit, WorkerStep, Exec

(* When Quit() has returned on an established connection, every statement  *)
(* ever submitted has been answered.                                       *)
THEOREM QuitLeavesNothing == Spec => []QuitDrains
<1>1. TInv /\ QuitInv /\ FifoConservation => QuitDrains
  <2> SUFFICES ASSUME TInv, QuitInv, FifoConservation,
                      main \in {"count", "exited"}, m_connected
               PROVE  batch = <<>> /\ Len(finished) = m_iMsgCount
    BY DEF QuitDrains
  <2>1. worker = "done" /\ draining
    BY DEF QuitInv
  <2>2. m_queue_query = <<>> /\ batch = <<>>
    BY <2>1 DEF QuitInv, TInv, BatchInv
  <2>3. finished \in Seq(Msg)
    BY DEF TInv, TypeOK
  <2>4. finished \o batch \o m_queue_query = finished
    BY <2>2, <2>3, ConcatEmptySeq
  <2> QED  BY <2>2, <2>4 DEF FifoConservation
<1> QED
  BY TInvInit, TInvStep, QuitInvInit, QuitInvStep, FifoInit, FifoStep, <1>1,
     PTL DEF Spec
-----------------------------------------------------------------------------
(* The two threads implement the sequential query service.                 *)

LEMMA ServiceInit == Init => Service!Init
<1> SUFFICES ASSUME Init PROVE Service!Init  OBVIOUS
<1>1. batch \o m_queue_query = <<>>
  <2>1. <<>> \in Seq(Msg)  BY EmptySeq
  <2> QED  BY <2>1, ConcatEmptySeq DEF Init
<1> QED  BY <1>1 DEF Init, Service!Init

LEMMA ServiceStep ==
    TInv /\ QuitInv /\ [Next]_vars => [Service!Next]_(Service!sqvars)
<1> SUFFICES ASSUME TInv, QuitInv, [Next]_vars
             PROVE  Service!Next \/ UNCHANGED Service!sqvars
  OBVIOUS
<1> USE DEF Service!sqvars
<1>0. /\ batch \in Seq(Msg) /\ m_queue_query \in Seq(Msg)
      /\ m_queue_result \in Seq(Msg) /\ m_iMsgCount \in Nat
      /\ m_connected \in BOOLEAN
      /\ BatchInv
  BY AsyncSQLAssumption DEF TInv, TypeOK
<1>1. ASSUME NEW b \in BOOLEAN, PushQuery(b) PROVE Service!Submit
  <2> DEFINE m == [id |-> m_iMsgCount + 1, bReturn |-> b]
  <2>1. m \in Msg
    BY <1>0, <1>1, AsyncSQLAssumption DEF PushQuery, Msg, Id
  <2>2. m_queue_query' = Append(m_queue_query, m)
    BY <1>1 DEF PushQuery
  <2> HIDE DEF m
  <2>3. /\ Append(m_queue_query, m) = m_queue_query \o <<m>>
        /\ Append(batch \o m_queue_query, m) = (batch \o m_queue_query) \o <<m>>
        /\ <<m>> \in Seq(Msg)
    BY <1>0, <2>1, AppendIsConcat, ConcatProperties
  <2>4. batch \o Append(m_queue_query, m) = Append(batch \o m_queue_query, m)
    BY <1>0, <2>3, ConcatAssociative
  <2> QED
    BY <1>1, <2>1, <2>2, <2>4 DEF PushQuery, history, Service!Submit
<1>2. ASSUME PopResult PROVE Service!Collect
  BY <1>2 DEF PopResult, Service!Collect
<1>3. ASSUME QuitJoin PROVE Service!Close
  <2>1. batch = <<>> /\ (m_connected => batch \o m_queue_query = <<>>)
    <3>1. batch = <<>>
      BY <1>0, <1>3 DEF QuitJoin, BatchInv
    <3>2. m_connected => m_queue_query = <<>>
      BY <1>3 DEF QuitJoin, QuitInv
    <3> QED  BY <1>0, <3>1, <3>2, ConcatEmptySeq
  <2> QED  BY <1>3, <2>1, <1>0 DEF QuitJoin, queues, history, Service!Close
<1>4. ASSUME WorkerConnect PROVE Service!Connected \/ Service!Unreachable
  <2>1. ASSUME m_connected' PROVE Service!Connected
    BY <1>4, <2>1 DEF WorkerConnect, queues, history, Service!Connected
  <2>2. ASSUME ~m_connected' PROVE Service!Unreachable
    BY <1>4, <2>2 DEF WorkerConnect, queues, history, Service!Unreachable
  <2> QED  BY <2>1, <2>2
<1>5. ASSUME PopPendingQueries PROVE UNCHANGED Service!sqvars
  <2>1. batch = <<>>
    BY <1>0, <1>5 DEF PopPendingQueries, BatchInv
  <2>2. batch' \o m_queue_query' = batch \o m_queue_query
    BY <1>0, <1>5, <2>1, ConcatEmptySeq DEF PopPendingQueries
  <2> QED
    BY <1>5, <2>2 DEF PopPendingQueries, AfterLoop, history
<1>6. ASSUME Publish PROVE Service!Answer
  <2>1. batch # <<>>
    BY <1>0, <1>6 DEF Publish, BatchInv
  <2>2. m_connected /\ worker # "connect"
    BY <1>6 DEF Publish, QuitInv
  <2>3. /\ batch \o m_queue_query # <<>>
        /\ Head(batch \o m_queue_query) = Head(batch)
        /\ Tail(batch \o m_queue_query) = Tail(batch) \o m_queue_query
    BY <1>0, <2>1, HeadTailConcat
  <2>4. worker' # "connect"
    BY <1>6 DEF Publish, AfterLoop
  <2> QED
    BY <1>6, <2>2, <2>3, <2>4 DEF Publish, Service!Answer
<1>7. ASSUME CountReachesZero PROVE UNCHANGED Service!sqvars
  BY <1>7 DEF CountReachesZero, queues, history
<1>8. ASSUME PushRelease \/ QuitSetEnd \/ QuitRelease \/ WorkerTest
             \/ WorkerWait \/ Exec \/ UNCHANGED vars
      PROVE  UNCHANGED Service!sqvars
  BY <1>8 DEF PushRelease, QuitSetEnd, QuitRelease, WorkerTest, WorkerWait,
              Exec, ExecSucceeds, ExecFails, ExecRetries, queues, history, vars
<1> QED
  BY <1>1, <1>2, <1>3, <1>4, <1>5, <1>6, <1>7, <1>8
     DEF Next, MainStep, Quit, WorkerStep, Service!Next

(* Two threads, a swapped queue and a semaphore look to the caller like a  *)
(* server that answers one statement at a time in order and closes only    *)
(* when nothing is pending.                                                *)
THEOREM Refinement == Spec => ImplementsService
  BY TInvInit, TInvStep, QuitInvInit, QuitInvStep, ServiceInit, ServiceStep,
     PTL DEF Spec, ImplementsService, Service!Spec
-----------------------------------------------------------------------------
(* The server executes statements in order.                                *)

Once(s, x) == \E k \in 1..Len(s) : \A l \in 1..Len(s) : s[l] = x <=> l = k

(* The number of the statement the worker is at.                           *)
Current == Len(finished) + 1

(* Strengthening: nothing beyond the current statement has been executed;  *)
(* while it has no error on record it has not been executed before the     *)
(* attempt that succeeds, and once after it.                               *)
OrderInv ==
    /\ \A i, j \in 1..Len(applied) : i < j => applied[i] <= applied[j]
    /\ \A i \in 1..Len(applied) : applied[i] <= Current
    /\ batch = <<>> => \A i \in 1..Len(applied) : applied[i] < Current
    /\ worker = "exec" /\ Current \notin uiSQLErrno =>
          \A i \in 1..Len(applied) : applied[i] < Current
    /\ worker = "publish" /\ Current \notin uiSQLErrno => Once(applied, Current)
    /\ \A n \in 1..Len(finished) : n \notin uiSQLErrno => Once(applied, n)

(* What one more execution, of a number not below the others, does.        *)
LEMMA AppliedAppend ==
    ASSUME NEW s \in Seq(Nat), NEW x \in Nat,
           \A i \in 1..Len(s) : s[i] <= x
    PROVE  /\ Len(Append(s, x)) = Len(s) + 1
           /\ \A i \in 1..Len(s) + 1 : Append(s, x)[i] <= x
           /\ (\A i, j \in 1..Len(s) : i < j => s[i] <= s[j]) =>
                 \A i, j \in 1..Len(s) + 1 : i < j => Append(s, x)[i] <= Append(s, x)[j]
           /\ \A n \in Nat : n # x /\ Once(s, n) => Once(Append(s, x), n)
           /\ (\A i \in 1..Len(s) : s[i] < x) => Once(Append(s, x), x)
<1>1. Len(s) \in Nat /\ \A i \in 1..Len(s) : s[i] \in Nat
  BY LenProperties
<1> DEFINE t == Append(s, x)
<1>2. /\ Len(t) = Len(s) + 1
      /\ \A i \in 1..Len(s) : t[i] = s[i]
      /\ t[Len(s) + 1] = x
  BY AppendProperties
<1> HIDE DEF t
<1>3. \A i \in 1..Len(s) + 1 : t[i] <= x
  BY <1>1, <1>2
<1>4. ASSUME \A i, j \in 1..Len(s) : i < j => s[i] <= s[j]
      PROVE  \A i, j \in 1..Len(s) + 1 : i < j => t[i] <= t[j]
  <2> SUFFICES ASSUME NEW i \in 1..Len(s) + 1, NEW j \in 1..Len(s) + 1, i < j
               PROVE  t[i] <= t[j]
    OBVIOUS
  <2>1. i \in 1..Len(s)
    BY <1>1
  <2>2. CASE j \in 1..Len(s)
    BY <1>2, <1>4, <2>1, <2>2
  <2>3. CASE j = Len(s) + 1
    BY <1>2, <1>3, <2>3
  <2> QED  BY <1>1, <2>2, <2>3
<1>5. ASSUME NEW n \in Nat, n # x, Once(s, n) PROVE Once(t, n)
  <2>1. PICK k \in 1..Len(s) : \A l \in 1..Len(s) : s[l] = n <=> l = k
    BY <1>5 DEF Once
  <2>2. ASSUME NEW l \in 1..Len(s) + 1 PROVE t[l] = n <=> l = k
    <3>1. CASE l \in 1..Len(s)
      BY <1>2, <2>1, <3>1
    <3>2. CASE l = Len(s) + 1
      BY <1>1, <1>2, <1>5, <2>1, <3>2
    <3> QED  BY <1>1, <3>1, <3>2
  <2>3. k \in 1..Len(t)
    BY <1>1, <1>2
  <2> QED  BY <1>2, <2>2, <2>3 DEF Once
<1>6. ASSUME \A i \in 1..Len(s) : s[i] < x PROVE Once(t, x)
  <2>1. ASSUME NEW l \in 1..Len(s) + 1 PROVE t[l] = x <=> l = Len(s) + 1
    <3>1. CASE l \in 1..Len(s)
      BY <1>1, <1>2, <1>6, <3>1
    <3>2. CASE l = Len(s) + 1
      BY <1>2, <3>2
    <3> QED  BY <1>1, <3>1, <3>2
  <2>2. Len(s) + 1 \in 1..Len(t)
    BY <1>1, <1>2
  <2> QED  BY <1>2, <2>1, <2>2 DEF Once
<1> QED  BY <1>2, <1>3, <1>4, <1>5, <1>6 DEF t

(* The worker is at the statement after those it is done with.             *)
LEMMA HeadIsCurrent ==
    ASSUME TInv, FifoConservation
    PROVE  /\ Len(finished) \in Nat /\ finished \in Seq(Msg) /\ applied \in Seq(Nat)
           /\ \A i \in 1..Len(finished) : finished[i].id = i
           /\ batch # <<>> => Head(batch).id = Current
<1>1. /\ finished \in Seq(Msg) /\ batch \in Seq(Msg) /\ m_queue_query \in Seq(Msg)
      /\ applied \in Seq(Id)
  BY DEF TInv, TypeOK
<1>2. Len(finished) \in Nat /\ Len(batch) \in Nat /\ Len(m_queue_query) \in Nat
  BY <1>1, LenProperties
<1>3. finished \o batch \in Seq(Msg) /\ All \in Seq(Msg)
  BY <1>1, ConcatProperties DEF All
<1>4. /\ Len(finished \o batch) = Len(finished) + Len(batch)
      /\ \A i \in 1..Len(finished) + Len(batch) :
            (finished \o batch)[i] = IF i <= Len(finished) THEN finished[i]
                                     ELSE batch[i - Len(finished)]
  BY <1>1, ConcatProperties
<1>5. /\ Len(All) = Len(finished \o batch) + Len(m_queue_query)
      /\ \A i \in 1..Len(finished \o batch) + Len(m_queue_query) :
            All[i] = IF i <= Len(finished \o batch) THEN (finished \o batch)[i]
                     ELSE m_queue_query[i - Len(finished \o batch)]
  BY <1>1, <1>3, ConcatProperties DEF All
<1>6. \A i \in 1..Len(All) : All[i].id = i
  BY DEF FifoConservation, All
<1>7. ASSUME NEW i \in 1..Len(finished) PROVE finished[i].id = i
  <2>1. i \in 1..Len(All) /\ i \in 1..Len(finished) + Len(batch) /\ i <= Len(finished)
    BY <1>2, <1>4, <1>5
  <2>2. All[i] = finished[i]
    BY <1>2, <1>4, <1>5, <2>1
  <2> QED  BY <1>6, <2>1, <2>2
<1>8. ASSUME batch # <<>> PROVE Head(batch).id = Current
  <2>1. Len(batch) > 0 /\ Head(batch) = batch[1]
    BY <1>1, <1>2, <1>8, EmptySeq
  <2>2. /\ Current \in 1..Len(All) /\ Current \in 1..Len(finished) + Len(batch)
        /\ ~(Current <= Len(finished)) /\ Current - Len(finished) = 1
    BY <1>2, <1>4, <1>5, <2>1 DEF Current
  <2>3. All[Current] = batch[1]
    BY <1>2, <1>4, <1>5, <2>2
  <2> QED  BY <1>6, <2>1, <2>2, <2>3
<1>9. applied \in Seq(Nat)
  <2>1. Len(applied) \in Nat /\ applied = [i \in 1..Len(applied) |-> applied[i]]
    BY <1>1, LenProperties
  <2>2. \A i \in 1..Len(applied) : applied[i] \in Nat
    BY <1>1, AsyncSQLAssumption, LenProperties DEF Id
  <2> QED  BY <2>1, <2>2, SeqDef
<1> QED  BY <1>1, <1>2, <1>7, <1>8, <1>9

LEMMA OrderInit == Init => OrderInv
<1> SUFFICES ASSUME Init PROVE OrderInv  OBVIOUS
<1>1. Len(applied) = 0 /\ Len(finished) = 0
  BY DEF Init
<1>2. worker = "connect"
  BY DEF Init
<1> QED  BY <1>1, <1>2 DEF OrderInv

LEMMA OrderStep == TInv /\ FifoConservation /\ OrderInv /\ [Next]_vars => OrderInv'
<1> SUFFICES ASSUME TInv, FifoConservation, OrderInv, [Next]_vars
             PROVE  OrderInv'
  OBVIOUS
<1>0. /\ Len(finished) \in Nat /\ finished \in Seq(Msg) /\ applied \in Seq(Nat)
      /\ batch # <<>> => Head(batch).id = Current
      /\ Current \in Nat
  BY HeadIsCurrent DEF Current
<1>a. /\ Len(applied) \in Nat
      /\ \A i \in 1..Len(applied) : applied[i] \in Nat
  BY <1>0, LenProperties
<1>b. worker \in {"exec", "publish"} <=> batch # <<>>
  BY DEF TInv, BatchInv
<1>c. /\ \A i \in 1..Len(applied) : applied[i] <= Current
      /\ \A i, j \in 1..Len(applied) : i < j => applied[i] <= applied[j]
  BY DEF OrderInv
<1> DEFINE more == Append(applied, Current)
<1>d. /\ Len(more) = Len(applied) + 1
      /\ \A i \in 1..Len(more) : more[i] <= Current
      /\ \A i, j \in 1..Len(more) : i < j => more[i] <= more[j]
      /\ \A n \in Nat : n # Current /\ Once(applied, n) => Once(more, n)
      /\ (\A i \in 1..Len(applied) : applied[i] < Current) => Once(more, Current)
  BY <1>0, <1>c, AppliedAppend
<1>e. \A n \in 1..Len(finished) : n \in Nat /\ n # Current
  BY <1>0 DEF Current
<1> HIDE DEF more
<1>1. CASE ExecSucceeds
  <2>1. /\ applied' = more /\ worker' = "publish" /\ worker = "exec"
        /\ UNCHANGED <<finished, batch, uiSQLErrno>>
    BY <1>0, <1>1, <1>b DEF ExecSucceeds, more
  <2>2. Current' = Current
    BY <2>1 DEF Current
  <2>3. Current \notin uiSQLErrno => Once(more, Current)
    BY <1>d, <2>1 DEF OrderInv
  <2>4. \A n \in 1..Len(finished) : n \notin uiSQLErrno => Once(more, n)
    BY <1>d, <1>e DEF OrderInv
  <2>5. batch # <<>>
    BY <1>b, <2>1
  <2> QED  BY <1>d, <2>1, <2>2, <2>3, <2>4, <2>5 DEF OrderInv
<1>2. CASE ExecFails
  <2>1. /\ worker' = "publish" /\ uiSQLErrno' = uiSQLErrno \union {Current}
        /\ UNCHANGED <<finished, batch, applied>>
    BY <1>0, <1>2, <1>b DEF ExecFails, history
  <2>2. Current' = Current
    BY <2>1 DEF Current
  <2> QED  BY <2>1, <2>2 DEF OrderInv
<1>3. CASE ExecRetries
  <2>1. /\ worker' = "exec" /\ uiSQLErrno' = uiSQLErrno \union {Current}
        /\ UNCHANGED <<finished, batch>>
        /\ batch # <<>>
    BY <1>0, <1>3, <1>b DEF ExecRetries
  <2>2. Current' = Current
    BY <2>1 DEF Current
  <2>3. applied' = applied \/ applied' = more
    BY <1>0, <1>3, <2>1 DEF ExecRetries, more
  <2>4. CASE applied' = applied
    BY <2>1, <2>2, <2>4 DEF OrderInv
  <2>5. CASE applied' = more
    <3>1. \A n \in 1..Len(finished) : n \notin uiSQLErrno => Once(more, n)
      BY <1>d, <1>e DEF OrderInv
    <3> QED  BY <1>d, <2>1, <2>2, <2>5, <3>1 DEF OrderInv
  <2> QED  BY <2>3, <2>4, <2>5
<1>4. CASE Publish
  <2>1. /\ worker = "publish" /\ batch # <<>>
        /\ worker' # "publish"
        /\ UNCHANGED <<applied, uiSQLErrno>>
        /\ finished' = Append(finished, Head(batch))
    BY <1>b, <1>4 DEF Publish, AfterLoop
  <2>2. Len(finished') = Len(finished) + 1
    <3>1. Head(batch) \in Msg
      BY <2>1, HeadTailProperties DEF TInv, TypeOK
    <3> QED  BY <1>0, <2>1, <3>1, AppendProperties
  <2>3. Current' = Current + 1
    BY <2>2 DEF Current
  <2>4. \A i \in 1..Len(applied) : applied[i] < Current'
    BY <1>0, <1>a, <1>c, <2>3
  <2>5. \A i \in 1..Len(applied) : applied[i] <= Current'
    BY <1>0, <1>a, <1>c, <2>3
  <2>6. \A n \in 1..Len(finished') : n \notin uiSQLErrno => Once(applied, n)
    <3> SUFFICES ASSUME NEW n \in 1..Len(finished'), n \notin uiSQLErrno
                 PROVE  Once(applied, n)
      OBVIOUS
    <3>1. CASE n = Current
      BY <2>1, <3>1 DEF OrderInv
    <3>2. CASE n \in 1..Len(finished)
      BY <3>2 DEF OrderInv
    <3> QED  BY <1>0, <2>2, <3>1, <3>2 DEF Current
  <2> QED  BY <1>c, <2>1, <2>4, <2>5, <2>6 DEF OrderInv
<1>5. CASE PopPendingQueries
  <2>1. /\ batch = <<>> /\ worker' # "publish"
        /\ UNCHANGED <<applied, uiSQLErrno, finished>>
    BY <1>5, <1>b DEF PopPendingQueries, AfterLoop, history
  <2>2. Current' = Current
    BY <2>1 DEF Current
  <2> QED  BY <2>1, <2>2 DEF OrderInv
<1>6. ASSUME UNCHANGED <<applied, uiSQLErrno, finished, batch>>,
             worker' \notin {"exec", "publish"} \/ worker' = worker
      PROVE  OrderInv'
  <2>1. Current' = Current
    BY <1>6 DEF Current
  <2> QED  BY <1>6, <2>1 DEF OrderInv
<1>7. \/ ExecSucceeds \/ ExecFails \/ ExecRetries \/ Publish \/ PopPendingQueries
      \/ /\ UNCHANGED <<applied, uiSQLErrno, finished, batch>>
         /\ worker' \notin {"exec", "publish"} \/ worker' = worker
  BY DEF Next, MainStep, Quit, WorkerStep, Exec, PushQuery, PushRelease,
         PopResult, QuitSetEnd, QuitRelease, QuitJoin, CountReachesZero,
         WorkerConnect, WorkerTest, WorkerWait, queues, history, vars
<1> QED  BY <1>1, <1>2, <1>3, <1>4, <1>5, <1>6, <1>7

(* The server executes statements in the order they were submitted, and an *)
(* answer without an error stands for exactly one execution, however often *)
(* connections are lost and attempts are repeated.                         *)
THEOREM ExecutionOrder == Spec => []ExecutedInOrder
<1>1. TInv /\ FifoConservation /\ OrderInv => ExecutedInOrder
  <2> SUFFICES ASSUME TInv, FifoConservation, OrderInv PROVE ExecutedInOrder
    OBVIOUS
  <2>1. \A i \in 1..Len(finished) : finished[i].id = i
    BY HeadIsCurrent
  <2>2. ASSUME NEW i \in 1..Len(finished), finished[i].id \notin uiSQLErrno
        PROVE  Once(applied, finished[i].id)
    BY <2>1, <2>2 DEF OrderInv
  <2> QED  BY <2>2 DEF OrderInv, ExecutedInOrder, Once
<1> QED
  BY TInvInit, TInvStep, FifoInit, FifoStep, OrderInit, OrderStep, <1>1,
     PTL DEF Spec
=============================================================================

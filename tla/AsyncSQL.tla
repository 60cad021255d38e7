------------------------------ MODULE AsyncSQL ------------------------------
(***************************************************************************)
(* One CAsyncSQL object (source/server/libsql): the main thread queues     *)
(* statements, a worker thread owns the connection and executes them, and  *)
(* answers come back on a second queue.  Two threads, two mutexes (each    *)
(* critical section is one atomic action), one counting semaphore and the  *)
(* volatile flag m_bEnd.  The main thread is the one of the db process:    *)
(* it runs its loop, calls Quit() once and then waits for the counter of   *)
(* queued statements to reach zero (db/src/Main.cpp).                      *)
(*                                                                         *)
(* The SQL server is external: an attempt to execute a statement succeeds, *)
(* fails for good, fails in a way ShouldRetry() accepts without having run *)
(* the statement, or loses the connection after running it.                *)
(***************************************************************************)
EXTENDS Naturals, Sequences

CONSTANTS
    MaxQueries,       \* bound: statements submitted in one behaviour
    MaxFaults,        \* bound: attempts that fail with a retryable error
    SemMax            \* largest count of the semaphore (32 on Windows)

ASSUME AsyncSQLAssumption ==
    MaxQueries \in Nat /\ MaxFaults \in Nat /\ SemMax \in Nat \ {0}

VARIABLES
    m_queue_query,    \* statements pushed, not yet taken by the worker
    m_queue_result,   \* answers not yet popped by the main thread
    m_sem,            \* count of the semaphore
    m_bEnd,           \* Quit() was called
    m_connected,      \* Connect() succeeded
    m_iMsgCount,      \* statements created so far
    batch,            \* ChildLoop's local queue; its head is being executed
    draining,         \* the worker has left `while (!m_bEnd)`
    uiSQLErrno,       \* ids of the messages whose uiSQLErrno is not 0
    worker,           \* program counter of the worker thread
    main,             \* program counter of the main thread
    faults,           \* retryable failures so far
    applied,          \* history: ids in the order the server executed them
    finished          \* history: messages the worker is done with

vars == <<m_queue_query, m_queue_result, m_sem, m_bEnd, m_connected,
          m_iMsgCount, batch, draining, uiSQLErrno, worker, main, faults,
          applied, finished>>

queues   == <<m_queue_query, m_queue_result>>
history  == <<applied, finished>>

Id  == 1..MaxQueries
Msg == [id : Id, bReturn : BOOLEAN]

WorkerPc == {"connect", "test", "wait", "pop", "exec", "publish", "done"}
MainPc   == {"ready", "release", "quitting", "join", "count", "exited"}

Init == /\ m_queue_query = <<>> /\ m_queue_result = <<>>
        /\ m_sem = 0 /\ m_bEnd = FALSE /\ m_connected = FALSE
        /\ m_iMsgCount = 0
        /\ batch = <<>> /\ draining = FALSE
        /\ uiSQLErrno = {}
        /\ worker = "connect" /\ main = "ready"
        /\ faults = 0
        /\ applied = <<>> /\ finished = <<>>
-----------------------------------------------------------------------------
(* The main thread. *)

(* AsyncQuery / ReturnQuery up to the unlock of m_queryMutex. *)
PushQuery(bReturn) ==
    /\ main = "ready"
    /\ m_iMsgCount < MaxQueries
    /\ m_iMsgCount' = m_iMsgCount + 1
    /\ m_queue_query' =
          Append(m_queue_query, [id |-> m_iMsgCount + 1, bReturn |-> bReturn])
    /\ main' = "release"
    /\ UNCHANGED <<m_queue_result, m_sem, m_bEnd, m_connected, batch, draining,
                   uiSQLErrno, worker, faults, history>>

(* CSemaphore::Release; a release at the maximum fails and is ignored. *)
SemRelease == m_sem' = IF m_sem < SemMax THEN m_sem + 1 ELSE m_sem

(* Mutant: the statement is queued but the worker is not told. *)
PushWithoutRelease ==
    /\ main = "release"
    /\ main' = "ready"
    /\ UNCHANGED <<queues, m_sem, m_bEnd, m_connected, m_iMsgCount, batch,
                   draining, uiSQLErrno, worker, faults, history>>

PushRelease ==
    /\ main = "release"
    /\ SemRelease
    /\ main' = "ready"
    /\ UNCHANGED <<queues, m_bEnd, m_connected, m_iMsgCount, batch, draining,
                   uiSQLErrno, worker, faults, history>>

PopResult ==
    /\ main = "ready"
    /\ m_queue_result # <<>>
    /\ m_queue_result' = Tail(m_queue_result)
    /\ UNCHANGED <<m_queue_query, m_sem, m_bEnd, m_connected, m_iMsgCount,
                   batch, draining, uiSQLErrno, worker, main, faults,
                   applied, finished>>

(* Quit: set the flag, release the semaphore, join the worker. *)
QuitSetEnd ==
    /\ main = "ready"
    /\ m_bEnd' = TRUE
    /\ main' = "quitting"
    /\ UNCHANGED <<queues, m_sem, m_connected, m_iMsgCount, batch, draining,
                   uiSQLErrno, worker, faults, history>>

(* Mutant: Quit forgets the semaphore and goes straight to join. *)
QuitWithoutRelease ==
    /\ main = "quitting"
    /\ main' = "join"
    /\ UNCHANGED <<queues, m_sem, m_bEnd, m_connected, m_iMsgCount, batch,
                   draining, uiSQLErrno, worker, faults, history>>

QuitRelease ==
    /\ main = "quitting"
    /\ SemRelease
    /\ main' = "join"
    /\ UNCHANGED <<queues, m_bEnd, m_connected, m_iMsgCount, batch, draining,
                   uiSQLErrno, worker, faults, history>>

QuitJoin ==
    /\ main = "join"
    /\ worker = "done"
    /\ main' = "count"
    /\ UNCHANGED <<queues, m_sem, m_bEnd, m_connected, m_iMsgCount, batch,
                   draining, uiSQLErrno, worker, faults, history>>

(* Mutant: Quit releases the semaphore before it sets the flag. *)
QuitReleasesFirst ==
    \/ /\ main = "ready"
       /\ SemRelease
       /\ main' = "quitting"
       /\ UNCHANGED <<queues, m_bEnd, m_connected, m_iMsgCount, batch,
                      draining, uiSQLErrno, worker, faults, history>>
    \/ /\ main = "quitting"
       /\ m_bEnd' = TRUE
       /\ main' = "join"
       /\ UNCHANGED <<queues, m_sem, m_connected, m_iMsgCount, batch,
                      draining, uiSQLErrno, worker, faults, history>>
    \/ QuitJoin

Quit == QuitSetEnd \/ QuitRelease \/ QuitJoin

(* Main.cpp sleeps until CountReturnQuery + CountAsyncQuery is zero. *)
CountReachesZero ==
    /\ main = "count"
    /\ m_queue_query = <<>>
    /\ main' = "exited"
    /\ UNCHANGED <<queues, m_sem, m_bEnd, m_connected, m_iMsgCount, batch,
                   draining, uiSQLErrno, worker, faults, history>>
-----------------------------------------------------------------------------
(* The worker thread. *)

WorkerConnect ==
    /\ worker = "connect"
    /\ \E ok \in BOOLEAN :
          /\ m_connected' = ok
          /\ worker' = IF ok THEN "test" ELSE "done"
    /\ UNCHANGED <<queues, m_sem, m_bEnd, m_iMsgCount, batch, draining,
                   uiSQLErrno, main, faults, history>>

(* Mutant: no last PopPendingQueries after the loop. *)
WorkerLeavesAtOnce ==
    /\ worker = "test"
    /\ worker' = IF m_bEnd THEN "done" ELSE "wait"
    /\ UNCHANGED <<queues, m_sem, m_bEnd, m_connected, m_iMsgCount, batch,
                   draining, uiSQLErrno, main, faults, history>>

(* while (!m_bEnd) *)
WorkerTest ==
    /\ worker = "test"
    /\ IF m_bEnd THEN worker' = "pop" /\ draining' = TRUE
                 ELSE worker' = "wait" /\ draining' = draining
    /\ UNCHANGED <<queues, m_sem, m_bEnd, m_connected, m_iMsgCount, batch,
                   uiSQLErrno, main, faults, history>>

WorkerWait ==
    /\ worker = "wait"
    /\ m_sem > 0
    /\ m_sem' = m_sem - 1
    /\ worker' = "pop"
    /\ UNCHANGED <<queues, m_bEnd, m_connected, m_iMsgCount, batch, draining,
                   uiSQLErrno, main, faults, history>>

(* Where the worker goes when its local queue is q. *)
AfterLoop(q) == IF q # <<>> THEN "exec" ELSE IF draining THEN "done" ELSE "test"

PopPendingQueries ==
    /\ worker = "pop"
    /\ batch' = m_queue_query
    /\ m_queue_query' = <<>>
    /\ worker' = AfterLoop(m_queue_query)
    /\ UNCHANGED <<m_queue_result, m_sem, m_bEnd, m_connected, m_iMsgCount,
                   draining, uiSQLErrno, main, faults, history>>

(* mysql_real_query of the head of the local queue succeeds ... *)
ExecSucceeds ==
    /\ worker = "exec"
    /\ applied' = Append(applied, Head(batch).id)
    /\ worker' = "publish"
    /\ UNCHANGED <<queues, m_sem, m_bEnd, m_connected, m_iMsgCount, batch,
                   draining, uiSQLErrno, main, faults, finished>>

(* Mutant: a statement that fails for good is dropped without an answer. *)
FailureNotAnswered ==
    /\ worker = "exec"
    /\ uiSQLErrno' = uiSQLErrno \union {Head(batch).id}
    /\ batch' = Tail(batch)
    /\ finished' = Append(finished, Head(batch))
    /\ worker' = AfterLoop(Tail(batch))
    /\ UNCHANGED <<queues, m_sem, m_bEnd, m_connected, m_iMsgCount, draining,
                   main, faults, applied>>

(* ... or fails with an error that is not retried ... *)
ExecFails ==
    /\ worker = "exec"
    /\ uiSQLErrno' = uiSQLErrno \union {Head(batch).id}
    /\ worker' = "publish"
    /\ UNCHANGED <<queues, m_sem, m_bEnd, m_connected, m_iMsgCount, batch,
                   draining, main, faults, history>>

(* Mutant: a retried statement keeps no trace of its error. *)
RetryForgetsError ==
    /\ worker = "exec"
    /\ faults < MaxFaults
    /\ faults' = faults + 1
    /\ \E lost \in BOOLEAN :
          applied' = IF lost THEN Append(applied, Head(batch).id) ELSE applied
    /\ UNCHANGED <<queues, m_sem, m_bEnd, m_connected, m_iMsgCount, batch,
                   draining, uiSQLErrno, worker, main, finished>>

(* ... or with one ShouldRetry() accepts: the same head is tried again.    *)
(* A connection lost after the server ran the statement (lost) repeats it. *)
ExecRetries ==
    /\ worker = "exec"
    /\ faults < MaxFaults
    /\ faults' = faults + 1
    /\ uiSQLErrno' = uiSQLErrno \union {Head(batch).id}
    /\ \E lost \in BOOLEAN :
          applied' = IF lost THEN Append(applied, Head(batch).id) ELSE applied
    /\ UNCHANGED <<queues, m_sem, m_bEnd, m_connected, m_iMsgCount, batch,
                   draining, worker, main, finished>>

(* queue.pop(), Store(), then PushResult(p) or delete p. *)
Publish ==
    /\ worker = "publish"
    /\ batch' = Tail(batch)
    /\ finished' = Append(finished, Head(batch))
    /\ m_queue_result' = IF Head(batch).bReturn
                           THEN Append(m_queue_result, Head(batch))
                           ELSE m_queue_result
    /\ worker' = AfterLoop(Tail(batch))
    /\ UNCHANGED <<m_queue_query, m_sem, m_bEnd, m_connected, m_iMsgCount,
                   draining, uiSQLErrno, main, faults, applied>>
-----------------------------------------------------------------------------
Exec == ExecSucceeds \/ ExecFails \/ ExecRetries

MainStep ==
    \/ \E bReturn \in BOOLEAN : PushQuery(bReturn)
    \/ PushRelease \/ PopResult \/ Quit \/ CountReachesZero

WorkerStep ==
    \/ WorkerConnect \/ WorkerTest \/ WorkerWait \/ PopPendingQueries
    \/ Exec \/ Publish

Next == MainStep \/ WorkerStep

Spec == Init /\ [][Next]_vars

(* Both threads are scheduled; a call the main thread has begun returns.   *)
(* Nothing obliges the main thread to push, to pop or to quit.             *)
Fairness ==
    /\ WF_vars(WorkerStep)
    /\ WF_vars(PushRelease \/ QuitRelease \/ QuitJoin \/ CountReachesZero)

FairSpec == Spec /\ Fairness
-----------------------------------------------------------------------------
(* Every variable has its type. *)
TypeOK ==
    /\ m_queue_query \in Seq(Msg) /\ m_queue_result \in Seq(Msg)
    /\ m_sem \in 0..SemMax
    /\ m_bEnd \in BOOLEAN /\ m_connected \in BOOLEAN
    /\ m_iMsgCount \in 0..MaxQueries
    /\ batch \in Seq(Msg) /\ draining \in BOOLEAN
    /\ uiSQLErrno \in SUBSET Id
    /\ worker \in WorkerPc /\ main \in MainPc
    /\ faults \in 0..MaxFaults
    /\ applied \in Seq(Id) /\ finished \in Seq(Msg)

(* The worker never sleeps on the semaphore over work: if it is about to   *)
(* wait while a statement is queued or Quit() has set m_bEnd, a token is   *)
(* there or the main thread is about to release one (PushQuery releases    *)
(* after the unlock, Quit after setting the flag).                         *)
NoLostWakeup ==
    worker = "wait" =>
        /\ m_queue_query # <<>> => m_sem > 0 \/ main = "release"
        /\ m_bEnd => m_sem > 0 \/ main = "quitting"

(* No statement is lost, duplicated or overtaken on its way through        *)
(* m_queue_query, the swapped local queue and the answer: the messages     *)
(* done with, being executed and queued are 1 .. m_iMsgCount in order.     *)
FifoConservation ==
    LET all == finished \o batch \o m_queue_query IN
        /\ Len(all) = m_iMsgCount
        /\ \A i \in 1..Len(all) : all[i].id = i

(* What the server executed: statements never overtake one another (a      *)
(* retry only repeats the latest one), and an answer whose uiSQLErrno is 0 *)
(* stands for exactly one execution.                                       *)
ExecutedInOrder ==
    /\ \A i, j \in 1..Len(applied) : i < j => applied[i] <= applied[j]
    /\ \A i \in 1..Len(finished) :
          finished[i].id \notin uiSQLErrno =>
              \E k \in 1..Len(applied) :
                  \A l \in 1..Len(applied) : applied[l] = finished[i].id <=> l = k

(* When Quit() has returned on an established connection, every statement  *)
(* ever submitted has been answered: the flush of all caches at the end of *)
(* CClientManager::MainLoop reaches the SQL server before the process ends.*)
QuitDrains ==
    main \in {"count", "exited"} /\ m_connected =>
        batch = <<>> /\ Len(finished) = m_iMsgCount

(* Every statement submitted is eventually answered, unless the worker     *)
(* never got a connection.                                                 *)
EventuallyAnswered ==
    \A n \in Id : m_iMsgCount >= n ~>
        Len(finished) >= n \/ (worker = "done" /\ ~m_connected)

(* Shutdown terminates once Quit() is called.  It may hang in Main.cpp's   *)
(* counting loop only if the worker never connected and left its           *)
(* statements in the queue.                                                *)
QuitTerminates ==
    m_bEnd ~> \/ main = "exited"
              \/ ~m_connected /\ worker = "done" /\ m_queue_query # <<>>

(* The worker and the main thread implement the sequential query service.  *)
Service == INSTANCE QueryService WITH
    Query   <- Msg,
    pending <- batch \o m_queue_query,
    replies <- m_queue_result,
    status  <- IF worker = "connect" THEN "new"
               ELSE IF m_connected THEN "serving" ELSE "dead",
    closed  <- main \in {"count", "exited"}

ImplementsService == Service!Spec
=============================================================================

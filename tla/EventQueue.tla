----------------------------- MODULE EventQueue -----------------------------
(***************************************************************************)
(* The timed events of a game process (game/src/event.cpp, event_queue.cpp *)
(* and stable_priority_queue.h).  An event is a function that runs some    *)
(* pulses later; what it returns is the number of pulses until it runs     *)
(* again, or 0.  Its owner (a character, an item, a dungeon ...) keeps an  *)
(* LPEVENT to cancel it.  While a function runs it may create, cancel and  *)
(* reset events, its own among them: many a handler destroys the object    *)
(* that owns the event, whose destructor cancels it.                       *)
(*                                                                         *)
(* Events wait as TQueueElements, allocated by Enqueue and deleted before  *)
(* the function runs.  Memory is modelled: a deleted element's address may *)
(* be given to the next one, a write to memory that nobody has is harmless.*)
(* Time is the number of pulses an element still has to wait.  An event    *)
(* object lives as long as somebody refers to it; then its name is free.   *)
(***************************************************************************)
EXTENDS Integers, Sequences, SequencesExt

CONSTANTS
    Events,           \* bound: event objects at any time
    Addrs,            \* bound: memory for queue elements
    MaxWhen,          \* bound: the longest wait, in pulses
    MaxReset,         \* bound: calls of event_reset_time
    NULL

ASSUME EventAssumption ==
    /\ MaxWhen \in Nat \ {0} /\ MaxReset \in Nat
    /\ NULL \notin Events /\ NULL \notin Addrs

VARIABLES
    elem,             \* memory: the TQueueElement at each address
    queue,            \* m_pq_queue, the next to run first
    q_el,             \* of each event, an address
    is_processing, is_force_to_end,
    held,             \* events whose owner has an LPEVENT
    running,          \* the event whose function runs
    pulsing,          \* event_process is looping
    nReset,
    cancelled,        \* history: events cancelled by their owner
    scheduled,        \* history: events queued in this pulse
    victims           \* history: events whose element another's q_el cancelled

flags   == <<is_processing, is_force_to_end>>
history == <<cancelled, scheduled, victims>>
vars    == <<elem, queue, q_el, flags, held, running, pulsing, nReset, history>>

Free == [ev |-> NULL, due |-> 0, bCancel |-> FALSE]

Init == /\ elem = [a \in Addrs |-> Free] /\ queue = <<>>
        /\ q_el = [e \in Events |-> NULL]
        /\ is_processing = [e \in Events |-> FALSE]
        /\ is_force_to_end = [e \in Events |-> FALSE]
        /\ held = {} /\ running = NULL /\ pulsing = FALSE /\ nReset = 0
        /\ cancelled = {} /\ scheduled = {} /\ victims = {}

(* Somebody refers to the event: its owner, an element, or event_process.  *)
Exists(e) == e \in held \/ running = e \/ \E a \in Addrs : elem[a].ev = e
-----------------------------------------------------------------------------
(* Mutant: a new element goes behind all others. *)
Enqueue_Last(mem, e, due) ==
    \E a \in Addrs :
        /\ mem[a] = Free
        /\ elem' = [mem EXCEPT ![a] = [ev |-> e, due |-> due, bCancel |-> FALSE]]
        /\ q_el' = [q_el EXCEPT ![e] = a]
        /\ queue' = Append(queue, a)

(* CEventQueue::Enqueue, in the memory mem: behind all that are due before *)
(* or at the same time (lower_bound in a vector whose back is the top).    *)
Enqueue(mem, e, due) ==
    \E a \in Addrs :
        /\ mem[a] = Free
        /\ elem' = [mem EXCEPT ![a] = [ev |-> e, due |-> due, bCancel |-> FALSE]]
        /\ q_el' = [q_el EXCEPT ![e] = a]
        /\ \E i \in 0..Len(queue) :
              /\ \A j \in 1..Len(queue) : elem[queue[j]].due <= due <=> j <= i
              /\ queue' = InsertAt(queue, i + 1, a)

(* event->q_el->bCancel = TRUE, through whatever q_el points to.           *)
CancelElement(e) ==
    IF q_el[e] = NULL \/ elem[q_el[e]] = Free THEN elem
    ELSE [elem EXCEPT ![q_el[e]].bCancel = TRUE]

(* The event, not e, whose element is at the address that q_el[e] holds.   *)
Victims(e) == IF q_el[e] = NULL THEN {} ELSE {elem[q_el[e]].ev} \ {NULL, e}

(* Callers compute when, from a remaining time for example. *)
event_create(when) ==
    /\ \E e \in Events :
          /\ ~Exists(e)
          /\ held' = held \cup {e}
          /\ is_processing' = [is_processing EXCEPT ![e] = FALSE]
          /\ is_force_to_end' = [is_force_to_end EXCEPT ![e] = FALSE]
          /\ cancelled' = cancelled \ {e} /\ scheduled' = scheduled \cup {e}
          /\ victims' = victims \ {e}
          /\ Enqueue(elem, e, IF when < 1 THEN 1 ELSE when)
    /\ UNCHANGED <<running, pulsing, nReset>>

event_cancel(e) ==
    /\ e \in held
    /\ held' = held \ {e}
    /\ is_force_to_end' = [is_force_to_end EXCEPT ![e] = @ \/ is_processing[e]]
    /\ elem' = CancelElement(e)
    /\ cancelled' = cancelled \cup {e} /\ victims' = victims \cup Victims(e)
    /\ UNCHANGED <<queue, q_el, is_processing, running, pulsing, nReset, scheduled>>

(* Mutant: the old element is cancelled and no new one made. *)
event_reset_time_NotQueued(e) ==
    /\ e \in held /\ ~is_processing[e] /\ nReset < MaxReset
    /\ nReset' = nReset + 1
    /\ elem' = CancelElement(e)
    /\ scheduled' = scheduled \cup {e} /\ victims' = victims \cup Victims(e)
    /\ UNCHANGED <<queue, q_el, flags, held, running, pulsing, cancelled>>

(* Mutant: also while the event's function runs. *)
event_reset_time_Always(e) ==
    /\ e \in held /\ nReset < MaxReset
    /\ nReset' = nReset + 1
    /\ Enqueue(CancelElement(e), e, 1)
    /\ scheduled' = scheduled \cup {e} /\ victims' = victims \cup Victims(e)
    /\ UNCHANGED <<flags, held, running, pulsing, cancelled>>

(* To the next pulse, as all callers have it; ignored while it runs. *)
event_reset_time(e) ==
    /\ e \in held /\ ~is_processing[e] /\ nReset < MaxReset
    /\ nReset' = nReset + 1
    /\ Enqueue(CancelElement(e), e, 1)
    /\ scheduled' = scheduled \cup {e} /\ victims' = victims \cup Victims(e)
    /\ UNCHANGED <<flags, held, running, pulsing, cancelled>>
-----------------------------------------------------------------------------
(* heartbeat: the next pulse, and event_process for it. *)
Pulse ==
    /\ ~pulsing
    /\ pulsing' = TRUE
    /\ elem' = [a \in Addrs |-> IF elem[a] = Free THEN Free
                                ELSE [elem[a] EXCEPT !.due = @ - 1]]
    /\ scheduled' = {}
    /\ UNCHANGED <<queue, q_el, flags, held, running, nReset, cancelled, victims>>

(* The top of the queue has come due and is taken out and deleted. *)
Dequeue(cancel) ==
    /\ pulsing /\ running = NULL
    /\ queue # <<>> /\ elem[Head(queue)].due <= 0
    /\ elem[Head(queue)].bCancel = cancel
    /\ queue' = Tail(queue)
    /\ elem' = [elem EXCEPT ![Head(queue)] = Free]

SkipCancelled ==
    /\ Dequeue(TRUE)
    /\ UNCHANGED <<q_el, flags, held, running, pulsing, nReset, history>>

StartHandler ==
    /\ Dequeue(FALSE)
    /\ LET e == elem[Head(queue)].ev IN
       /\ running' = e
       /\ is_processing' = [is_processing EXCEPT ![e] = TRUE]
    /\ UNCHANGED <<q_el, is_force_to_end, held, pulsing, nReset, history>>

(* The function clears the owner's LPEVENT of its own event, as a function *)
(* that will not run again should.                                         *)
HandlerForgets ==
    /\ running \in held
    /\ held' = held \ {running}
    /\ UNCHANGED <<elem, queue, q_el, flags, running, pulsing, nReset, history>>

(* Mutant: an event cancelled by its own function is queued again. *)
HandlerReturns_NotForced ==
    /\ running # NULL
    /\ running' = NULL
    /\ \E new_time \in 0..MaxWhen :
          IF new_time <= 0
          THEN /\ q_el' = [q_el EXCEPT ![running] = NULL]
               /\ UNCHANGED <<elem, queue, is_processing, scheduled>>
          ELSE /\ Enqueue(elem, running, new_time)
               /\ is_processing' = [is_processing EXCEPT ![running] = FALSE]
               /\ scheduled' = scheduled \cup {running}
    /\ UNCHANGED <<is_force_to_end, held, pulsing, nReset, cancelled, victims>>

(* Mutant: a function that returns 0 runs again in the same pulse. *)
HandlerReturns_ZeroAgain ==
    /\ running # NULL
    /\ running' = NULL
    /\ \E new_time \in 0..MaxWhen :
          IF new_time < 0 \/ is_force_to_end[running]
          THEN /\ q_el' = [q_el EXCEPT ![running] = NULL]
               /\ UNCHANGED <<elem, queue, is_processing, scheduled>>
          ELSE /\ Enqueue(elem, running, new_time)
               /\ is_processing' = [is_processing EXCEPT ![running] = FALSE]
               /\ scheduled' = scheduled \cup {running}
    /\ UNCHANGED <<is_force_to_end, held, pulsing, nReset, cancelled, victims>>

HandlerReturns ==
    /\ running # NULL
    /\ running' = NULL
    /\ \E new_time \in 0..MaxWhen :
          IF new_time <= 0 \/ is_force_to_end[running]
          THEN /\ q_el' = [q_el EXCEPT ![running] = NULL]
               /\ UNCHANGED <<elem, queue, is_processing, scheduled>>
          ELSE /\ Enqueue(elem, running, new_time)
               /\ is_processing' = [is_processing EXCEPT ![running] = FALSE]
               /\ scheduled' = scheduled \cup {running}
    /\ UNCHANGED <<is_force_to_end, held, pulsing, nReset, cancelled, victims>>

(* Nothing more is due: event_process returns. *)
Processed ==
    /\ pulsing /\ running = NULL
    /\ queue # <<>> => elem[Head(queue)].due > 0
    /\ pulsing' = FALSE
    /\ UNCHANGED <<elem, queue, q_el, flags, held, running, nReset, history>>
-----------------------------------------------------------------------------
(* The program calls these between pulses or from an event's function, not *)
(* from inside event_process itself.                                       *)
Caller == pulsing => running # NULL

Call == /\ Caller
        /\ \/ \E when \in -1..MaxWhen : event_create(when)
           \/ \E e \in Events : event_cancel(e) \/ event_reset_time(e)

Loop == SkipCancelled \/ StartHandler \/ HandlerReturns \/ Processed

Next == Call \/ HandlerForgets \/ Pulse \/ Loop

Spec == Init /\ [][Next]_vars

(* Pulses go on, and the functions return. *)
FairSpec == Spec /\ WF_vars(Pulse) /\ WF_vars(Loop)
-----------------------------------------------------------------------------
(* Every variable has its type, and no element waits for a time in the past. *)
TypeOK ==
    /\ elem \in [Addrs -> [ev : Events, due : 0..MaxWhen, bCancel : BOOLEAN]
                             \cup {Free}]
    /\ queue \in Seq(Addrs)
    /\ q_el \in [Events -> Addrs \cup {NULL}]
    /\ is_processing \in [Events -> BOOLEAN]
    /\ is_force_to_end \in [Events -> BOOLEAN]
    /\ held \subseteq Events /\ running \in Events \cup {NULL}
    /\ pulsing \in BOOLEAN /\ nReset \in 0..MaxReset
    /\ cancelled \subseteq Events /\ scheduled \subseteq Events
    /\ victims \subseteq Events

(* What waits for the event e, apart from elements that were cancelled.    *)
Waiting(e) == {a \in Addrs : elem[a].ev = e /\ ~elem[a].bCancel}

(* An event that its owner can still cancel waits exactly once, where its  *)
(* q_el points, or runs, or has finished for good; one that was cancelled  *)
(* does not wait.  So it runs neither twice nor never.  Except for events  *)
(* whose element was hit by a write through the q_el of another event.     *)
ScheduledOnce ==
    \A e \in Events \ victims :
        Waiting(e) = IF ~Exists(e) \/ is_processing[e] \/ e \in cancelled THEN {}
                     ELSE {q_el[e]}

(* When event_process returns, nothing that was due is left waiting.       *)
NoneOverdue == ~pulsing => \A a \in Addrs : elem[a] # Free => elem[a].due > 0

(* An event that was cancelled does not start to run, also when its own    *)
(* function cancelled it, and one created or queued again waits for the    *)
(* next pulse at least ("must be called after at least the next pulse").   *)
StartsRightly ==
    [][running = NULL /\ running' # NULL
       => running' \notin cancelled /\ running' \notin scheduled]_vars

(* event_cancel removes the event it is called for, and no other.          *)
OnlyItselfCancelled ==
    \A a \in Addrs :
        elem[a].bCancel => elem[a].ev \in cancelled \/ q_el[elem[a].ev] # a

(* event_process comes to an end in every pulse, though functions queue    *)
(* events while it runs.                                                   *)
ProcessReturns == pulsing ~> ~pulsing

(* An event that waits will run, unless it is cancelled.                   *)
EventRuns ==
    \A e \in Events :
        Exists(e) ~> running = e \/ e \in cancelled \/ ~Exists(e)
                     \/ is_processing[e] \/ e \in victims
=============================================================================

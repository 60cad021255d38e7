--------------------------- MODULE EventQueueProofs ---------------------------
(***************************************************************************)
(* Proofs about EventQueue, for every number of events, places in memory,  *)
(* waiting times and resets: its types, that nothing is left overdue, that *)
(* no event starts that should not, and that each is scheduled once.       *)
(***************************************************************************)
EXTENDS EventQueue, SequenceTheorems, TLAPS

Element == [ev : Events, due : 0..MaxWhen, bCancel : BOOLEAN]
Memory  == [Addrs -> Element \cup {Free}]

(* The queue has every element in memory, once.                            *)
Linked(mem, q) ==
    /\ \A i, j \in 1..Len(q) : q[i] = q[j] => i = j
    /\ \A i \in 1..Len(q) : mem[q[i]] # Free
    /\ \A a \in Addrs : mem[a] # Free => \E i \in 1..Len(q) : q[i] = a

(* The earliest is first.                                                  *)
Sorted(mem, q) ==
    \A i, j \in 1..Len(q) : i <= j => mem[q[i]].due <= mem[q[j]].due

(* An element that is not cancelled is the one its event points to; that   *)
(* event does not run, is not cancelled, and waits for the next pulse if   *)
(* it was queued in this one.                                              *)
LiveElements ==
    \A a \in Addrs :
        elem[a] # Free /\ ~elem[a].bCancel
        => LET e == elem[a].ev IN
           /\ q_el[e] = a
           /\ ~is_processing[e]
           /\ e \notin cancelled
           /\ e \in scheduled => elem[a].due > 0

(* A cancelled event has no owner any more, and one whose function runs    *)
(* will end with it.                                                       *)
OwnersAndHandler ==
    /\ held \cap cancelled = {}
    /\ running # NULL => /\ is_processing[running]
                         /\ running \in cancelled => is_force_to_end[running]

(* An event that is to run again has its element.                          *)
NotLost ==
    \A e \in Events \ victims :
        Exists(e) /\ ~is_processing[e] /\ e \notin cancelled
        => /\ q_el[e] \in Addrs
           /\ elem[q_el[e]].ev = e
           /\ ~elem[q_el[e]].bCancel

IInv == /\ TypeOK
        /\ Linked(elem, queue) /\ Sorted(elem, queue) /\ NoneOverdue
        /\ LiveElements /\ OwnersAndHandler /\ NotLost
-----------------------------------------------------------------------------
(* What InsertAt of the community modules returns.                         *)
LEMMA InsertAtFacts ==
    ASSUME NEW S, NEW q \in Seq(S), NEW x \in S, NEW i \in 0..Len(q)
    PROVE  LET r == InsertAt(q, i + 1, x) IN
           /\ r \in Seq(S)
           /\ Len(r) = Len(q) + 1
           /\ \A j \in 1..Len(r) :
                 r[j] = IF j <= i THEN q[j] ELSE IF j = i + 1 THEN x ELSE q[j - 1]
  <1> DEFINE front == SubSeq(q, 1, i)
             back  == SubSeq(q, i + 1, Len(q))
             r     == InsertAt(q, i + 1, x)
  <1>1. r = front \o <<x>> \o back
    <2>1. (i + 1) - 1 = i
      OBVIOUS
    <2> QED BY <2>1 DEF InsertAt
  <1>2. /\ front \in Seq(S) /\ Len(front) = i
        /\ \A j \in 1..i : front[j] = q[j]
    OBVIOUS
  <1>3. /\ back \in Seq(S) /\ Len(back) = Len(q) - i
        /\ \A j \in 1..(Len(q) - i) : back[j] = q[i + j]
    OBVIOUS
  <1> HIDE DEF front, back, r
  <1> DEFINE upto == front \o <<x>>
  <1>4. /\ upto \in Seq(S) /\ Len(upto) = i + 1
        /\ \A j \in 1..(i + 1) : upto[j] = IF j <= i THEN q[j] ELSE x
    BY <1>2
  <1>5. /\ r \in Seq(S) /\ Len(r) = Len(q) + 1
        /\ \A j \in 1..Len(r) :
              r[j] = IF j <= i + 1 THEN upto[j] ELSE back[j - (i + 1)]
    <2> HIDE DEF upto
    <2>1. r = upto \o back
      BY <1>1 DEF upto
    <2>2. Len(upto) + Len(back) = Len(q) + 1
      BY <1>3, <1>4
    <2>3. /\ r \in Seq(S) /\ Len(r) = Len(upto) + Len(back)
          /\ \A j \in 1..(Len(upto) + Len(back)) :
                r[j] = IF j <= Len(upto) THEN upto[j] ELSE back[j - Len(upto)]
      BY <2>1, <1>3, <1>4, ConcatProperties
    <2> QED BY <2>2, <2>3, <1>4
  <1>6. ASSUME NEW j \in 1..Len(r)
        PROVE  r[j] = IF j <= i THEN q[j] ELSE IF j = i + 1 THEN x ELSE q[j - 1]
    <2>1. CASE j <= i + 1
      <3> HIDE DEF upto
      <3>1. j \in 1..(i + 1) /\ r[j] = upto[j]
        BY <2>1, <1>5
      <3> QED BY <3>1, <1>4
    <2>2. CASE j > i + 1
      <3>1. r[j] = back[j - (i + 1)]
        BY <2>2, <1>5
      <3>2. j - (i + 1) \in 1..(Len(q) - i) /\ i + (j - (i + 1)) = j - 1
        BY <2>2, <1>5
      <3> QED BY <2>2, <3>1, <3>2, <1>3
    <2> QED BY <2>1, <2>2, <1>5
  <1> QED BY <1>5, <1>6 DEF r

(* A new element put behind those due before or with it keeps the queue in *)
(* order and complete.                                                     *)
LEMMA InsertKeepsOrder ==
    ASSUME NEW mem \in Memory, NEW q \in Seq(Addrs),
           Linked(mem, q), Sorted(mem, q),
           NEW a \in Addrs, mem[a] = Free,
           NEW e \in Events, NEW due \in 0..MaxWhen,
           NEW i \in 0..Len(q),
           \A j \in 1..Len(q) : mem[q[j]].due <= due <=> j <= i
    PROVE  LET new == [mem EXCEPT ![a] = [ev |-> e, due |-> due, bCancel |-> FALSE]]
               r   == InsertAt(q, i + 1, a)
           IN  new \in Memory /\ r \in Seq(Addrs) /\ Linked(new, r) /\ Sorted(new, r)
  <1> DEFINE rec == [ev |-> e, due |-> due, bCancel |-> FALSE]
             new == [mem EXCEPT ![a] = rec]
             r   == InsertAt(q, i + 1, a)
  <1>1. rec \in Element /\ rec # Free /\ rec.due = due
    BY EventAssumption DEF Element, Free
  <1>2. /\ r \in Seq(Addrs) /\ Len(r) = Len(q) + 1
        /\ \A j \in 1..Len(r) :
              r[j] = IF j <= i THEN q[j] ELSE IF j = i + 1 THEN a ELSE q[j - 1]
    BY InsertAtFacts
  <1>3. /\ new \in Memory /\ new[a] = rec
        /\ \A b \in Addrs : b # a => new[b] = mem[b]
    BY <1>1 DEF Memory
  <1>4. /\ \A j \in 1..Len(q) : q[j] \in Addrs /\ q[j] # a /\ mem[q[j]].due \in Nat
        /\ Len(q) \in Nat
    <2>1. ASSUME NEW j \in 1..Len(q)
          PROVE  q[j] \in Addrs /\ mem[q[j]] # Free
      BY DEF Linked
    <2>2. ASSUME NEW b \in Addrs, mem[b] # Free
          PROVE  mem[b].due \in Nat
      BY <2>2, EventAssumption DEF Memory, Element
    <2> QED BY <2>1, <2>2
  <1> HIDE DEF rec, new, r
  <1>5. Linked(new, r)
    <2> DEFINE old(n) == IF n <= i THEN n ELSE n - 1
    <2>1. ASSUME NEW n \in 1..Len(r), n # i + 1
          PROVE  old(n) \in 1..Len(q) /\ r[n] = q[old(n)]
      BY <2>1, <1>2, <1>4
    <2>2. i + 1 \in 1..Len(r) /\ r[i + 1] = a
      BY <1>2, <1>4
    <2>3. ASSUME NEW j \in 1..Len(r), NEW k \in 1..Len(r), r[j] = r[k]
          PROVE  j = k
      <3>1. CASE j = i + 1 \/ k = i + 1
        <4> HIDE DEF old
        <4> QED BY <3>1, <2>1, <2>2, <2>3, <1>4
      <3>2. CASE j # i + 1 /\ k # i + 1
        <4>1. old(j) = old(k)
          <5> HIDE DEF old
          <5>1. old(j) \in 1..Len(q) /\ r[j] = q[old(j)]
            BY <2>1, <3>2
          <5>2. old(k) \in 1..Len(q) /\ r[k] = q[old(k)]
            BY <2>1, <3>2
          <5>3. \A m, n \in 1..Len(q) : q[m] = q[n] => m = n
            BY DEF Linked
          <5>4. q[old(j)] = q[old(k)]
            BY <2>3, <5>1, <5>2
          <5> QED BY <5>1, <5>2, <5>3, <5>4
        <4>2. i \in Nat /\ j \in Nat /\ k \in Nat
          BY <1>2, <1>4
        <4> QED BY <4>1, <4>2, <3>2
      <3> QED BY <3>1, <3>2
    <2>4. ASSUME NEW j \in 1..Len(r)
          PROVE  new[r[j]] # Free
      <3> HIDE DEF old
      <3>1. CASE j = i + 1
        BY <3>1, <2>2, <1>1, <1>3
      <3>2. CASE j # i + 1
        BY <3>2, <2>1, <1>3, <1>4 DEF Linked
      <3> QED BY <3>1, <3>2
    <2>5. ASSUME NEW b \in Addrs, new[b] # Free
          PROVE  \E j \in 1..Len(r) : r[j] = b
      <3>1. CASE b = a
        BY <3>1, <2>2
      <3>2. CASE b # a
        <4>1. PICK j \in 1..Len(q) : q[j] = b
          BY <3>2, <2>5, <1>3 DEF Linked
        <4>2. CASE j <= i
          <5>1. j \in 1..Len(r)
            BY <1>2, <1>4
          <5> QED BY <5>1, <4>1, <4>2, <1>2
        <4>3. CASE j > i
          <5>1. j + 1 \in 1..Len(r) /\ ~(j + 1 <= i) /\ j + 1 # i + 1 /\ (j + 1) - 1 = j
            BY <4>3, <1>2, <1>4
          <5> QED BY <5>1, <4>1, <1>2
        <4> QED BY <4>2, <4>3
      <3> QED BY <3>1, <3>2
    <2> QED BY <2>3, <2>4, <2>5 DEF Linked
  <1>6. Sorted(new, r)
    <2> SUFFICES ASSUME NEW j \in 1..Len(r), NEW k \in 1..Len(r), j <= k
                 PROVE  new[r[j]].due <= new[r[k]].due
      BY DEF Sorted
    <2>1. CASE j = i + 1 /\ k = i + 1
      BY <2>1, <1>1, <1>2, <1>3
    <2>2. CASE j <= i /\ k = i + 1
      BY <2>2, <1>1, <1>2, <1>3, <1>4
    <2>3. CASE j = i + 1 /\ k > i + 1
      <3>1. k - 1 \in 1..Len(q) /\ ~(k - 1 <= i) /\ r[k] = q[k - 1]
        BY <2>3, <1>2, <1>4
      <3> QED BY <3>1, <2>3, <1>1, <1>2, <1>3, <1>4
    <2>4. CASE j <= i /\ k <= i
      BY <2>4, <1>2, <1>3, <1>4 DEF Sorted
    <2>5. CASE j <= i /\ k > i + 1
      <3>1. /\ j \in 1..Len(q) /\ k - 1 \in 1..Len(q) /\ j <= k - 1
            /\ r[k] = q[k - 1] /\ r[j] = q[j]
        BY <2>5, <1>2, <1>4
      <3>2. mem[q[j]].due <= mem[q[k - 1]].due
        BY <3>1 DEF Sorted
      <3>3. new[q[j]] = mem[q[j]] /\ new[q[k - 1]] = mem[q[k - 1]]
        BY <3>1, <2>5, <1>2, <1>3, <1>4
      <3> QED BY <3>1, <3>2, <3>3
    <2>6. CASE j > i + 1 /\ k > i + 1
      <3>1. /\ j - 1 \in 1..Len(q) /\ k - 1 \in 1..Len(q) /\ j - 1 <= k - 1
            /\ r[k] = q[k - 1] /\ r[j] = q[j - 1]
        BY <2>6, <1>2, <1>4
      <3>2. mem[q[j - 1]].due <= mem[q[k - 1]].due
        BY <3>1 DEF Sorted
      <3>3. new[q[j - 1]] = mem[q[j - 1]] /\ new[q[k - 1]] = mem[q[k - 1]]
        BY <3>1, <1>3, <1>4
      <3> QED BY <3>1, <3>2, <3>3
    <2> QED BY <2>1, <2>2, <2>3, <2>4, <2>5, <2>6
  <1> QED BY <1>2, <1>3, <1>5, <1>6 DEF new, rec, r

(* Nor does a change that leaves the times alone disturb the queue.        *)
LEMMA SameTimes ==
    ASSUME NEW mem \in Memory, NEW new \in Memory, NEW q \in Seq(Addrs),
           \A a \in Addrs : (new[a] = Free <=> mem[a] = Free) /\ new[a].due = mem[a].due,
           Linked(mem, q), Sorted(mem, q)
    PROVE  Linked(new, q) /\ Sorted(new, q)
  <1>1. \A i \in 1..Len(q) : q[i] \in Addrs
    OBVIOUS
  <1> QED BY <1>1 DEF Linked, Sorted

(* Enqueue in a memory that differs from elem in cancellations only.       *)
LEMMA EnqueueStep ==
    ASSUME TypeOK, Linked(elem, queue), Sorted(elem, queue),
           NEW mem \in Memory,
           \A a \in Addrs : (mem[a] = Free <=> elem[a] = Free) /\ mem[a].due = elem[a].due,
           NEW e \in Events, NEW due \in 1..MaxWhen,
           Enqueue(mem, e, due)
    PROVE  /\ elem' \in Memory /\ queue' \in Seq(Addrs)
           /\ q_el' \in [Events -> Addrs \cup {NULL}]
           /\ Linked(elem', queue') /\ Sorted(elem', queue')
           /\ \E a \in Addrs :
                 /\ elem[a] = Free
                 /\ elem' = [mem EXCEPT ![a] = [ev |-> e, due |-> due, bCancel |-> FALSE]]
                 /\ q_el' = [q_el EXCEPT ![e] = a]
  <1>1. elem \in Memory /\ queue \in Seq(Addrs) /\ q_el \in [Events -> Addrs \cup {NULL}]
    BY DEF TypeOK, Memory, Element
  <1>2. PICK a \in Addrs :
          /\ mem[a] = Free
          /\ elem' = [mem EXCEPT ![a] = [ev |-> e, due |-> due, bCancel |-> FALSE]]
          /\ q_el' = [q_el EXCEPT ![e] = a]
          /\ \E i \in 0..Len(queue) :
                /\ \A j \in 1..Len(queue) : elem[queue[j]].due <= due <=> j <= i
                /\ queue' = InsertAt(queue, i + 1, a)
    BY DEF Enqueue
  <1>3. PICK i \in 0..Len(queue) :
          /\ \A j \in 1..Len(queue) : elem[queue[j]].due <= due <=> j <= i
          /\ queue' = InsertAt(queue, i + 1, a)
    BY <1>2
  <1>4. \A j \in 1..Len(queue) : mem[queue[j]].due <= due <=> j <= i
    BY <1>1, <1>3
  <1>5. Linked(mem, queue) /\ Sorted(mem, queue)
    BY <1>1, SameTimes
  <1>6. due \in 0..MaxWhen
    BY EventAssumption
  <1>7. /\ elem' \in Memory /\ queue' \in Seq(Addrs)
        /\ Linked(elem', queue') /\ Sorted(elem', queue')
    BY <1>1, <1>2, <1>3, <1>4, <1>5, <1>6, InsertKeepsOrder
  <1>8. q_el' \in [Events -> Addrs \cup {NULL}]
    BY <1>1, <1>2
  <1> QED BY <1>2, <1>7, <1>8

(* What a write through q_el changes.                                      *)
LEMMA CancelElementFacts ==
    ASSUME TypeOK, NEW e \in Events
    PROVE  LET new == CancelElement(e) IN
           /\ new \in Memory
           /\ \A a \in Addrs :
                 /\ new[a] = Free <=> elem[a] = Free
                 /\ new[a].due = elem[a].due
                 /\ new[a].ev = elem[a].ev
                 /\ new[a].bCancel <=> elem[a].bCancel \/ (a = q_el[e] /\ elem[a] # Free)
  <1> DEFINE new == CancelElement(e)
  <1>1. elem \in Memory /\ q_el[e] \in Addrs \cup {NULL} /\ NULL \notin Addrs
    BY EventAssumption DEF TypeOK, Memory, Element
  <1>2. CASE q_el[e] = NULL \/ elem[q_el[e]] = Free
    BY <1>1, <1>2 DEF CancelElement
  <1>3. CASE q_el[e] # NULL /\ elem[q_el[e]] # Free
    <2>1. q_el[e] \in Addrs /\ elem[q_el[e]] \in Element
      BY <1>1, <1>3 DEF Memory
    <2>2. new = [elem EXCEPT ![q_el[e]].bCancel = TRUE]
      BY <1>3 DEF CancelElement
    <2> DEFINE rec == [elem[q_el[e]] EXCEPT !.bCancel = TRUE]
    <2>3. /\ rec \in Element /\ rec.ev = elem[q_el[e]].ev /\ rec.bCancel = TRUE
          /\ rec.due = elem[q_el[e]].due /\ rec # Free
      BY <2>1 DEF Element, Free
    <2>4. new = [elem EXCEPT ![q_el[e]] = rec]
      BY <2>2
    <2> HIDE DEF rec
    <2> QED BY <1>1, <1>3, <2>1, <2>3, <2>4 DEF Memory
  <1> QED BY <1>2, <1>3
-----------------------------------------------------------------------------
(* IInv is inductive: one lemma for each kind of step.                     *)
LEMMA InitStep == Init => IInv
  <1> SUFFICES ASSUME Init PROVE IInv
    OBVIOUS
  <1>1. TypeOK
    <2>1. queue \in Seq(Addrs)
      BY DEF Init
    <2>2. elem \in [Addrs -> [ev : Events, due : 0..MaxWhen, bCancel : BOOLEAN]
                               \cup {Free}]
      BY DEF Init
    <2>3. nReset \in 0..MaxReset
      BY EventAssumption DEF Init
    <2> QED BY <2>1, <2>2, <2>3 DEF Init, TypeOK
  <1>2. Linked(elem, queue) /\ Sorted(elem, queue)
    BY DEF Init, Linked, Sorted
  <1>3. NoneOverdue /\ LiveElements
    BY DEF Init, NoneOverdue, LiveElements
  <1>4. OwnersAndHandler
    BY DEF Init, OwnersAndHandler
  <1>5. NotLost
    BY EventAssumption DEF Init, NotLost, Exists, Free
  <1> QED BY <1>1, <1>2, <1>3, <1>4, <1>5 DEF IInv

(* event_create_ex: the new event has one element, for a later pulse.      *)
LEMMA CreateStep ==
    ASSUME IInv, NEW when \in -1..MaxWhen, event_create(when)
    PROVE  IInv'
  <1> DEFINE due == IF when < 1 THEN 1 ELSE when
  <1>1. due \in 1..MaxWhen
    BY EventAssumption
  <1> HIDE DEF due
  <1>2. PICK e \in Events :
          /\ ~Exists(e)
          /\ held' = held \cup {e}
          /\ is_processing' = [is_processing EXCEPT ![e] = FALSE]
          /\ is_force_to_end' = [is_force_to_end EXCEPT ![e] = FALSE]
          /\ cancelled' = cancelled \ {e} /\ scheduled' = scheduled \cup {e}
          /\ victims' = victims \ {e}
          /\ Enqueue(elem, e, due)
    BY DEF event_create, due
  <1>3. UNCHANGED <<running, pulsing, nReset>>
    BY DEF event_create
  <1>4. /\ TypeOK /\ elem \in Memory /\ q_el \in [Events -> Addrs \cup {NULL}]
        /\ NULL \notin Events /\ NULL \notin Addrs
    BY EventAssumption DEF IInv, TypeOK, Memory, Element
  <1>5. /\ elem' \in Memory /\ queue' \in Seq(Addrs)
        /\ q_el' \in [Events -> Addrs \cup {NULL}]
        /\ Linked(elem', queue') /\ Sorted(elem', queue')
        /\ \E a \in Addrs :
              /\ elem[a] = Free
              /\ elem' = [elem EXCEPT ![a] = [ev |-> e, due |-> due, bCancel |-> FALSE]]
              /\ q_el' = [q_el EXCEPT ![e] = a]
    BY <1>1, <1>2, <1>4, EnqueueStep DEF IInv
  <1>6. PICK a \in Addrs :
              /\ elem[a] = Free
              /\ elem' = [elem EXCEPT ![a] = [ev |-> e, due |-> due, bCancel |-> FALSE]]
              /\ q_el' = [q_el EXCEPT ![e] = a]
    BY <1>5
  <1>7. /\ elem'[a].ev = e /\ elem'[a].due = due /\ ~elem'[a].bCancel
        /\ \A b \in Addrs : b # a => elem'[b] = elem[b]
        /\ \A b \in Addrs : elem[b].ev # e
        /\ q_el'[e] = a /\ \A f \in Events : f # e => q_el'[f] = q_el[f]
        /\ e # running /\ e \notin held
    <2>1. /\ elem'[a] = [ev |-> e, due |-> due, bCancel |-> FALSE]
          /\ \A b \in Addrs : b # a => elem'[b] = elem[b]
      BY <1>4, <1>6 DEF Memory
    <2>2. q_el'[e] = a /\ \A f \in Events : f # e => q_el'[f] = q_el[f]
      BY <1>4, <1>6
    <2>3. e # running /\ e \notin held /\ \A b \in Addrs : elem[b].ev # e
      BY <1>2 DEF Exists
    <2> QED BY <2>1, <2>2, <2>3
  <1>8. \A b \in Addrs : elem[b] # Free => elem[b].ev \in Events
    BY <1>4 DEF Memory, Element
  <1>9. TypeOK'
    BY <1>2, <1>3, <1>4, <1>5 DEF TypeOK, Memory, Element
  <1>10. NoneOverdue'
    BY <1>1, <1>3, <1>7 DEF IInv, NoneOverdue
  <1>11. LiveElements'
    <2> SUFFICES ASSUME NEW b \in Addrs, elem'[b] # Free, ~elem'[b].bCancel
                 PROVE  /\ q_el'[elem'[b].ev] = b
                        /\ ~is_processing'[elem'[b].ev]
                        /\ elem'[b].ev \notin cancelled'
                        /\ elem'[b].ev \in scheduled' => elem'[b].due > 0
      BY DEF LiveElements
    <2>1. CASE b = a
      BY <2>1, <1>1, <1>2, <1>4, <1>7 DEF TypeOK
    <2>2. CASE b # a
      <3>1. elem'[b] = elem[b] /\ elem[b].ev \in Events /\ elem[b].ev # e
        BY <2>2, <1>7, <1>8
      <3>2. /\ q_el[elem[b].ev] = b /\ ~is_processing[elem[b].ev]
            /\ elem[b].ev \notin cancelled
            /\ elem[b].ev \in scheduled => elem[b].due > 0
        BY <3>1 DEF IInv, LiveElements
      <3> QED BY <3>1, <3>2, <1>2, <1>4, <1>7 DEF TypeOK
    <2> QED BY <2>1, <2>2
  <1>12. OwnersAndHandler'
    BY <1>2, <1>3, <1>4, <1>7 DEF IInv, OwnersAndHandler, TypeOK
  <1>13. NotLost'
    <2> SUFFICES ASSUME NEW f \in Events, f \notin victims', Exists(f)',
                        ~is_processing'[f], f \notin cancelled'
                 PROVE  q_el'[f] \in Addrs /\ elem'[q_el'[f]].ev = f
                        /\ ~elem'[q_el'[f]].bCancel
      BY DEF NotLost
    <2>1. CASE f = e
      BY <2>1, <1>7
    <2>2. CASE f # e
      <3>1. f \notin victims /\ f \notin cancelled /\ ~is_processing[f] /\ Exists(f)
        BY <2>2, <1>2, <1>3, <1>4, <1>7 DEF Exists, TypeOK
      <3>2. q_el[f] \in Addrs /\ elem[q_el[f]].ev = f /\ ~elem[q_el[f]].bCancel
        BY <3>1 DEF IInv, NotLost
      <3>3. q_el[f] # a
        BY <3>2, <1>4, <1>6 DEF Free
      <3> QED BY <3>2, <3>3, <2>2, <1>7
    <2> QED BY <2>1, <2>2
  <1> QED BY <1>5, <1>9, <1>10, <1>11, <1>12, <1>13 DEF IInv

(* event_cancel: what it cancels is the event's element, or a victim's.    *)
LEMMA CancelStep ==
    ASSUME IInv, NEW e \in Events, event_cancel(e)
    PROVE  IInv'
  <1>1. /\ e \in held
        /\ held' = held \ {e}
        /\ is_force_to_end' = [is_force_to_end EXCEPT ![e] = @ \/ is_processing[e]]
        /\ elem' = CancelElement(e)
        /\ cancelled' = cancelled \cup {e} /\ victims' = victims \cup Victims(e)
        /\ UNCHANGED <<queue, q_el, is_processing, running, pulsing, nReset, scheduled>>
    BY DEF event_cancel
  <1>2. /\ TypeOK /\ elem \in Memory /\ NULL \notin Events /\ NULL \notin Addrs
    BY EventAssumption DEF IInv, TypeOK, Memory, Element
  <1>3. /\ elem' \in Memory
        /\ \A a \in Addrs :
              /\ elem'[a] = Free <=> elem[a] = Free
              /\ elem'[a].due = elem[a].due
              /\ elem'[a].ev = elem[a].ev
              /\ elem'[a].bCancel <=> elem[a].bCancel \/ (a = q_el[e] /\ elem[a] # Free)
    BY <1>1, <1>2, CancelElementFacts
  <1>4. Linked(elem', queue') /\ Sorted(elem', queue')
    BY <1>1, <1>2, <1>3, SameTimes DEF IInv, TypeOK
  <1>5. TypeOK'
    <2>1. is_force_to_end' \in [Events -> BOOLEAN]
      BY <1>1, <1>2 DEF TypeOK
    <2>2. victims' \subseteq Events
      <3>1. Victims(e) \subseteq Events
        BY <1>2 DEF Victims, TypeOK, Free
      <3> QED BY <3>1, <1>1, <1>2 DEF TypeOK
    <2> QED BY <1>1, <1>2, <1>3, <2>1, <2>2 DEF TypeOK, Memory, Element
  <1>6. NoneOverdue'
    BY <1>1, <1>3 DEF IInv, NoneOverdue
  <1>7. \A b \in Addrs : elem[b] # Free => elem[b].ev \in Events
    BY <1>2 DEF Memory, Element
  <1>8. LiveElements'
    <2> SUFFICES ASSUME NEW b \in Addrs, elem'[b] # Free, ~elem'[b].bCancel
                 PROVE  /\ q_el'[elem'[b].ev] = b
                        /\ ~is_processing'[elem'[b].ev]
                        /\ elem'[b].ev \notin cancelled'
                        /\ elem'[b].ev \in scheduled' => elem'[b].due > 0
      BY DEF LiveElements
    <2>1. elem[b] # Free /\ ~elem[b].bCancel /\ elem[b].ev = elem'[b].ev /\ b # q_el[e]
      BY <1>3
    <2>2. /\ q_el[elem[b].ev] = b /\ ~is_processing[elem[b].ev]
          /\ elem[b].ev \notin cancelled
          /\ elem[b].ev \in scheduled => elem[b].due > 0
      BY <2>1 DEF IInv, LiveElements
    <2> QED BY <2>1, <2>2, <1>1, <1>3
  <1>9. OwnersAndHandler'
    <2>1. held' \cap cancelled' = {}
      BY <1>1 DEF IInv, OwnersAndHandler
    <2>2. ASSUME running' # NULL
          PROVE  /\ is_processing'[running']
                 /\ running' \in cancelled' => is_force_to_end'[running']
      <3>1. /\ running \in Events /\ is_processing[running]
            /\ running \in cancelled => is_force_to_end[running]
        BY <2>2, <1>1, <1>2 DEF IInv, OwnersAndHandler, TypeOK
      <3> QED BY <3>1, <1>1, <1>2 DEF TypeOK
    <2> QED BY <2>1, <2>2 DEF OwnersAndHandler
  <1>10. NotLost'
    <2> SUFFICES ASSUME NEW f \in Events, f \notin victims', Exists(f)',
                        ~is_processing'[f], f \notin cancelled'
                 PROVE  q_el'[f] \in Addrs /\ elem'[q_el'[f]].ev = f
                        /\ ~elem'[q_el'[f]].bCancel
      BY DEF NotLost
    <2>1. f # e /\ f \notin victims /\ f \notin cancelled /\ ~is_processing[f]
      BY <1>1
    <2>2. Exists(f)
      BY <1>1, <1>3 DEF Exists
    <2>3. q_el[f] \in Addrs /\ elem[q_el[f]].ev = f /\ ~elem[q_el[f]].bCancel
      BY <2>1, <2>2 DEF IInv, NotLost
    <2>4. q_el[f] # q_el[e]
      <3>1. q_el[e] # NULL => Victims(e) = {elem[q_el[e]].ev} \ {NULL, e}
        BY DEF Victims
      <3> QED BY <3>1, <2>1, <2>3, <1>1, <1>2
    <2> QED BY <2>3, <2>4, <1>1, <1>3
  <1> QED BY <1>3, <1>4, <1>5, <1>6, <1>8, <1>9, <1>10 DEF IInv

(* event_reset_time: the old element is cancelled, the new one is q_el's.   *)
LEMMA ResetStep ==
    ASSUME IInv, NEW e \in Events, event_reset_time(e)
    PROVE  IInv'
  <1>1. /\ e \in held /\ ~is_processing[e] /\ nReset < MaxReset
        /\ nReset' = nReset + 1
        /\ Enqueue(CancelElement(e), e, 1)
        /\ scheduled' = scheduled \cup {e} /\ victims' = victims \cup Victims(e)
        /\ UNCHANGED <<flags, held, running, pulsing, cancelled>>
    BY DEF event_reset_time
  <1>2. /\ TypeOK /\ elem \in Memory /\ q_el \in [Events -> Addrs \cup {NULL}]
        /\ NULL \notin Events /\ NULL \notin Addrs
    BY EventAssumption DEF IInv, TypeOK, Memory, Element
  <1> DEFINE mem == CancelElement(e)
  <1>3. /\ mem \in Memory
        /\ \A a \in Addrs :
              /\ mem[a] = Free <=> elem[a] = Free
              /\ mem[a].due = elem[a].due
              /\ mem[a].ev = elem[a].ev
              /\ mem[a].bCancel <=> elem[a].bCancel \/ (a = q_el[e] /\ elem[a] # Free)
    BY <1>2, CancelElementFacts
  <1>4. Enqueue(mem, e, 1)
    BY <1>1
  <1> HIDE DEF mem
  <1>5. /\ elem' \in Memory /\ queue' \in Seq(Addrs)
        /\ q_el' \in [Events -> Addrs \cup {NULL}]
        /\ Linked(elem', queue') /\ Sorted(elem', queue')
        /\ \E a \in Addrs :
              /\ elem[a] = Free
              /\ elem' = [mem EXCEPT ![a] = [ev |-> e, due |-> 1, bCancel |-> FALSE]]
              /\ q_el' = [q_el EXCEPT ![e] = a]
    <2>1. 1 \in 1..MaxWhen
      BY EventAssumption
    <2> QED BY <2>1, <1>2, <1>3, <1>4, EnqueueStep DEF IInv
  <1>6. PICK a \in Addrs :
              /\ elem[a] = Free
              /\ elem' = [mem EXCEPT ![a] = [ev |-> e, due |-> 1, bCancel |-> FALSE]]
              /\ q_el' = [q_el EXCEPT ![e] = a]
    BY <1>5
  <1>7. /\ elem'[a] = [ev |-> e, due |-> 1, bCancel |-> FALSE]
        /\ \A b \in Addrs : b # a => elem'[b] = mem[b]
        /\ q_el'[e] = a /\ \A f \in Events : f # e => q_el'[f] = q_el[f]
    <2>1. /\ elem'[a] = [ev |-> e, due |-> 1, bCancel |-> FALSE]
          /\ \A b \in Addrs : b # a => elem'[b] = mem[b]
      BY <1>3, <1>6 DEF Memory
    <2>2. q_el'[e] = a /\ \A f \in Events : f # e => q_el'[f] = q_el[f]
      BY <1>2, <1>6
    <2> QED BY <2>1, <2>2
  <1>8. TypeOK'
    <2>1. victims' \subseteq Events
      <3>1. Victims(e) \subseteq Events
        BY <1>2 DEF Victims, TypeOK, Free
      <3> QED BY <3>1, <1>1, <1>2 DEF TypeOK
    <2>2. nReset' \in 0..MaxReset
      BY <1>1, <1>2, EventAssumption DEF TypeOK
    <2> QED BY <1>1, <1>2, <1>5, <2>1, <2>2 DEF TypeOK, Memory, Element, flags
  <1>9. NoneOverdue'
    BY <1>1, <1>3, <1>7 DEF IInv, NoneOverdue
  <1>10. \A b \in Addrs : elem[b] # Free => elem[b].ev \in Events
    BY <1>2 DEF Memory, Element
  <1>11. LiveElements'
    <2> SUFFICES ASSUME NEW b \in Addrs, elem'[b] # Free, ~elem'[b].bCancel
                 PROVE  /\ q_el'[elem'[b].ev] = b
                        /\ ~is_processing'[elem'[b].ev]
                        /\ elem'[b].ev \notin cancelled'
                        /\ elem'[b].ev \in scheduled' => elem'[b].due > 0
      BY DEF LiveElements
    <2>1. CASE b = a
      BY <2>1, <1>1, <1>7 DEF IInv, OwnersAndHandler, flags
    <2>2. CASE b # a
      <3>1. elem[b] # Free /\ ~elem[b].bCancel /\ elem[b].ev = elem'[b].ev /\ b # q_el[e]
        BY <2>2, <1>3, <1>7
      <3>2. /\ q_el[elem[b].ev] = b /\ ~is_processing[elem[b].ev]
            /\ elem[b].ev \notin cancelled
            /\ elem[b].ev \in scheduled => elem[b].due > 0
        BY <3>1 DEF IInv, LiveElements
      <3>3. elem[b].ev # e /\ elem[b].ev \in Events /\ elem'[b].due = elem[b].due
        BY <2>2, <3>1, <3>2, <1>3, <1>7, <1>10
      <3> QED BY <3>1, <3>2, <3>3, <1>1, <1>7 DEF flags
    <2> QED BY <2>1, <2>2
  <1>12. OwnersAndHandler'
    BY <1>1 DEF IInv, OwnersAndHandler, flags
  <1>13. NotLost'
    <2> SUFFICES ASSUME NEW f \in Events, f \notin victims', Exists(f)',
                        ~is_processing'[f], f \notin cancelled'
                 PROVE  q_el'[f] \in Addrs /\ elem'[q_el'[f]].ev = f
                        /\ ~elem'[q_el'[f]].bCancel
      BY DEF NotLost
    <2>1. CASE f = e
      BY <2>1, <1>7
    <2>2. CASE f # e
      <3>1. f \notin victims /\ f \notin cancelled /\ ~is_processing[f]
        BY <1>1 DEF flags
      <3>2. Exists(f)
        <4>1. CASE f \in held' \/ running' = f
          BY <4>1, <1>1 DEF Exists
        <4>2. CASE \E b \in Addrs : elem'[b].ev = f
          BY <4>2, <2>2, <1>3, <1>7 DEF Exists
        <4> QED BY <4>1, <4>2 DEF Exists
      <3>3. q_el[f] \in Addrs /\ elem[q_el[f]].ev = f /\ ~elem[q_el[f]].bCancel
        BY <3>1, <3>2 DEF IInv, NotLost
      <3>4. q_el[f] # a
        BY <3>3, <1>2, <1>6 DEF Free
      <3>5. q_el[f] # q_el[e]
        <4>1. q_el[e] # NULL => Victims(e) = {elem[q_el[e]].ev} \ {NULL, e}
          BY DEF Victims
        <4> QED BY <4>1, <2>2, <3>3, <1>1, <1>2
      <3> QED BY <3>3, <3>4, <3>5, <2>2, <1>3, <1>7
    <2> QED BY <2>1, <2>2
  <1> QED BY <1>5, <1>8, <1>9, <1>11, <1>12, <1>13 DEF IInv

(* A pulse: nothing was overdue, so no element's time becomes negative.     *)
LEMMA PulseStep ==
    ASSUME IInv, Pulse
    PROVE  IInv'
  <1>1. /\ ~pulsing /\ pulsing' = TRUE /\ scheduled' = {}
        /\ elem' = [a \in Addrs |-> IF elem[a] = Free THEN Free
                                    ELSE [elem[a] EXCEPT !.due = @ - 1]]
        /\ UNCHANGED <<queue, q_el, flags, held, running, nReset, cancelled, victims>>
    BY DEF Pulse
  <1>2. /\ TypeOK /\ elem \in Memory /\ queue \in Seq(Addrs)
    BY DEF IInv, TypeOK, Memory, Element
  <1>3. ASSUME NEW a \in Addrs
        PROVE  /\ elem'[a] \in Element \cup {Free}
               /\ elem'[a] = Free <=> elem[a] = Free
               /\ elem[a] # Free => elem'[a].due = elem[a].due - 1 /\ elem[a].due \in Nat
               /\ elem'[a].ev = elem[a].ev /\ elem'[a].bCancel = elem[a].bCancel
    <2>1. CASE elem[a] = Free
      BY <2>1, <1>1
    <2>2. CASE elem[a] # Free
      <3>1. elem[a] \in Element /\ elem[a].due > 0
        BY <2>2, <1>1, <1>2 DEF Memory, IInv, NoneOverdue
      <3>2. elem'[a] = [elem[a] EXCEPT !.due = @ - 1]
        BY <2>2, <1>1
      <3>3. /\ elem'[a] \in Element /\ elem'[a].due = elem[a].due - 1
            /\ elem'[a].ev = elem[a].ev /\ elem'[a].bCancel = elem[a].bCancel
            /\ elem[a].due \in Nat
        BY <3>1, <3>2, EventAssumption DEF Element
      <3>4. elem'[a] # Free
        BY <3>3, EventAssumption DEF Element, Free
      <3> QED BY <3>3, <3>4, <2>2
    <2> QED BY <2>1, <2>2
  <1>4. elem' \in Memory
    BY <1>1, <1>3 DEF Memory
  <1>5. Linked(elem', queue') /\ Sorted(elem', queue')
    <2>1. \A i \in 1..Len(queue) : queue[i] \in Addrs /\ elem[queue[i]] # Free
      BY <1>2 DEF IInv, Linked
    <2>2. Linked(elem', queue')
      BY <2>1, <1>1, <1>3 DEF IInv, Linked
    <2>3. Sorted(elem', queue')
      <3> SUFFICES ASSUME NEW i \in 1..Len(queue), NEW j \in 1..Len(queue), i <= j
                   PROVE  elem'[queue[i]].due <= elem'[queue[j]].due
        BY <1>1 DEF Sorted
      <3>1. elem[queue[i]].due <= elem[queue[j]].due
        BY DEF IInv, Sorted
      <3> QED BY <3>1, <2>1, <1>3
    <2> QED BY <2>2, <2>3
  <1>6. TypeOK'
    BY <1>1, <1>2, <1>4 DEF TypeOK, Memory, Element, flags
  <1>7. NoneOverdue'
    BY <1>1 DEF NoneOverdue
  <1>8. LiveElements'
    BY <1>1, <1>3 DEF IInv, LiveElements, flags
  <1>9. OwnersAndHandler'
    BY <1>1 DEF IInv, OwnersAndHandler, flags
  <1>10. NotLost'
    <2>1. \A f \in Events : Exists(f)' => Exists(f)
      BY <1>1, <1>3 DEF Exists
    <2> QED BY <2>1, <1>1, <1>3 DEF IInv, NotLost, flags
  <1> QED BY <1>4, <1>5, <1>6, <1>7, <1>8, <1>9, <1>10 DEF IInv

(* What taking the first element out does to the queue.                    *)
LEMMA DequeueFacts ==
    ASSUME IInv, NEW c \in BOOLEAN, Dequeue(c)
    PROVE  /\ pulsing /\ running = NULL
           /\ Head(queue) \in Addrs
           /\ elem[Head(queue)] \in Element /\ elem[Head(queue)] # Free
           /\ elem[Head(queue)].due <= 0 /\ elem[Head(queue)].bCancel = c
           /\ elem' \in Memory /\ queue' \in Seq(Addrs)
           /\ Linked(elem', queue') /\ Sorted(elem', queue')
           /\ elem'[Head(queue)] = Free
           /\ \A a \in Addrs : a # Head(queue) => elem'[a] = elem[a]
  <1> DEFINE h == Head(queue)
  <1>1. /\ elem \in Memory /\ queue \in Seq(Addrs) /\ queue # <<>>
        /\ Linked(elem, queue) /\ Sorted(elem, queue)
    BY DEF IInv, TypeOK, Memory, Element, Dequeue
  <1>2. /\ pulsing /\ running = NULL /\ elem[h].due <= 0 /\ elem[h].bCancel = c
        /\ queue' = Tail(queue) /\ elem' = [elem EXCEPT ![h] = Free]
    BY DEF Dequeue
  <1>3. h \in Addrs /\ h = queue[1] /\ Len(queue) \in Nat /\ Len(queue) >= 1
    BY <1>1
  <1>4. /\ queue' \in Seq(Addrs) /\ Len(queue') = Len(queue) - 1
        /\ \A i \in 1..Len(queue') : queue'[i] = queue[i + 1]
    BY <1>1, <1>2, HeadTailProperties
  <1> HIDE DEF h
  <1>5. elem[h] # Free /\ elem[h] \in Element
    BY <1>1, <1>3 DEF Linked, Memory
  <1>6. /\ elem' \in Memory /\ elem'[h] = Free
        /\ \A a \in Addrs : a # h => elem'[a] = elem[a]
    BY <1>1, <1>2, <1>3 DEF Memory
  <1>7. ASSUME NEW i \in 1..Len(queue')
        PROVE  /\ i + 1 \in 1..Len(queue) /\ queue'[i] = queue[i + 1]
               /\ queue[i + 1] \in Addrs /\ queue[i + 1] # h
    BY <1>1, <1>3, <1>4 DEF Linked
  <1>8. Linked(elem', queue')
    <2>1. ASSUME NEW i \in 1..Len(queue'), NEW j \in 1..Len(queue'), queue'[i] = queue'[j]
          PROVE  i = j
      <3>1. i + 1 = j + 1
        BY <2>1, <1>1, <1>7 DEF Linked
      <3> QED BY <3>1, <1>3, <1>4
    <2>2. ASSUME NEW i \in 1..Len(queue')
          PROVE  elem'[queue'[i]] # Free
      BY <1>1, <1>6, <1>7 DEF Linked
    <2>3. ASSUME NEW a \in Addrs, elem'[a] # Free
          PROVE  \E i \in 1..Len(queue') : queue'[i] = a
      <3>1. a # h /\ elem[a] # Free
        BY <2>3, <1>6
      <3>2. PICK i \in 1..Len(queue) : queue[i] = a
        BY <3>1, <1>1 DEF Linked
      <3>3. i - 1 \in 1..Len(queue') /\ (i - 1) + 1 = i
        BY <3>1, <3>2, <1>3, <1>4
      <3> QED BY <3>2, <3>3, <1>4
    <2> QED BY <2>1, <2>2, <2>3 DEF Linked
  <1>9. Sorted(elem', queue')
    <2> SUFFICES ASSUME NEW i \in 1..Len(queue'), NEW j \in 1..Len(queue'), i <= j
                 PROVE  elem'[queue'[i]].due <= elem'[queue'[j]].due
      BY DEF Sorted
    <2>1. i + 1 <= j + 1
      BY <1>3, <1>4
    <2>2. elem[queue[i + 1]].due <= elem[queue[j + 1]].due
      BY <2>1, <1>1, <1>7 DEF Sorted
    <2> QED BY <2>2, <1>6, <1>7
  <1> QED BY <1>2, <1>3, <1>4, <1>5, <1>6, <1>8, <1>9 DEF h

(* A cancelled element is deleted without a trace.                         *)
LEMMA SkipStep ==
    ASSUME IInv, SkipCancelled
    PROVE  IInv'
  <1>1. /\ Dequeue(TRUE)
        /\ UNCHANGED <<q_el, flags, held, running, pulsing, nReset, history>>
    BY DEF SkipCancelled
  <1> DEFINE h == Head(queue)
  <1>2. /\ pulsing /\ h \in Addrs /\ elem[h].bCancel
        /\ elem' \in Memory /\ queue' \in Seq(Addrs)
        /\ Linked(elem', queue') /\ Sorted(elem', queue')
        /\ elem'[h] = Free /\ \A a \in Addrs : a # h => elem'[a] = elem[a]
    BY <1>1, DequeueFacts
  <1> HIDE DEF h
  <1>3. TypeOK'
    BY <1>1, <1>2 DEF IInv, TypeOK, Memory, Element, flags, history
  <1>4. NoneOverdue'
    BY <1>1, <1>2 DEF NoneOverdue
  <1>5. LiveElements'
    BY <1>1, <1>2 DEF IInv, LiveElements, flags, history
  <1>6. OwnersAndHandler'
    BY <1>1 DEF IInv, OwnersAndHandler, flags, history
  <1>7. NotLost'
    <2>1. \A f \in Events : Exists(f)' => Exists(f)
      BY <1>1, <1>2, EventAssumption DEF Exists, Free
    <2> QED BY <2>1, <1>1, <1>2 DEF IInv, NotLost, flags, history
  <1> QED BY <1>2, <1>3, <1>4, <1>5, <1>6, <1>7 DEF IInv

(* Besides the invariant: the event that starts is not cancelled and was   *)
(* not queued in this pulse.                                               *)
LEMMA StartStep ==
    ASSUME IInv, StartHandler
    PROVE  IInv' /\ running' \notin cancelled /\ running' \notin scheduled
  <1> DEFINE h == Head(queue)
             e == elem[h].ev
  <1>1. /\ Dequeue(FALSE)
        /\ running' = e
        /\ is_processing' = [is_processing EXCEPT ![e] = TRUE]
        /\ UNCHANGED <<q_el, is_force_to_end, held, pulsing, nReset, history>>
    BY DEF StartHandler
  <1>2. /\ pulsing /\ h \in Addrs /\ elem[h] \in Element /\ elem[h] # Free
        /\ elem[h].due <= 0 /\ ~elem[h].bCancel
        /\ elem' \in Memory /\ queue' \in Seq(Addrs)
        /\ Linked(elem', queue') /\ Sorted(elem', queue')
        /\ elem'[h] = Free /\ \A a \in Addrs : a # h => elem'[a] = elem[a]
    BY <1>1, DequeueFacts
  <1>3. e \in Events /\ elem[h].due \in 0..MaxWhen
    BY <1>2 DEF Element
  <1>4. /\ q_el[e] = h /\ ~is_processing[e] /\ e \notin cancelled
        /\ e \notin scheduled
    BY <1>2, <1>3, EventAssumption DEF IInv, LiveElements
  <1> HIDE DEF h, e
  <1>5. TypeOK /\ \A b \in Addrs : elem[b] # Free => elem[b].ev \in Events
    BY DEF IInv, TypeOK
  <1>6. /\ is_processing' \in [Events -> BOOLEAN] /\ is_processing'[e]
        /\ \A f \in Events : f # e => (is_processing'[f] <=> is_processing[f])
    BY <1>1, <1>3, <1>5 DEF TypeOK
  <1>7. TypeOK'
    BY <1>1, <1>2, <1>3, <1>5, <1>6 DEF TypeOK, Memory, Element, history
  <1>8. NoneOverdue'
    BY <1>1, <1>2 DEF NoneOverdue
  <1>9. LiveElements'
    <2> SUFFICES ASSUME NEW b \in Addrs, elem'[b] # Free, ~elem'[b].bCancel
                 PROVE  /\ q_el'[elem'[b].ev] = b
                        /\ ~is_processing'[elem'[b].ev]
                        /\ elem'[b].ev \notin cancelled'
                        /\ elem'[b].ev \in scheduled' => elem'[b].due > 0
      BY DEF LiveElements
    <2>1. b # h /\ elem'[b] = elem[b] /\ elem[b].ev \in Events
      BY <1>2, <1>5
    <2>2. /\ q_el[elem[b].ev] = b /\ ~is_processing[elem[b].ev]
          /\ elem[b].ev \notin cancelled
          /\ elem[b].ev \in scheduled => elem[b].due > 0
      BY <2>1 DEF IInv, LiveElements
    <2>3. elem[b].ev # e
      BY <2>1, <2>2, <1>4
    <2> QED BY <2>1, <2>2, <2>3, <1>1, <1>6 DEF history
  <1>10. OwnersAndHandler'
    BY <1>1, <1>4, <1>6 DEF IInv, OwnersAndHandler, history
  <1>11. NotLost'
    <2> SUFFICES ASSUME NEW f \in Events, f \notin victims', Exists(f)',
                        ~is_processing'[f], f \notin cancelled'
                 PROVE  q_el'[f] \in Addrs /\ elem'[q_el'[f]].ev = f
                        /\ ~elem'[q_el'[f]].bCancel
      BY DEF NotLost
    <2>1. f # e /\ f \notin victims /\ f \notin cancelled /\ ~is_processing[f]
      BY <1>1, <1>6 DEF history
    <2>2. Exists(f)
      BY <2>1, <1>1, <1>2, EventAssumption DEF Exists, Free
    <2>3. q_el[f] \in Addrs /\ elem[q_el[f]].ev = f /\ ~elem[q_el[f]].bCancel
      BY <2>1, <2>2 DEF IInv, NotLost
    <2>4. q_el[f] # h
      BY <2>1, <2>3 DEF e
    <2> QED BY <2>3, <2>4, <1>1, <1>2
  <1> QED BY <1>1, <1>2, <1>4, <1>7, <1>8, <1>9, <1>10, <1>11 DEF IInv

(* The owner forgets its event while the function runs.                    *)
LEMMA ForgetStep ==
    ASSUME IInv, HandlerForgets
    PROVE  IInv'
  <1>1. /\ running \in held /\ held' = held \ {running}
        /\ UNCHANGED <<elem, queue, q_el, flags, running, pulsing, nReset, history>>
    BY DEF HandlerForgets
  <1>2. TypeOK' /\ NoneOverdue' /\ LiveElements' /\ OwnersAndHandler'
    BY <1>1 DEF IInv, TypeOK, NoneOverdue, LiveElements, OwnersAndHandler, flags, history
  <1>3. Linked(elem', queue') /\ Sorted(elem', queue')
    BY <1>1 DEF IInv, Linked, Sorted
  <1>4. NotLost'
    <2>1. \A f \in Events : Exists(f)' => Exists(f)
      BY <1>1 DEF Exists
    <2> QED BY <2>1, <1>1 DEF IInv, NotLost, flags, history
  <1> QED BY <1>2, <1>3, <1>4 DEF IInv

(* event_process returns: the first element is not due, so none is.         *)
LEMMA ProcessedStep ==
    ASSUME IInv, Processed
    PROVE  IInv'
  <1>1. /\ queue # <<>> => elem[Head(queue)].due > 0
        /\ pulsing' = FALSE
        /\ UNCHANGED <<elem, queue, q_el, flags, held, running, nReset, history>>
    BY DEF Processed
  <1>2. TypeOK' /\ LiveElements' /\ OwnersAndHandler' /\ NotLost'
    BY <1>1 DEF IInv, TypeOK, LiveElements, OwnersAndHandler, NotLost, Exists, flags, history
  <1>3. Linked(elem', queue') /\ Sorted(elem', queue')
    BY <1>1 DEF IInv, Linked, Sorted
  <1>4. NoneOverdue'
    <2> SUFFICES ASSUME NEW a \in Addrs, elem[a] # Free
                 PROVE  elem[a].due > 0
      BY <1>1 DEF NoneOverdue
    <2>1. PICK i \in 1..Len(queue) : queue[i] = a
      BY DEF IInv, Linked
    <2>2. /\ queue \in Seq(Addrs) /\ elem \in Memory
          /\ \A j \in 1..Len(queue) : elem[queue[j]] # Free /\ queue[j] \in Addrs
      BY DEF IInv, TypeOK, Linked, Memory, Element
    <2>3. 1 \in 1..Len(queue) /\ 1 <= i /\ queue # <<>> /\ Head(queue) = queue[1]
      BY <2>1, <2>2
    <2>4. elem[queue[1]].due <= elem[a].due
      BY <2>1, <2>3 DEF IInv, Sorted
    <2>5. elem[queue[1]].due \in Nat /\ elem[a].due \in Nat
      BY <2>2, <2>3, EventAssumption DEF Memory, Element
    <2>6. elem[queue[1]].due > 0
      BY <2>3, <1>1
    <2> QED BY <2>4, <2>5, <2>6
  <1> QED BY <1>2, <1>3, <1>4 DEF IInv

(* The function returns: the event is over or has one element again.        *)
LEMMA ReturnStep ==
    ASSUME IInv, HandlerReturns
    PROVE  IInv'
  <1> DEFINE e == running
  <1>1. PICK new_time \in 0..MaxWhen :
          IF new_time <= 0 \/ is_force_to_end[e]
          THEN /\ q_el' = [q_el EXCEPT ![e] = NULL]
               /\ UNCHANGED <<elem, queue, is_processing, scheduled>>
          ELSE /\ Enqueue(elem, e, new_time)
               /\ is_processing' = [is_processing EXCEPT ![e] = FALSE]
               /\ scheduled' = scheduled \cup {e}
    BY DEF HandlerReturns
  <1>2. /\ e # NULL /\ running' = NULL
        /\ UNCHANGED <<is_force_to_end, held, pulsing, nReset, cancelled, victims>>
    BY DEF HandlerReturns
  <1>3. /\ TypeOK /\ elem \in Memory /\ q_el \in [Events -> Addrs \cup {NULL}]
        /\ NULL \notin Events /\ NULL \notin Addrs /\ e \in Events
    BY <1>2, EventAssumption DEF IInv, TypeOK, Memory, Element
  <1>4. /\ is_processing[e]
        /\ e \in cancelled => is_force_to_end[e]
    BY <1>2 DEF IInv, OwnersAndHandler
  <1>5. \A b \in Addrs : elem[b] # Free => elem[b].ev \in Events
    BY <1>3 DEF Memory, Element
  <1>6. OwnersAndHandler'
    BY <1>2 DEF IInv, OwnersAndHandler
  <1>7. CASE new_time <= 0 \/ is_force_to_end[e]
    <2>1. /\ q_el' = [q_el EXCEPT ![e] = NULL]
          /\ UNCHANGED <<elem, queue, is_processing, scheduled>>
      BY <1>1, <1>7
    <2> HIDE DEF e
    <2>2. TypeOK'
      BY <2>1, <1>2, <1>3 DEF TypeOK
    <2>3. Linked(elem', queue') /\ Sorted(elem', queue')
      BY <2>1 DEF IInv, Linked, Sorted
    <2>4. NoneOverdue'
      BY <2>1, <1>2 DEF IInv, NoneOverdue
    <2>5. LiveElements'
      BY <2>1, <1>2, <1>3, <1>4, <1>5 DEF IInv, LiveElements
    <2>6. NotLost'
      <3> SUFFICES ASSUME NEW f \in Events, f \notin victims', Exists(f)',
                          ~is_processing'[f], f \notin cancelled'
                   PROVE  q_el'[f] \in Addrs /\ elem'[q_el'[f]].ev = f
                          /\ ~elem'[q_el'[f]].bCancel
        BY DEF NotLost
      <3>1. f # e /\ f \notin victims /\ f \notin cancelled /\ ~is_processing[f]
        BY <2>1, <1>2, <1>4
      <3>2. Exists(f)
        BY <2>1, <1>2, <1>3 DEF Exists
      <3>3. q_el[f] \in Addrs /\ elem[q_el[f]].ev = f /\ ~elem[q_el[f]].bCancel
        BY <3>1, <3>2 DEF IInv, NotLost
      <3> QED BY <3>1, <3>3, <2>1, <1>3
    <2> QED BY <2>2, <2>3, <2>4, <2>5, <2>6, <1>6 DEF IInv
  <1>8. CASE ~(new_time <= 0 \/ is_force_to_end[e])
    <2>1. /\ Enqueue(elem, e, new_time)
          /\ is_processing' = [is_processing EXCEPT ![e] = FALSE]
          /\ scheduled' = scheduled \cup {e}
      BY <1>1, <1>8
    <2>2. e \notin cancelled /\ new_time \in 1..MaxWhen
      BY <1>4, <1>8
    <2> HIDE DEF e
    <2>3. /\ elem' \in Memory /\ queue' \in Seq(Addrs)
          /\ q_el' \in [Events -> Addrs \cup {NULL}]
          /\ Linked(elem', queue') /\ Sorted(elem', queue')
          /\ \E a \in Addrs :
                /\ elem[a] = Free
                /\ elem' = [elem EXCEPT ![a] = [ev |-> e, due |-> new_time, bCancel |-> FALSE]]
                /\ q_el' = [q_el EXCEPT ![e] = a]
      BY <2>1, <2>2, <1>3, EnqueueStep DEF IInv
    <2>4. PICK a \in Addrs :
                /\ elem[a] = Free
                /\ elem' = [elem EXCEPT ![a] = [ev |-> e, due |-> new_time, bCancel |-> FALSE]]
                /\ q_el' = [q_el EXCEPT ![e] = a]
      BY <2>3
    <2>5. /\ elem'[a] = [ev |-> e, due |-> new_time, bCancel |-> FALSE]
          /\ \A b \in Addrs : b # a => elem'[b] = elem[b]
      BY <2>4, <1>3 DEF Memory
    <2>6. q_el'[e] = a /\ \A f \in Events : f # e => q_el'[f] = q_el[f]
      BY <2>4, <1>3
    <2>7. /\ ~is_processing'[e]
          /\ \A f \in Events : f # e => (is_processing'[f] <=> is_processing[f])
          /\ is_processing' \in [Events -> BOOLEAN]
      BY <2>1, <1>3 DEF TypeOK
    <2>8. TypeOK'
      BY <2>1, <2>3, <2>7, <1>2, <1>3 DEF TypeOK, Memory, Element
    <2>9. NoneOverdue'
      BY <2>2, <2>5, <1>2 DEF IInv, NoneOverdue
    <2>10. LiveElements'
      <3> SUFFICES ASSUME NEW b \in Addrs, elem'[b] # Free, ~elem'[b].bCancel
                   PROVE  /\ q_el'[elem'[b].ev] = b
                          /\ ~is_processing'[elem'[b].ev]
                          /\ elem'[b].ev \notin cancelled'
                          /\ elem'[b].ev \in scheduled' => elem'[b].due > 0
        BY DEF LiveElements
      <3>1. CASE b = a
        BY <3>1, <2>2, <2>5, <2>6, <2>7, <1>2
      <3>2. CASE b # a
        <4>1. elem'[b] = elem[b] /\ elem[b].ev \in Events
          BY <3>2, <2>5, <1>5
        <4>2. /\ q_el[elem[b].ev] = b /\ ~is_processing[elem[b].ev]
              /\ elem[b].ev \notin cancelled
              /\ elem[b].ev \in scheduled => elem[b].due > 0
          BY <4>1 DEF IInv, LiveElements
        <4>3. elem[b].ev # e
          BY <4>2, <1>4
        <4> QED BY <4>1, <4>2, <4>3, <2>1, <2>6, <2>7, <1>2
      <3> QED BY <3>1, <3>2
    <2>11. NotLost'
      <3> SUFFICES ASSUME NEW f \in Events, f \notin victims', Exists(f)',
                          ~is_processing'[f], f \notin cancelled'
                   PROVE  q_el'[f] \in Addrs /\ elem'[q_el'[f]].ev = f
                          /\ ~elem'[q_el'[f]].bCancel
        BY DEF NotLost
      <3>1. CASE f = e
        BY <3>1, <2>5, <2>6
      <3>2. CASE f # e
        <4>1. f \notin victims /\ f \notin cancelled /\ ~is_processing[f]
          BY <3>2, <2>7, <1>2
        <4>2. Exists(f)
          <5>1. f \notin held' => \E b \in Addrs : elem'[b].ev = f
            BY <1>2, <1>3 DEF Exists
          <5> QED BY <5>1, <3>2, <2>5, <1>2 DEF Exists
        <4>3. q_el[f] \in Addrs /\ elem[q_el[f]].ev = f /\ ~elem[q_el[f]].bCancel
          BY <4>1, <4>2 DEF IInv, NotLost
        <4>4. q_el[f] # a
          BY <4>3, <2>4, <1>3 DEF Free
        <4> QED BY <4>3, <4>4, <3>2, <2>5, <2>6
      <3> QED BY <3>1, <3>2
    <2> QED BY <2>3, <2>8, <2>9, <2>10, <2>11, <1>6 DEF IInv
  <1> QED BY <1>7, <1>8

(* Every step preserves IInv.                                              *)
LEMMA NextStep == IInv /\ [Next]_vars => IInv'
  <1> SUFFICES ASSUME IInv, [Next]_vars PROVE IInv'
    OBVIOUS
  <1>1. CASE Call
    <2>1. CASE \E when \in -1..MaxWhen : event_create(when)
      BY <2>1, CreateStep
    <2>2. CASE \E e \in Events : event_cancel(e) \/ event_reset_time(e)
      BY <2>2, CancelStep, ResetStep
    <2> QED BY <1>1, <2>1, <2>2 DEF Call
  <1>2. CASE HandlerForgets
    BY <1>2, ForgetStep
  <1>3. CASE Pulse
    BY <1>3, PulseStep
  <1>4. CASE Loop
    BY <1>4, SkipStep, StartStep, ReturnStep, ProcessedStep DEF Loop
  <1>5. CASE UNCHANGED vars
    BY <1>5 DEF vars, flags, history, IInv, TypeOK, Linked, Sorted, NoneOverdue,
                LiveElements, OwnersAndHandler, NotLost, Exists
  <1> QED BY <1>1, <1>2, <1>3, <1>4, <1>5 DEF Next
-----------------------------------------------------------------------------
(* Types, and no element waits for a time in the past: what makes          *)
(* event_process's comparison of the top key with the pulse sufficient.    *)
THEOREM EventTypeCorrect == Spec => []TypeOK
  <1>1. IInv => TypeOK
    BY DEF IInv
  <1> QED BY <1>1, InitStep, NextStep, PTL DEF Spec

(* After event_process nothing is left that should have run.               *)
THEOREM NothingOverdue == Spec => []NoneOverdue
  <1>1. IInv => NoneOverdue
    BY DEF IInv
  <1> QED BY <1>1, InitStep, NextStep, PTL DEF Spec

(* An event waits exactly once while its owner can cancel it, and not at   *)
(* all when it was cancelled, runs or is over.                             *)
THEOREM EachScheduledOnce == Spec => []ScheduledOnce
  <1>1. ASSUME IInv PROVE ScheduledOnce
    <2> SUFFICES ASSUME NEW e \in Events, e \notin victims
                 PROVE  Waiting(e) = IF ~Exists(e) \/ is_processing[e] \/ e \in cancelled
                                     THEN {} ELSE {q_el[e]}
      BY DEF ScheduledOnce
    <2>1. \A a \in Waiting(e) : /\ a \in Addrs /\ q_el[e] = a /\ Exists(e)
                               /\ ~is_processing[e] /\ e \notin cancelled
      <3> SUFFICES ASSUME NEW a \in Addrs, elem[a].ev = e, ~elem[a].bCancel
                   PROVE  /\ q_el[e] = a /\ Exists(e)
                          /\ ~is_processing[e] /\ e \notin cancelled
        BY DEF Waiting
      <3>1. elem[a] # Free
        BY EventAssumption DEF Free
      <3> QED BY <3>1, <1>1 DEF IInv, LiveElements, Exists
    <2>2. CASE ~Exists(e) \/ is_processing[e] \/ e \in cancelled
      BY <2>1, <2>2
    <2>3. CASE ~(~Exists(e) \/ is_processing[e] \/ e \in cancelled)
      <3>1. q_el[e] \in Waiting(e)
        BY <2>3, <1>1 DEF IInv, NotLost, Waiting
      <3> QED BY <3>1, <2>1, <2>3
    <2> QED BY <2>2, <2>3
  <1> QED BY <1>1, InitStep, NextStep, PTL DEF Spec

(* No event starts after it was cancelled or in the pulse it was queued in.*)
THEOREM OnlyDueEventsStart == Spec => StartsRightly
  <1>1. ASSUME IInv, [Next]_vars, running = NULL, running' # NULL
        PROVE  running' \notin cancelled /\ running' \notin scheduled
    <2>1. StartHandler
      BY <1>1 DEF Next, Call, event_create, event_cancel, event_reset_time,
                  HandlerForgets, Pulse, Loop, SkipCancelled, HandlerReturns,
                  Processed, vars
    <2> QED BY <2>1, <1>1, StartStep
  <1>2. IInv /\ [Next]_vars => [running = NULL /\ running' # NULL
          => running' \notin cancelled /\ running' \notin scheduled]_vars
    BY <1>1
  <1> QED BY <1>2, InitStep, NextStep, PTL DEF Spec, StartsRightly
=============================================================================

--------------------------- MODULE ExchangeProofs ---------------------------
(***************************************************************************)
(* Proofs about Exchange, for any number of characters, objects, slots and *)
(* cells.  The inductive invariant, IInv, says of each open exchange that  *)
(* it has two sides, of each item that its cells are its own and that it   *)
(* is marked while it is offered, of each accept that it is one of the     *)
(* offers and counts that are there now, and of each row that its gold is  *)
(* backed.  The part before it is about Placed, the loop that CheckSpace   *)
(* and Done share: a recursive function, about which the proofs go by      *)
(* induction in the form of InductiveSet.                                  *)
(***************************************************************************)
EXTENDS Exchange, WellFoundedInduction, TLAPS

-----------------------------------------------------------------------------
(* Numbers.                                                                *)

(* A set of natural numbers has a least element.                           *)
LEMMA LeastNat ==
    ASSUME NEW S \in SUBSET Nat, S # {}
    PROVE  \E m \in S : \A k \in S : m <= k
<1>1. IsWellFoundedOn(OpToRel(<, Nat), Nat)
  BY NatLessThanWellFounded, Zenon
<1>2. \E m \in S : \A k \in S : ~(<<k, m>> \in OpToRel(<, Nat))
  BY <1>1, WFMin, Zenon
<1>3. PICK m \in S : \A k \in S : ~(<<k, m>> \in OpToRel(<, Nat))
  BY <1>2, Zenon
<1>4. \A k \in S : ~ (k < m)
  BY <1>3, Zenon DEF OpToRel
<1> QED  BY <1>4

(* Induction, for a set of natural numbers instead of a property.          *)
LEMMA InductiveSet ==
    ASSUME NEW S, 0 \in S, \A n \in Nat : n \in S => n + 1 \in S
    PROVE  Nat \subseteq S
<1> DEFINE T == Nat \ S
<1> SUFFICES ASSUME T # {} PROVE FALSE
  OBVIOUS
<1>1. PICK m \in T : \A k \in T : m <= k
  <2>1. T \in SUBSET Nat  OBVIOUS
  <2> HIDE DEF T
  <2> QED  BY <2>1, LeastNat
<1>2. m # 0
  OBVIOUS
<1>3. m - 1 \in Nat /\ m - 1 \notin T
  BY <1>1, <1>2
<1> QED  BY <1>3

(* A run of step from base, of N steps.                                    *)
Run(f, S, base, N, step) ==
    /\ f \in [0..N -> S]
    /\ f[0] = base
    /\ \A k \in 1..N : f[k] = step[<<k, f[k - 1]>>]

(* There is one, of any length.                                            *)
LEMMA Iterates ==
    ASSUME NEW S, NEW base \in S, NEW N \in Nat,
           NEW step \in [(1..N) \X S -> S]
    PROVE  \E f : Run(f, S, base, N, step)
<1> DEFINE Goes(f, n) == \A k \in 1..n : f[k] = step[<<k, f[k - 1]>>]
           Upto(n) == \E f \in [0..n -> S] : f[0] = base /\ Goes(f, n)
<1>1. Upto(0)
  <2> DEFINE f == [k \in 0..0 |-> base]
  <2>1. f \in [0..0 -> S] /\ f[0] = base /\ Goes(f, 0)
    OBVIOUS
  <2> QED  BY <2>1, Zenon
<1>2. ASSUME NEW n \in Nat, n + 1 <= N, Upto(n) PROVE Upto(n + 1)
  <2>1. PICK f \in [0..n -> S] : f[0] = base /\ Goes(f, n)
    BY <1>2, Zenon
  <2> DEFINE g == [k \in 0..(n + 1) |-> IF k <= n THEN f[k] ELSE step[<<n + 1, f[n]>>]]
  <2>2. step[<<n + 1, f[n]>>] \in S
    <3>1. <<n + 1, f[n]>> \in (1..N) \X S  BY <1>2
    <3> QED  BY <3>1
  <2>3. g \in [0..(n + 1) -> S]
    BY <2>2
  <2>4. g[0] = base
    BY <2>1
  <2>5. ASSUME NEW k \in 1..(n + 1) PROVE g[k] = step[<<k, g[k - 1]>>]
    <3>1. CASE k \in 1..n
      <4>1. g[k] = f[k] /\ g[k - 1] = f[k - 1]  BY <3>1
      <4> HIDE DEF g
      <4> QED  BY <2>1, <3>1, <4>1
    <3>2. CASE k = n + 1
      <4>1. g[k] = step[<<n + 1, f[n]>>] /\ g[k - 1] = f[n]  BY <3>2
      <4> HIDE DEF g
      <4> QED  BY <3>2, <4>1
    <3> QED  BY <3>1, <3>2
  <2> HIDE DEF g
  <2>6. Goes(g, n + 1)
    BY <2>5
  <2> QED  BY <2>3, <2>4, <2>6, Zenon
<1> HIDE DEF Upto
<1> DEFINE T == {n \in Nat : n <= N => Upto(n)}
<1>3. 0 \in T
  BY <1>1
<1>4. \A n \in Nat : n \in T => n + 1 \in T
  BY <1>2
<1>5. Nat \subseteq T
  <2> HIDE DEF T
  <2> QED  BY <1>3, <1>4, InductiveSet
<1>6. Upto(N)
  BY <1>5
<1> QED  BY <1>6, Zenon DEF Upto, Run

-----------------------------------------------------------------------------
(* Room in an inventory.                                                   *)

(* The cells of an inventory are cells.                                    *)
LEMMA Geometry ==
    ASSUME NEW c \in Chars
    PROVE  /\ InvenMax[c] \in Nat /\ Inside(c) \in SUBSET Nat
           /\ Inside(c) \subseteq Cells
           /\ NoCell \notin Inside(c)
  BY ExchangeAssumption DEF Inside, Cells, NoCell

(* What GetEmptyInventory finds is empty.                                  *)
LEMMA FirstFitFits ==
    ASSUME NEW c \in Chars, NEW free, NEW n, FirstFit(c, free, n) # NoCell
    PROVE  /\ FirstFit(c, free, n) \in Inside(c)
           /\ Cover(FirstFit(c, free, n), n) \subseteq free
<1> DEFINE S == Heads(c, free, n)
<1>1. S # {}
  BY DEF FirstFit
<1>2. S \in SUBSET Nat
  BY Geometry DEF Heads
<1> HIDE DEF S
<1>3. PICK m \in S : \A k \in S : m <= k
  BY <1>1, <1>2, LeastNat
<1> DEFINE i == CHOOSE i \in S : \A k \in S : i <= k
<1>4. i \in S
  BY <1>3
<1>5. FirstFit(c, free, n) = i
  BY <1>1 DEF FirstFit, S
<1> QED  BY <1>4, <1>5 DEF Heads, S

(* The objects in the slots, and a state of the loop in Placed: no more is *)
(* free than at first, and those that have a place have it for themselves. *)
In(slot) == {slot[s].obj : s \in {x \in Slots : slot[x] # NoItem}}

Sound(free, slot, room) ==
    /\ room.free \subseteq free
    /\ \A o \in Lands(room.at) :
          /\ o \in In(slot)
          /\ Cover(room.at[o], Size[o]) \subseteq free \ room.free
          /\ \A p \in Lands(room.at) \ {o} :
                Cover(room.at[o], Size[o]) \cap Cover(room.at[p], Size[p]) = {}

Rooms(c, free, slot) ==
    {room \in [free : SUBSET Int, at : [Objs -> Inside(c) \cup {NoCell}]] :
        Sound(free, slot, room)}

(* One object that gets a place leaves the loop in such a state.           *)
LEMMA PlaceIsSound ==
    ASSUME NEW c \in Chars, NEW free \in SUBSET Int, NEW slot,
           NEW room \in Rooms(c, free, slot), NEW o \in Objs, o \in In(slot)
    PROVE  Place(c, room, o) \in Rooms(c, free, slot)
<1> DEFINE i == FirstFit(c, room.free, Size[o])
           next == [free |-> room.free \ Cover(i, Size[o]),
                    at   |-> [room.at EXCEPT ![o] = i]]
<1>0. /\ room.free \in SUBSET Int
      /\ room.at \in [Objs -> Inside(c) \cup {NoCell}]
      /\ Sound(free, slot, room)
  BY DEF Rooms
<1>1. CASE i = NoCell
  BY <1>1 DEF Place
<1>2. CASE i # NoCell
  <2>1. i \in Inside(c) /\ Cover(i, Size[o]) \subseteq room.free
    BY <1>2, FirstFitFits
  <2> HIDE DEF i
  <2>2. /\ next.free = room.free \ Cover(i, Size[o])
        /\ next.at \in [Objs -> Inside(c) \cup {NoCell}]
        /\ \A p \in Objs : next.at[p] = IF p = o THEN i ELSE room.at[p]
    BY <1>0, <2>1
  <2>3. next \in [free : SUBSET Int, at : [Objs -> Inside(c) \cup {NoCell}]]
    BY <1>0, <2>2
  <2> HIDE DEF next
  <2>4. Lands(next.at) = Lands(room.at) \cup {o}
    BY <1>2, <2>2 DEF Lands
  <2>5. next.free \subseteq free
    BY <1>0, <2>2 DEF Sound
  <2>6. ASSUME NEW p \in Lands(next.at)
        PROVE  p \in In(slot) /\ Cover(next.at[p], Size[p]) \subseteq free \ next.free
    BY <1>0, <2>1, <2>2, <2>4 DEF Sound, Lands
  <2>7. ASSUME NEW p \in Lands(next.at), NEW q \in Lands(next.at) \ {p}
        PROVE  Cover(next.at[p], Size[p]) \cap Cover(next.at[q], Size[q]) = {}
    <3>1. CASE p = o
      BY <1>0, <2>1, <2>2, <2>4, <3>1 DEF Sound, Lands
    <3>2. CASE q = o
      BY <1>0, <2>1, <2>2, <2>4, <3>2 DEF Sound, Lands
    <3>3. CASE p # o /\ q # o
      BY <1>0, <2>2, <2>4, <3>3 DEF Sound, Lands
    <3> QED  BY <3>1, <3>2, <3>3
  <2>8. next \in Rooms(c, free, slot)
    BY <2>3, <2>5, <2>6, <2>7 DEF Rooms, Sound
  <2> QED  BY <1>2, <2>8 DEF Place, i, next
<1> QED  BY <1>1, <1>2

(* Each object that has a place in at is from the slots, and its place is  *)
(* in c's inventory, was free, and is no other object's.                   *)
Fits(c, free, slot, at) ==
    /\ at \in [Objs -> Inside(c) \cup {NoCell}]
    /\ \A o \in Lands(at) :
          /\ o \in In(slot)
          /\ Cover(at[o], Size[o]) \subseteq free
          /\ \A p \in Lands(at) \ {o} :
                Cover(at[o], Size[o]) \cap Cover(at[p], Size[p]) = {}

(* The loop of CheckSpace and Done, whatever is in the inventory and in    *)
(* the slots.                                                              *)
LEMMA PlacedFits ==
    ASSUME NEW c \in Chars, NEW free \in SUBSET Int, NEW slot \in [Slots -> Slot]
    PROVE  Fits(c, free, slot, Placed(c, free, slot))
<1> DEFINE R == Rooms(c, free, slot)
           base == [free |-> free, at |-> [o \in Objs |-> NoCell]]
           Next1(s, room) == IF slot[s] = NoItem THEN room ELSE Place(c, room, slot[s].obj)
           step == [x \in (1..NSlots) \X R |-> Next1(x[1], x[2])]
           Loop(f) == [s \in 0..NSlots |-> IF s = 0 THEN base ELSE Next1(s, f[s - 1])]
           room == CHOOSE f : f = Loop(f)
<1>0. NSlots \in Nat /\ Slots = 1..NSlots
  BY ExchangeAssumption DEF Slots
<1>1. base \in R
  <2>1. base \in [free : SUBSET Int, at : [Objs -> Inside(c) \cup {NoCell}]]
    OBVIOUS
  <2>2. Lands(base.at) = {}
    BY DEF Lands
  <2> QED  BY <2>1, <2>2 DEF Rooms, Sound
<1>2. \A s \in 1..NSlots, r \in R : Next1(s, r) \in R
  <2> SUFFICES ASSUME NEW s \in 1..NSlots, NEW r \in R, slot[s] # NoItem
               PROVE  Place(c, r, slot[s].obj) \in R
    OBVIOUS
  <2>1. slot[s].obj \in Objs /\ slot[s].obj \in In(slot)
    BY <1>0 DEF Slot, In
  <2> QED  BY <2>1, PlaceIsSound
<1> HIDE DEF R, base
<1>3. room = Loop(room)
  <2>1. step \in [(1..NSlots) \X R -> R]
    BY <1>2
  <2>2. PICK f : Run(f, R, base, NSlots, step)
    <3> HIDE DEF step
    <3> QED  BY <1>0, <1>1, <2>1, Iterates
  <2>3. \A k \in 1..NSlots : f[k] = Next1(k, f[k - 1])
    <3> TAKE k \in 1..NSlots
    <3>1. <<k, f[k - 1]>> \in (1..NSlots) \X R
      BY <1>0, <2>2 DEF Run
    <3>2. step[<<k, f[k - 1]>>] = Next1(k, f[k - 1])
      BY <3>1
    <3> HIDE DEF Next1, step
    <3> QED  BY <2>2, <3>2 DEF Run
  <2> HIDE DEF Next1
  <2>4. f = Loop(f)
    BY <1>0, <2>2, <2>3 DEF Run
  <2> QED  BY <2>4
<1> HIDE DEF room
<1>4. room[NSlots] \in R
  <2> DEFINE T == {n \in Nat : n <= NSlots => room[n] \in R}
  <2>1. 0 \in T
    BY <1>0, <1>1, <1>3
  <2>2. ASSUME NEW n \in Nat, n \in T PROVE n + 1 \in T
    <3> SUFFICES ASSUME n + 1 <= NSlots PROVE room[n + 1] \in R
      OBVIOUS
    <3>1. room[n + 1] = Next1(n + 1, room[n])
      <4> HIDE DEF Next1
      <4> QED  BY <1>0, <1>3
    <3>2. room[n] \in R
      BY <2>2, <1>0
    <3> HIDE DEF Next1
    <3> QED  BY <1>0, <1>2, <3>1, <3>2
  <2> HIDE DEF T
  <2>3. Nat \subseteq T
    BY <2>1, <2>2, InductiveSet
  <2> QED  BY <1>0, <2>3 DEF T
<1>5. Placed(c, free, slot) = room[NSlots].at
  BY DEF Placed, room, base
<1> QED  BY <1>4, <1>5 DEF R, Rooms, Sound, Fits

-----------------------------------------------------------------------------
(* Types.                                                                  *)

(* Items cover cells that are numbers.                                     *)
LEMMA Sizes ==
    /\ \A o \in Objs : Size[o] \in Nat
    /\ Cols \in Nat
    /\ \A cell \in Nat, n \in Nat : Cover(cell, n) \in SUBSET Nat
<1>1. \A o \in Objs : Size[o] \in Nat
  BY ExchangeAssumption DEF Objs
<1>2. Cols \in Nat
  BY ExchangeAssumption
<1>3. ASSUME NEW cell \in Nat, NEW n \in Nat PROVE Cover(cell, n) \in SUBSET Nat
  <2> SUFFICES ASSUME NEW j \in 0..(n - 1) PROVE cell + Cols * j \in Nat
    BY DEF Cover
  <2>1. j \in Nat  OBVIOUS
  <2> QED  BY <1>2, <2>1
<1> QED  BY <1>1, <1>2, <1>3

(* So do the items of an inventory, and what is free.                      *)
LEMMA SpotsAreCells ==
    ASSUME TypeOK, NEW c \in Chars
    PROVE  /\ Free(c) \in SUBSET Int
           /\ \A S \in SUBSET Objs : UNION {Cover(item[o].cell, Size[o]) : o \in S} \in SUBSET Int
<1>1. Free(c) \in SUBSET Int
  BY Geometry DEF Free
<1>2. \A o \in Objs : Cover(item[o].cell, Size[o]) \in SUBSET Nat
  <2> TAKE o \in Objs
  <2>1. item[o].cell \in Nat
    BY ExchangeAssumption DEF TypeOK, Item, Cells
  <2> QED  BY <2>1, Sizes
<1> QED  BY <1>1, <1>2

(* Where Done puts the objects of either side.                             *)
There(c) == Placed(with[c], Free(with[c]), exch[c].slot)
Gone(c)  == UNION {Cover(item[o].cell, Size[o]) : o \in Lands(There(c))}
Back(c)  == Placed(c, Free(c) \cup Gone(c), exch[with[c]].slot)

(* What is on offer are objects.                                           *)
LEMMA HeldObjs ==
    ASSUME TypeOK, NEW c \in Chars
    PROVE  /\ exch[c].slot \in [Slots -> Slot]
           /\ Held(c) = In(exch[c].slot)
           /\ Held(c) \subseteq Objs
<1>1. exch[c].slot \in [Slots -> Slot]
  BY DEF TypeOK
<1>2. Held(c) = In(exch[c].slot)
  BY DEF Held, Used, In
<1>3. Held(c) \subseteq Objs
  BY <1>1 DEF Held, Used, Slot
<1> QED  BY <1>1, <1>2, <1>3

(* The objects of the accepting side have places of their own with the     *)
(* other.                                                                  *)
LEMMA ThereFits ==
    ASSUME TypeOK, NEW c \in Chars, with[c] \in Chars
    PROVE  Fits(with[c], Free(with[c]), exch[c].slot, There(c))
<1>1. Free(with[c]) \in SUBSET Int
  BY SpotsAreCells
<1>2. exch[c].slot \in [Slots -> Slot]
  BY HeldObjs
<1> QED  BY <1>1, <1>2, PlacedFits DEF There

(* So have the objects of the other side, in what is left.                 *)
LEMMA BackFits ==
    ASSUME TypeOK, NEW c \in Chars, with[c] \in Chars
    PROVE  Fits(c, Free(c) \cup Gone(c), exch[with[c]].slot, Back(c))
<1>1. Free(c) \cup Gone(c) \in SUBSET Int
  <2>1. Lands(There(c)) \in SUBSET Objs
    BY DEF Lands
  <2>2. Free(c) \in SUBSET Int /\ Gone(c) \in SUBSET Int
    BY <2>1, SpotsAreCells DEF Gone
  <2> QED  BY <2>2
<1>2. exch[with[c]].slot \in [Slots -> Slot]
  BY HeldObjs
<1> QED  BY <1>1, <1>2, PlacedFits DEF Back

(* What moving some things to their new places does to each of them.       *)
LEMMA MovedFacts ==
    ASSUME NEW things \in [Objs -> Item], NEW to \in Chars, NEW at,
           \A o \in Lands(at) : at[o] \in Cells
    PROVE  /\ Moved(things, to, at) \in [Objs -> Item]
           /\ \A o \in Objs :
                 LET new == Moved(things, to, at)[o]
                 IN  /\ new.owner = IF o \in Lands(at) THEN to ELSE things[o].owner
                     /\ new.cell = IF o \in Lands(at) THEN at[o] ELSE things[o].cell
                     /\ new.count = things[o].count /\ new.ex = things[o].ex
<1>1. ASSUME NEW o \in Objs, o \in Lands(at)
      PROVE  /\ Moved(things, to, at)[o] = [things[o] EXCEPT !.owner = to, !.cell = at[o]]
             /\ [things[o] EXCEPT !.owner = to, !.cell = at[o]] \in Item
  BY <1>1 DEF Moved, Item
<1>2. ASSUME NEW o \in Objs, o \notin Lands(at)
      PROVE  Moved(things, to, at)[o] = things[o]
  BY <1>2 DEF Moved
<1>3. \A o \in Objs : things[o] \in Item
  OBVIOUS
<1>4. Moved(things, to, at) = [o \in Objs |-> Moved(things, to, at)[o]]
  BY DEF Moved
<1>5. \A o \in Objs : Moved(things, to, at)[o] \in Item
  BY <1>1, <1>2, <1>3
<1>6. Moved(things, to, at) \in [Objs -> Item]
  BY <1>4, <1>5
<1>7. ASSUME NEW o \in Objs, o \in Lands(at)
      PROVE  LET new == Moved(things, to, at)[o]
             IN  /\ new.owner = to /\ new.cell = at[o]
                 /\ new.count = things[o].count /\ new.ex = things[o].ex
  <2>1. things[o] \in Item
    BY <1>3
  <2> QED  BY <1>1, <1>7, <2>1 DEF Item
<1> QED  BY <1>2, <1>6, <1>7

(* What the second accept does to an item.                                 *)
LEMMA DoneItems ==
    ASSUME TypeOK, NEW c \in Chars, NEW zc, NEW zd, AcceptDone(c, zc, zd)
    PROVE  /\ with[c] \in Chars
           /\ item' \in [Objs -> Item]
           /\ \A o \in Objs :
                 /\ item'[o].owner = IF o \in Lands(Back(c)) THEN c
                                     ELSE IF o \in Lands(There(c)) THEN with[c]
                                     ELSE item[o].owner
                 /\ item'[o].cell  = IF o \in Lands(Back(c)) THEN Back(c)[o]
                                     ELSE IF o \in Lands(There(c)) THEN There(c)[o]
                                     ELSE item[o].cell
                 /\ item'[o].count = item[o].count
                 /\ o \in Held(c) \cup Held(with[c]) => item'[o].ex = FALSE
                 /\ o \notin Held(c) \cup Held(with[c]) => item'[o].ex = item[o].ex
<1> DEFINE d == with[c]
           there == There(c)
           back == Back(c)
           first == Moved(item, d, there)
           after == Moved(first, c, back)
<1>1. d \in Chars
  BY DEF AcceptDone, BothAccept, TypeOK
<1>2. item' = [o \in Objs |-> IF o \in Held(c) \cup Held(d)
                              THEN [after[o] EXCEPT !.ex = FALSE] ELSE after[o]]
  BY DEF AcceptDone, There, Back, Gone
<1>3. /\ there \in [Objs -> Inside(d) \cup {NoCell}]
      /\ back \in [Objs -> Inside(c) \cup {NoCell}]
  BY <1>1, ThereFits, BackFits DEF Fits
<1>4. \A o \in Lands(there) : there[o] \in Cells
  BY <1>1, <1>3, Geometry DEF Lands
<1>5. \A o \in Lands(back) : back[o] \in Cells
  BY <1>3, Geometry DEF Lands
<1> HIDE DEF d, there, back
<1>6. /\ first \in [Objs -> Item]
      /\ \A o \in Objs :
           /\ first[o].owner = IF o \in Lands(there) THEN d ELSE item[o].owner
           /\ first[o].cell = IF o \in Lands(there) THEN there[o] ELSE item[o].cell
           /\ first[o].count = item[o].count /\ first[o].ex = item[o].ex
  <2>1. item \in [Objs -> Item]
    BY DEF TypeOK
  <2> QED  BY <1>1, <1>4, <2>1, MovedFacts
<1> HIDE DEF first
<1>7. /\ after \in [Objs -> Item]
      /\ \A o \in Objs :
           /\ after[o].owner = IF o \in Lands(back) THEN c ELSE first[o].owner
           /\ after[o].cell = IF o \in Lands(back) THEN back[o] ELSE first[o].cell
           /\ after[o].count = first[o].count /\ after[o].ex = first[o].ex
  BY <1>5, <1>6, MovedFacts
<1> HIDE DEF after
<1>8. /\ item' \in [Objs -> Item]
      /\ \A o \in Objs :
           /\ item'[o].owner = after[o].owner /\ item'[o].cell = after[o].cell
           /\ item'[o].count = after[o].count
           /\ o \in Held(c) \cup Held(d) => item'[o].ex = FALSE
           /\ o \notin Held(c) \cup Held(d) => item'[o].ex = after[o].ex
  <2>1. \A o \in Objs : after[o] \in Item
    BY <1>7
  <2>2. ASSUME NEW o \in Objs
        PROVE  /\ item'[o] = IF o \in Held(c) \cup Held(d)
                             THEN [after[o] EXCEPT !.ex = FALSE] ELSE after[o]
               /\ [after[o] EXCEPT !.ex = FALSE] \in Item
    BY <1>2, <2>1 DEF Item
  <2>3. item' \in [Objs -> Item]
    BY <1>2, <2>1, <2>2
  <2>4. ASSUME NEW o \in Objs
        PROVE  /\ item'[o].owner = after[o].owner /\ item'[o].cell = after[o].cell
               /\ item'[o].count = after[o].count
               /\ o \in Held(c) \cup Held(d) => item'[o].ex = FALSE
               /\ o \notin Held(c) \cup Held(d) => item'[o].ex = after[o].ex
    BY <2>1, <2>2 DEF Item
  <2> QED  BY <2>3, <2>4
<1> QED  BY <1>1, <1>6, <1>7, <1>8 DEF d, there, back

(* A purse after Given: no less than nothing if the payer has the gold, no *)
(* more than the limit.                                                    *)
LEMMA GivenInPurse ==
    ASSUME NEW purse \in [Chars -> Purse], NEW c \in Chars, NEW d \in Chars,
           NEW g \in Purse, g <= purse[c], c # d
    PROVE  /\ Given(purse, c, d, g) \in [Chars -> Purse]
           /\ Given(purse, c, d, g)[c] = purse[c] - g
           /\ Given(purse, c, d, g)[d] = IF purse[d] + g >= GoldMax THEN purse[d]
                                         ELSE purse[d] + g
           /\ \A e \in Chars \ {c, d} : Given(purse, c, d, g)[e] = purse[e]
<1> DEFINE paid == [purse EXCEPT ![c] = @ - g]
<1>1. GoldMax \in Nat
  BY ExchangeAssumption
<1>2. /\ paid \in [Chars -> Purse] /\ paid[c] = purse[c] - g /\ paid[d] = purse[d]
      /\ \A e \in Chars \ {c} : paid[e] = purse[e]
  BY <1>1 DEF Purse
<1>3. Given(purse, c, d, g) = IF paid[d] + g >= GoldMax THEN paid
                              ELSE [paid EXCEPT ![d] = @ + g]
  BY DEF Given
<1> HIDE DEF paid
<1>4. CASE paid[d] + g >= GoldMax
  BY <1>2, <1>3, <1>4
<1>5. CASE ~(paid[d] + g >= GoldMax)
  <2>1. paid[d] + g \in Purse
    BY <1>1, <1>2, <1>5 DEF Purse
  <2> QED  BY <1>2, <1>3, <1>5, <2>1
<1> QED  BY <1>4, <1>5

(* The gold after the second accept.                                       *)
LEMMA DoneGold ==
    ASSUME TypeOK, Paired, NEW c \in Chars, NEW zc, NEW zd, AcceptDone(c, zc, zd)
    PROVE  /\ gold' \in [Chars -> Purse]
           /\ gold'[with[c]] \in {gold[with[c]] - exch[with[c]].gold,
                                  gold[with[c]] - exch[with[c]].gold + exch[c].gold}
           /\ gold'[c] >= gold[c] - exch[c].gold
           /\ \A e \in Chars \ {c, with[c]} : gold'[e] = gold[e]
           /\ ~Overflows(c) =>
                 /\ gold'[c] = gold[c] - exch[c].gold + exch[with[c]].gold
                 /\ gold'[with[c]] = gold[with[c]] - exch[with[c]].gold + exch[c].gold
<1> DEFINE d == with[c]
           purse == Given(gold, c, d, exch[c].gold)
<1>1. d \in Chars /\ c # d /\ with[d] = c
  <2>1. with[c] # Nobody
    BY DEF AcceptDone, BothAccept
  <2> QED  BY <2>1 DEF TypeOK, Paired
<1>2. exch[c].gold \in Purse /\ exch[d].gold \in Purse /\ gold \in [Chars -> Purse]
  BY <1>1 DEF TypeOK
<1>3. exch[c].gold <= gold[c] /\ exch[d].gold <= gold[d]
  BY DEF AcceptDone, InOrderBoth, Check
<1>4. gold' = Given(purse, d, c, exch[d].gold)
  BY DEF AcceptDone
<1>5. GoldMax \in Nat /\ Purse \subseteq Nat
  BY ExchangeAssumption DEF Purse
<1>6. Overflows(c) <=> \/ gold[d] + exch[c].gold >= GoldMax
                       \/ purse[c] + exch[d].gold >= GoldMax
  BY DEF Overflows
<1> HIDE DEF d
<1>7. /\ purse \in [Chars -> Purse]
      /\ purse[c] = gold[c] - exch[c].gold
      /\ purse[d] = IF gold[d] + exch[c].gold >= GoldMax THEN gold[d]
                    ELSE gold[d] + exch[c].gold
      /\ \A e \in Chars \ {c, d} : purse[e] = gold[e]
  BY <1>1, <1>2, <1>3, GivenInPurse
<1> HIDE DEF purse
<1>8. gold[c] \in Nat /\ gold[d] \in Nat /\ exch[c].gold \in Nat /\ exch[d].gold \in Nat
  BY <1>1, <1>2, <1>5
<1>9. /\ gold' \in [Chars -> Purse]
      /\ gold'[d] = purse[d] - exch[d].gold
      /\ gold'[c] = IF purse[c] + exch[d].gold >= GoldMax THEN purse[c]
                    ELSE purse[c] + exch[d].gold
      /\ \A e \in Chars \ {c, d} : gold'[e] = purse[e]
  <2>1. exch[d].gold <= purse[d]
    BY <1>1, <1>3, <1>5, <1>7, <1>8
  <2> QED  BY <1>1, <1>2, <1>4, <1>7, <2>1, GivenInPurse
<1> QED  BY <1>1, <1>5, <1>6, <1>7, <1>8, <1>9 DEF d

-----------------------------------------------------------------------------
(* Types.                                                                  *)

Exchanges == [accept : BOOLEAN, gold : Purse, slot : [Slots -> Slot]]

(* The constants, and the values that stand for nothing.                   *)
LEMMA NumberTypes ==
    /\ GoldMax \in Nat \ {0} /\ CountMax \in Nat \ {0}
    /\ Purse \subseteq Nat /\ 0 \in Purse /\ 0 \in Cells /\ Cells \subseteq Nat
    /\ MaxExch \in Nat /\ MaxWorld \in Nat
    /\ NoItem \in Slot /\ NoOffers \in Offers \X Offers
    /\ NoExch \in Exchanges
    /\ Nobody \notin Chars
<1>1. /\ GoldMax \in Nat \ {0} /\ CountMax \in Nat \ {0}
      /\ Purse \subseteq Nat /\ 0 \in Purse /\ 0 \in Cells /\ Cells \subseteq Nat
      /\ MaxExch \in Nat /\ MaxWorld \in Nat
  BY ExchangeAssumption DEF Purse, Cells
<1>2. NoItem \in Slot
  BY DEF Slot
<1>3. NoOffers \in Offers \X Offers
  BY <1>1 DEF NoOffers, NoOffer, Offers
<1>4. NoExch \in Exchanges
  BY <1>1, <1>2 DEF NoExch, Exchanges
<1>5. Nobody \notin Chars
  BY DEF Nobody, Chars
<1> QED  BY <1>1, <1>2, <1>3, <1>4, <1>5

(* What a side offers is an offer.                                         *)
LEMMA OfferType ==
    ASSUME TypeOK, NEW c \in Chars
    PROVE  Offer(c) \in Offers
<1>1. Held(c) \subseteq Objs
  BY HeldObjs
<1>2. \A o \in Objs : item[o].count \in 0..CountMax
  BY DEF TypeOK, Item
<1>3. exch[c].gold \in Purse
  BY DEF TypeOK
<1> QED  BY <1>1, <1>2, <1>3 DEF Offer, Offers

(* The type invariant in the parts that actions change together.           *)
ItemOK  == item \in [Objs -> Item]
GoldOK  == gold \in [Chars -> Purse]
RowOK   == row \in [Chars -> Purse] /\ spent \in [Chars -> Nat] /\ pend \subseteq Chars
WithOK  == with \in [Chars -> Chars \cup {Nobody}]
ExchOK  == exch \in [Chars -> Exchanges]
DealOK  == agreed \in [Chars -> Offers \X Offers]
CountOK == /\ excuses \subseteq {"reused", "stacked"}
           /\ nExch \in 0..MaxExch /\ nWorld \in 0..MaxWorld

(* The parts together are the type invariant.                              *)
LEMMA TypeParts ==
    /\ TypeOK <=> ItemOK /\ GoldOK /\ RowOK /\ WithOK /\ ExchOK /\ DealOK /\ CountOK
    /\ TypeOK' <=> ItemOK' /\ GoldOK' /\ RowOK' /\ WithOK' /\ ExchOK' /\ DealOK' /\ CountOK'
  BY DEF TypeOK, ItemOK, GoldOK, RowOK, WithOK, ExchOK, DealOK, CountOK, Exchanges

(* What does not change keeps its type.                                    *)
LEMMA Stays ==
    /\ ItemOK /\ UNCHANGED item => ItemOK'
    /\ GoldOK /\ UNCHANGED gold => GoldOK'
    /\ RowOK /\ UNCHANGED <<row, spent, pend>> => RowOK'
    /\ WithOK /\ UNCHANGED with => WithOK'
    /\ ExchOK /\ UNCHANGED exch => ExchOK'
    /\ DealOK /\ UNCHANGED agreed => DealOK'
    /\ CountOK /\ UNCHANGED <<excuses, nExch, nWorld>> => CountOK'
    /\ CountOK /\ Happens /\ excuses' \subseteq {"reused", "stacked"} => CountOK'
<1>1. CountOK /\ Happens /\ excuses' \subseteq {"reused", "stacked"} => CountOK'
  BY NumberTypes DEF CountOK, Happens
<1> QED  BY <1>1 DEF ItemOK, GoldOK, RowOK, WithOK, ExchOK, DealOK, CountOK

(* The types hold at the start.                                            *)
LEMMA InitTypes == Init => TypeOK
<1> SUFFICES ASSUME Init PROVE TypeOK
  OBVIOUS
<1>1. ItemOK
  <2>1. item = Start
    BY ExchangeAssumption DEF Init
  <2>2. {FALSE} \subseteq BOOLEAN
    OBVIOUS
  <2> QED  BY <2>1, <2>2, ExchangeAssumption DEF ItemOK, Item
<1>2. GoldOK /\ RowOK
  BY ExchangeAssumption DEF Init, GoldOK, RowOK, Purse
<1>3. WithOK /\ ExchOK /\ DealOK
  BY NumberTypes DEF Init, WithOK, ExchOK, DealOK
<1>4. CountOK
  BY NumberTypes DEF Init, CountOK
<1> QED  BY <1>1, <1>2, <1>3, <1>4, TypeParts

(* What the parts of the actions do to the types.                          *)
LEMMA ChangedTypes ==
    ASSUME WithOK, ExchOK, DealOK, NEW c \in Chars, with[c] \in Chars,
           NEW e \in Exchanges, Changed(c, e)
    PROVE  ExchOK' /\ DealOK'
<1>1. [e EXCEPT !.accept = FALSE] \in Exchanges
  BY DEF Exchanges
<1>2. \A x \in Exchanges : [x EXCEPT !.accept = FALSE] \in Exchanges
  BY DEF Exchanges
<1> DEFINE first == [exch EXCEPT ![c] = [e EXCEPT !.accept = FALSE]]
<1>3. first \in [Chars -> Exchanges]
  BY <1>1 DEF ExchOK
<1>4. exch' = [first EXCEPT ![with[c]] = [first[with[c]] EXCEPT !.accept = FALSE]]
  BY DEF Changed
<1>5. ExchOK'
  <2> HIDE DEF first
  <2>1. [first[with[c]] EXCEPT !.accept = FALSE] \in Exchanges
    BY <1>2, <1>3
  <2> QED  BY <1>3, <1>4, <2>1 DEF ExchOK
<1>6. DealOK'
  BY NumberTypes DEF Changed, DealOK
<1> QED  BY <1>5, <1>6

(* Release changes only marks.                                             *)
LEMMA ReleaseTypes ==
    ASSUME ItemOK, NEW S, Release(S)
    PROVE  ItemOK'
<1>1. \A x \in Item : [x EXCEPT !.ex = FALSE] \in Item
  BY DEF Item
<1> QED  BY <1>1 DEF Release, ItemOK

(* Closing an exchange keeps the types.                                    *)
LEMMA ClosedTypes ==
    ASSUME WithOK, ExchOK, DealOK, NEW c \in Chars, Closed(c)
    PROVE  WithOK' /\ ExchOK' /\ DealOK'
<1>1. WithOK' /\ ExchOK'
  BY NumberTypes DEF Closed, WithOK, ExchOK
<1>2. DealOK'
  BY NumberTypes DEF Closed, DealOK
<1> QED  BY <1>1, <1>2

(* So does a save.                                                         *)
LEMMA WrittenTypes ==
    ASSUME GoldOK, RowOK, NEW who, Written(who)
    PROVE  RowOK'
  BY DEF GoldOK, RowOK, Written

(* Every step keeps the types.                                             *)
LEMMA TypesKept ==
    ASSUME TypeOK, Paired, [Next]_vars
    PROVE  TypeOK'
<1>0. /\ ItemOK /\ GoldOK /\ RowOK /\ WithOK /\ ExchOK /\ DealOK /\ CountOK
      /\ \A c \in Chars : with[c] # Nobody => with[c] \in Chars
      /\ \A c \in Chars : exch[c] \in Exchanges
  <2>1. ItemOK /\ GoldOK /\ RowOK /\ WithOK /\ ExchOK /\ DealOK /\ CountOK
    BY TypeParts
  <2> QED  BY <2>1 DEF WithOK, ExchOK
<1>a. excuses \subseteq {"reused", "stacked"}
  BY <1>0 DEF CountOK
<1>1. CASE UNCHANGED vars
  BY <1>0, <1>1, Stays, TypeParts DEF vars
<1>2. ASSUME NEW c \in Chars, NEW d \in Chars, ExchangeStart(c, d) PROVE TypeOK'
  <2>1. WithOK' /\ ExchOK'
    BY <1>0, <1>2, NumberTypes DEF ExchangeStart, WithOK, ExchOK
  <2>2. CountOK'
    BY <1>0, <1>2, NumberTypes DEF ExchangeStart, CountOK
  <2> QED  BY <1>0, <1>2, <2>1, <2>2, Stays, TypeParts
           DEF ExchangeStart, world, possessions, saves
<1>3. ASSUME NEW c \in Chars, NEW o \in Objs, NEW s \in Slots, AddItem(c, o, s)
      PROVE  TypeOK'
  <2> DEFINE sl == [obj |-> o, cell |-> item[o].cell]
             e == [exch[c] EXCEPT !.slot[s] = sl]
  <2>1. sl \in Slot
    BY <1>0 DEF ItemOK, Slot, Item
  <2>2. with[c] \in Chars /\ Changed(c, e)
    BY <1>0, <1>3 DEF AddItem, MayChange
  <2> HIDE DEF sl
  <2>3. e \in Exchanges
    BY <1>0, <2>1 DEF Exchanges
  <2>4. ItemOK'
    <3>1. [item[o] EXCEPT !.ex = TRUE] \in Item
      BY <1>0 DEF ItemOK, Item
    <3> QED  BY <1>0, <1>3, <3>1 DEF AddItem, ItemOK
  <2> HIDE DEF e
  <2>5. ExchOK' /\ DealOK'
    BY <1>0, <2>2, <2>3, ChangedTypes
  <2> QED  BY <1>0, <1>3, <2>4, <2>5, Stays, TypeParts DEF AddItem, saves, bounds
<1>4. ASSUME NEW c \in Chars, NEW s \in Slots, RemoveItem(c, s) PROVE TypeOK'
  <2> DEFINE e == [exch[c] EXCEPT !.slot[s] = NoItem]
  <2>1. e \in Exchanges
    BY <1>0, NumberTypes DEF Exchanges
  <2>2. with[c] \in Chars /\ Changed(c, e)
    BY <1>0, <1>4 DEF RemoveItem, MayChange
  <2>3. ItemOK'
    BY <1>0, <1>4, ReleaseTypes DEF RemoveItem
  <2> HIDE DEF e
  <2>4. ExchOK' /\ DealOK'
    BY <1>0, <2>1, <2>2, ChangedTypes
  <2> QED  BY <1>0, <1>4, <2>3, <2>4, Stays, TypeParts DEF RemoveItem, saves, bounds
<1>5. ASSUME NEW c \in Chars, NEW g \in 1..(GoldMax - 1), AddGold(c, g) PROVE TypeOK'
  <2> DEFINE e == [exch[c] EXCEPT !.gold = g]
  <2>0. g \in Purse
    BY NumberTypes DEF Purse
  <2>1. e \in Exchanges
    BY <1>0, <2>0 DEF Exchanges
  <2>2. with[c] \in Chars /\ Changed(c, e)
    BY <1>0, <1>5 DEF AddGold, MayChange
  <2> HIDE DEF e
  <2>3. ExchOK' /\ DealOK'
    BY <1>0, <2>1, <2>2, ChangedTypes
  <2> QED  BY <1>0, <1>5, <2>3, Stays, TypeParts
           DEF AddGold, world, possessions, saves, bounds
<1>6. ASSUME NEW c \in Chars, AcceptFirst(c) PROVE TypeOK'
  <2>1. with[c] \in Chars
    BY <1>0, <1>6 DEF AcceptFirst
  <2>2. <<Offer(c), Offer(with[c])>> \in Offers \X Offers
    BY <2>1, OfferType
  <2>3. DealOK'
    BY <1>0, <1>6, <2>2 DEF AcceptFirst, DealOK
  <2>4. ExchOK'
    <3>1. [exch[c] EXCEPT !.accept = TRUE] \in Exchanges
      BY <1>0 DEF Exchanges
    <3> QED  BY <1>0, <1>6, <3>1 DEF AcceptFirst, ExchOK
  <2> QED  BY <1>0, <1>6, <2>3, <2>4, Stays, TypeParts
           DEF AcceptFirst, world, possessions, saves, bounds
<1>7. ASSUME NEW c \in Chars, AcceptRefused(c) \/ Cancel(c) PROVE TypeOK'
  <2>1. Closed(c) /\ \E S : Release(S)
    BY <1>7 DEF AcceptRefused, Cancel, Cancelled
  <2>2. ItemOK'
    BY <1>0, <2>1, ReleaseTypes
  <2>3. WithOK' /\ ExchOK' /\ DealOK'
    BY <1>0, <2>1, ClosedTypes
  <2>4. UNCHANGED <<gold, saves, excuses, bounds>>
    BY <1>7 DEF AcceptRefused, Cancel, BothAccept
  <2> QED  BY <1>0, <2>2, <2>3, <2>4, Stays, TypeParts DEF saves, bounds
<1>8. ASSUME NEW c \in Chars, NEW zc, NEW zd, AcceptDone(c, zc, zd) PROVE TypeOK'
  <2>1. ItemOK' /\ GoldOK' /\ with[c] \in Chars
    BY <1>8, DoneItems, DoneGold DEF ItemOK, GoldOK
  <2>2. WithOK' /\ ExchOK' /\ DealOK'
    BY <1>0, <1>8, ClosedTypes DEF AcceptDone
  <2>3. RowOK'
    BY <1>0, <1>8, <2>1 DEF AcceptDone, Payers, RowOK
  <2>4. UNCHANGED <<excuses, nExch, nWorld>>
    BY <1>8 DEF AcceptDone, BothAccept, bounds
  <2> QED  BY <1>0, <2>1, <2>2, <2>3, <2>4, Stays, TypeParts
<1>9. ASSUME NEW c \in Chars, Earn(c) PROVE TypeOK'
  <2>1. gold[c] + 1 \in Purse
    BY <1>0, <1>9, NumberTypes DEF Earn, GoldOK, Purse
  <2>2. GoldOK' /\ RowOK'
    BY <1>0, <1>9, <2>1 DEF Earn, GoldOK, RowOK
  <2>3. CountOK'
    BY <1>0, <1>9, <1>a, Stays DEF Earn
  <2> QED  BY <1>0, <1>9, <2>2, <2>3, Stays, TypeParts DEF Earn
<1>10. ASSUME NEW c \in Chars, Pay(c) PROVE TypeOK'
  <2>1. gold[c] - 1 \in Purse /\ spent[c] + 1 \in Nat
    BY <1>0, <1>10, NumberTypes DEF Pay, GoldOK, RowOK, Purse
  <2>2. GoldOK' /\ RowOK'
    BY <1>0, <1>10, <2>1 DEF Pay, GoldOK, RowOK
  <2>3. CountOK'
    BY <1>0, <1>10, <1>a, Stays DEF Pay
  <2> QED  BY <1>0, <1>10, <2>2, <2>3, Stays, TypeParts DEF Pay
<1>11. ASSUME NEW c \in Chars, NEW o \in Objs, PickUp(c, o) PROVE TypeOK'
  <2> DEFINE i == FirstFit(c, Free(c), Size[o])
  <2>1. i \in Cells
    BY <1>11, FirstFitFits, Geometry DEF PickUp, NoCell
  <2>2. item' = [item EXCEPT ![o] = [owner |-> c, cell |-> i, count |-> 1, ex |-> FALSE]]
    BY <1>11 DEF PickUp
  <2> HIDE DEF i
  <2>3. [owner |-> c, cell |-> i, count |-> 1, ex |-> FALSE] \in Item
    BY <2>1, NumberTypes DEF Item
  <2>4. ItemOK'
    BY <1>0, <2>2, <2>3 DEF ItemOK
  <2>5. CountOK'
    <3>1. excuses' \subseteq {"reused", "stacked"}
      BY <1>11, <1>a DEF PickUp
    <3> QED  BY <1>0, <1>11, <3>1, Stays DEF PickUp
  <2> QED  BY <1>0, <1>11, <2>4, <2>5, Stays, TypeParts DEF PickUp, saves
<1>12. ASSUME NEW c \in Chars, NEW o \in Objs, PickUpIntoStack(c, o) PROVE TypeOK'
  <2>1. [item[o] EXCEPT !.count = @ + 1] \in Item
    BY <1>0, <1>12, NumberTypes DEF PickUpIntoStack, ItemOK, Item
  <2>2. ItemOK'
    BY <1>0, <1>12, <2>1 DEF PickUpIntoStack, ItemOK
  <2>3. CountOK'
    <3>1. excuses' \subseteq {"reused", "stacked"}
      BY <1>12, <1>a DEF PickUpIntoStack
    <3> QED  BY <1>0, <1>12, <3>1, Stays DEF PickUpIntoStack
  <2> QED  BY <1>0, <1>12, <2>2, <2>3, Stays, TypeParts DEF PickUpIntoStack, saves
<1>13. ASSUME NEW c \in Chars, NEW o \in Objs, MoveItem(c, o) PROVE TypeOK'
  <2>1. PICK cell \in Heads(c, Free(c), Size[o]) : item' = [item EXCEPT ![o].cell = cell]
    BY <1>13 DEF MoveItem
  <2>2. cell \in Cells
    BY Geometry DEF Heads
  <2>3. [item[o] EXCEPT !.cell = cell] \in Item
    BY <1>0, <2>2 DEF ItemOK, Item
  <2>4. ItemOK'
    BY <1>0, <2>1, <2>3 DEF ItemOK
  <2>5. CountOK'
    BY <1>0, <1>13, <1>a, Stays DEF MoveItem
  <2> QED  BY <1>0, <1>13, <2>4, <2>5, Stays, TypeParts DEF MoveItem, saves
<1>14. ASSUME NEW o \in Objs, Expire(o) PROVE TypeOK'
  <2>1. Freed \in Item
    BY NumberTypes DEF Freed, Item
  <2>2. ItemOK'
    BY <1>0, <1>14, <2>1 DEF Expire, ItemOK
  <2>3. CountOK'
    BY <1>0, <1>14, <1>a, Stays DEF Expire
  <2> QED  BY <1>0, <1>14, <2>2, <2>3, Stays, TypeParts DEF Expire, saves
<1>15. ASSUME NEW c \in Chars, Leave(c) PROVE TypeOK'
  <2>1. RowOK' /\ GoldOK' /\ CountOK'
    BY <1>0, <1>15, <1>a, WrittenTypes, Stays DEF Leave
  <2>2. CASE with[c] # Nobody
    <3>1. Closed(c) /\ \E S : Release(S)
      BY <1>15, <2>2 DEF Leave, Cancelled
    <3>2. ItemOK'
      BY <1>0, <3>1, ReleaseTypes
    <3>3. WithOK' /\ ExchOK' /\ DealOK'
      BY <1>0, <3>1, ClosedTypes
    <3> QED  BY <2>1, <3>2, <3>3, TypeParts
  <2>3. CASE with[c] = Nobody
    BY <1>0, <1>15, <2>1, <2>3, Stays, TypeParts DEF Leave
  <2> QED  BY <2>2, <2>3
<1>16. CASE ProcessDelayedSave
  <2>1. RowOK'
    BY <1>0, <1>16, WrittenTypes DEF ProcessDelayedSave
  <2> QED  BY <1>0, <1>16, <2>1, Stays, TypeParts
           DEF ProcessDelayedSave, possessions, bounds
<1>17. Next => TypeOK'
  BY <1>2, <1>3, <1>4, <1>5, <1>6, <1>7, <1>8, <1>9, <1>10, <1>11, <1>12, <1>13,
     <1>14, <1>15, <1>16 DEF Next
<1> QED  BY <1>1, <1>17

-----------------------------------------------------------------------------
(* Exchanges are between two.                                              *)

(* Who has no exchange has nothing on offer.                               *)
Idle == \A c \in Chars : with[c] = Nobody => exch[c] = NoExch

(* The two sides of an open exchange.                                      *)
LEMMA Sides ==
    ASSUME TypeOK, Paired, NEW c \in Chars, with[c] # Nobody
    PROVE  with[c] \in Chars /\ with[c] # c /\ with[with[c]] = c
  BY DEF TypeOK, Paired

(* What Changed, Closed and the accept flag are, side by side.             *)
LEMMA ChangedSides ==
    ASSUME TypeOK, Paired, NEW c \in Chars, with[c] # Nobody, NEW e \in Exchanges,
           Changed(c, e)
    PROVE  /\ \A x \in Chars : exch'[x].accept = (exch[x].accept /\ x \notin {c, with[c]})
           /\ exch'[c].slot = e.slot /\ exch'[c].gold = e.gold
           /\ \A x \in Chars \ {c} : /\ exch'[x].slot = exch[x].slot
                                     /\ exch'[x].gold = exch[x].gold
           /\ \A x \in Chars \ {c, with[c]} : /\ exch'[x] = exch[x]
                                              /\ agreed'[x] = agreed[x]
<1> DEFINE d == with[c]
           off(x) == [x EXCEPT !.accept = FALSE]
<1>1. d \in Chars /\ d # c /\ ExchOK /\ DealOK
  BY Sides, TypeParts
<1>2. \A x \in Exchanges : /\ off(x) \in Exchanges /\ off(x).accept = FALSE
                           /\ off(x).slot = x.slot /\ off(x).gold = x.gold
  BY DEF Exchanges
<1>3. /\ exch' = [exch EXCEPT ![c] = off(e), ![d].accept = FALSE]
      /\ agreed' = [agreed EXCEPT ![c] = NoOffers, ![d] = NoOffers]
  BY DEF Changed
<1> HIDE DEF d
<1>4. /\ exch'[c] = off(e) /\ exch'[d] = off(exch[d])
      /\ \A x \in Chars \ {c, d} : exch'[x] = exch[x] /\ agreed'[x] = agreed[x]
  BY <1>1, <1>3 DEF ExchOK, DealOK
<1>5. \A x \in Chars : exch[x] \in Exchanges /\ exch[x].accept \in BOOLEAN
  BY <1>1 DEF ExchOK, Exchanges
<1> HIDE DEF off
<1>6. /\ off(e).accept = FALSE /\ off(e).slot = e.slot /\ off(e).gold = e.gold
      /\ off(exch[d]).accept = FALSE
      /\ off(exch[d]).slot = exch[d].slot /\ off(exch[d]).gold = exch[d].gold
  BY <1>1, <1>2, <1>5
<1>7. ASSUME NEW x \in Chars
      PROVE  exch'[x].accept = (exch[x].accept /\ x \notin {c, d})
  <2>1. CASE x \in {c, d}
    BY <1>1, <1>4, <1>6, <2>1
  <2>2. CASE x \notin {c, d}
    BY <1>4, <1>5, <2>2
  <2> QED  BY <2>1, <2>2
<1> QED  BY <1>1, <1>4, <1>6, <1>7 DEF d

(* Closing empties both sides and touches no other.                        *)
LEMMA ClosedSides ==
    ASSUME TypeOK, Paired, NEW c \in Chars, with[c] # Nobody, Closed(c)
    PROVE  /\ with'[c] = Nobody /\ with'[with[c]] = Nobody
           /\ exch'[c] = NoExch /\ exch'[with[c]] = NoExch
           /\ \A x \in Chars \ {c, with[c]} : /\ with'[x] = with[x] /\ exch'[x] = exch[x]
                                              /\ agreed'[x] = agreed[x]
<1>1. with[c] \in Chars /\ with[c] # c
  BY Sides
<1> QED  BY <1>1 DEF Closed, TypeOK

(* Closing both sides leaves the others in pairs.                          *)
LEMMA PairedByClosing ==
    ASSUME TypeOK, Paired, Idle, NEW c \in Chars, with[c] # Nobody, Closed(c)
    PROVE  Paired' /\ Idle'
<1> DEFINE d == with[c]
<1>1. d \in Chars /\ d # c /\ with[d] = c
  BY Sides
<1>2. /\ with'[c] = Nobody /\ with'[d] = Nobody /\ exch'[c] = NoExch /\ exch'[d] = NoExch
      /\ \A x \in Chars \ {c, d} : with'[x] = with[x] /\ exch'[x] = exch[x]
  BY ClosedSides
<1> HIDE DEF d
<1>3. ASSUME NEW x \in Chars \ {c, d}, with[x] # Nobody
      PROVE  with[x] \in Chars \ {c, d}
  BY <1>1, <1>3, Sides
<1> QED  BY <1>1, <1>2, <1>3 DEF Paired, Idle

(* Every step keeps exchanges in pairs, and the unpaired without offers.   *)
LEMMA PairedKept ==
    ASSUME TypeOK, Paired, Idle, [Next]_vars
    PROVE  Paired' /\ Idle'
<1>1. CASE UNCHANGED <<with, exch>>
  BY <1>1 DEF Paired, Idle
<1>2. ASSUME NEW c \in Chars, NEW d \in Chars, ExchangeStart(c, d)
      PROVE  Paired' /\ Idle'
  <2>1. c # d /\ with[c] = Nobody /\ with[d] = Nobody
    BY <1>2 DEF ExchangeStart
  <2>2. /\ with'[c] = d /\ with'[d] = c /\ exch'[c] = NoExch /\ exch'[d] = NoExch
        /\ \A x \in Chars \ {c, d} : with'[x] = with[x] /\ exch'[x] = exch[x]
    BY <1>2, <2>1, TypeParts DEF ExchangeStart, WithOK, ExchOK
  <2>3. ASSUME NEW x \in Chars \ {c, d}, with[x] # Nobody
        PROVE  with[x] \in Chars \ {c, d}
    BY <2>1, <2>3, NumberTypes, Sides
  <2>4. NoExch.accept = FALSE /\ c # Nobody /\ d # Nobody
    BY NumberTypes DEF NoExch
  <2> QED  BY <2>1, <2>2, <2>3, <2>4 DEF Paired, Idle
<1>3. ASSUME NEW c \in Chars, NEW e \in Exchanges, MayChange(c), Changed(c, e),
             UNCHANGED with
      PROVE  Paired' /\ Idle'
  <2>1. with[c] # Nobody
    BY <1>3 DEF MayChange
  <2>2. /\ \A x \in Chars : exch'[x].accept => exch[x].accept
        /\ \A x \in Chars \ {c, with[c]} : exch'[x] = exch[x]
    BY <1>3, <2>1, ChangedSides
  <2>3. with[with[c]] # Nobody
    BY <2>1, Sides, NumberTypes
  <2>4. \A x \in Chars : with[x] # Nobody => with[x] \in Chars
    BY Sides
  <2>5. Paired'
    BY <1>3, <2>2, <2>4 DEF Paired
  <2>6. Idle'
    BY <1>3, <2>1, <2>2, <2>3 DEF Idle
  <2> QED  BY <2>5, <2>6
<1>4. ASSUME NEW c \in Chars, AcceptFirst(c) PROVE Paired' /\ Idle'
  <2>1. /\ with[c] # Nobody /\ ~exch[with[c]].accept /\ UNCHANGED with
        /\ exch' = [exch EXCEPT ![c].accept = TRUE]
    BY <1>4 DEF AcceptFirst
  <2>2. \A x \in Chars \ {c} : exch'[x] = exch[x]
    BY <2>1, TypeParts DEF ExchOK
  <2>3. with[c] \in Chars /\ with[c] # c /\ with[with[c]] = c
    BY <2>1, Sides
  <2>4. \A x \in Chars : with[x] = c => x = with[c]
    BY <2>1, NumberTypes DEF Paired
  <2> QED  BY <2>1, <2>2, <2>3, <2>4 DEF Paired, Idle
<1>5. ASSUME NEW c \in Chars, with[c] # Nobody, Closed(c)
      PROVE  Paired' /\ Idle'
  BY <1>5, PairedByClosing
<1> QED
  <2>1. CASE UNCHANGED vars
    BY <1>1, <2>1 DEF vars
  <2>2. ASSUME NEW c \in Chars, NEW o \in Objs, NEW s \in Slots, AddItem(c, o, s)
        PROVE  Paired' /\ Idle'
    <3> DEFINE e == [exch[c] EXCEPT !.slot[s] = [obj |-> o, cell |-> item[o].cell]]
    <3>1. e \in Exchanges
      BY TypeParts DEF ExchOK, ItemOK, Exchanges, Slot, Item
    <3>2. MayChange(c) /\ Changed(c, e) /\ UNCHANGED with
      BY <2>2 DEF AddItem
    <3> HIDE DEF e
    <3> QED  BY <1>3, <3>1, <3>2
  <2>3. ASSUME NEW c \in Chars, NEW s \in Slots, RemoveItem(c, s) PROVE Paired' /\ Idle'
    <3> DEFINE e == [exch[c] EXCEPT !.slot[s] = NoItem]
    <3>1. e \in Exchanges
      BY TypeParts, NumberTypes DEF ExchOK, Exchanges
    <3>2. MayChange(c) /\ Changed(c, e) /\ UNCHANGED with
      BY <2>3 DEF RemoveItem
    <3> HIDE DEF e
    <3> QED  BY <1>3, <3>1, <3>2
  <2>4. ASSUME NEW c \in Chars, NEW g \in 1..(GoldMax - 1), AddGold(c, g)
        PROVE  Paired' /\ Idle'
    <3> DEFINE e == [exch[c] EXCEPT !.gold = g]
    <3>0. g \in Purse
      BY NumberTypes DEF Purse
    <3>1. e \in Exchanges
      BY <3>0, TypeParts DEF ExchOK, Exchanges
    <3>2. MayChange(c) /\ Changed(c, e) /\ UNCHANGED with
      BY <2>4 DEF AddGold
    <3> HIDE DEF e
    <3> QED  BY <1>3, <3>1, <3>2
  <2>5. ASSUME NEW c \in Chars, AcceptRefused(c) \/ Cancel(c) PROVE Paired' /\ Idle'
    BY <1>5, <2>5 DEF AcceptRefused, BothAccept, Cancel, Cancelled
  <2>6. ASSUME NEW c \in Chars, NEW zc, NEW zd, AcceptDone(c, zc, zd)
        PROVE  Paired' /\ Idle'
    BY <1>5, <2>6 DEF AcceptDone, BothAccept
  <2>7. ASSUME NEW c \in Chars, Earn(c) \/ Pay(c) PROVE Paired' /\ Idle'
    BY <1>1, <2>7 DEF Earn, Pay
  <2>8. ASSUME NEW c \in Chars, NEW o \in Objs,
               PickUp(c, o) \/ PickUpIntoStack(c, o) \/ MoveItem(c, o) \/ Expire(o)
        PROVE  Paired' /\ Idle'
    BY <1>1, <2>8 DEF PickUp, PickUpIntoStack, MoveItem, Expire
  <2>9. ASSUME NEW c \in Chars, Leave(c) PROVE Paired' /\ Idle'
    BY <1>1, <1>5, <2>9 DEF Leave, Cancelled
  <2>10. CASE ProcessDelayedSave
    BY <1>1, <2>10 DEF ProcessDelayedSave
  <2>11. ASSUME NEW o \in Objs, Expire(o) PROVE Paired' /\ Idle'
    BY <1>1, <2>11 DEF Expire
  <2>12. Next => Paired' /\ Idle'
    BY <1>2, <1>4, <2>2, <2>3, <2>4, <2>5, <2>6, <2>7, <2>8, <2>9, <2>10, <2>11 DEF Next
  <2> QED  BY <2>1, <2>12

-----------------------------------------------------------------------------
(* Items have places of their own.                                         *)

Spot(o) == Cover(item[o].cell, Size[o])

(* NoOverlap, object by object.                                            *)
InPlace ==
    \A o \in Objs : item[o].owner # Nobody =>
        /\ Spot(o) \subseteq Inside(item[o].owner)
        /\ \A p \in Objs \ {o} : item[p].owner = item[o].owner => Spot(o) \cap Spot(p) = {}

(* InPlace is what the run checks as NoOverlap.                            *)
LEMMA NoOverlapOf == InPlace => NoOverlap
<1> SUFFICES ASSUME InPlace, NEW c \in Chars
             PROVE  /\ Taken(c) \subseteq Inside(c)
                    /\ \A o, p \in Own(c) : o < p => Spot(o) \cap Spot(p) = {}
  BY DEF NoOverlap, Spot
<1>1. \A o \in Own(c) : o \in Objs /\ item[o].owner = c /\ c # Nobody
  BY NumberTypes DEF Own
<1>2. Taken(c) \subseteq Inside(c)
  BY <1>1 DEF InPlace, Taken, Spot
<1>3. ASSUME NEW o \in Own(c), NEW p \in Own(c), o < p PROVE Spot(o) \cap Spot(p) = {}
  <2>1. o # p
    BY <1>1, <1>3 DEF Objs
  <2> QED  BY <1>1, <2>1 DEF InPlace
<1> QED  BY <1>2, <1>3

(* No item is on a free cell.                                              *)
LEMMA FreeOfItems ==
    ASSUME NEW c \in Chars
    PROVE  /\ Free(c) \subseteq Inside(c)
           /\ \A o \in Objs : item[o].owner = c => Spot(o) \cap Free(c) = {}
  BY DEF Free, Taken, Own, Spot

(* The items have their places at the start.                               *)
LEMMA InPlaceStart == Init => InPlace
<1> SUFFICES ASSUME Init PROVE InPlace
  OBVIOUS
<1>1. \A o \in Objs : item[o] = Start[o]
  BY DEF Init
<1> QED  BY <1>1, StartAssumption DEF InPlace, Spot, Inside

(* Nothing happens to the places.                                          *)
LEMMA SameSpots ==
    ASSUME InPlace,
           \A o \in Objs : item'[o].owner = item[o].owner /\ item'[o].cell = item[o].cell
    PROVE  InPlace'
  BY DEF InPlace, Spot, Inside

(* Release leaves everything but the marks.                                *)
LEMMA ReleaseSpots ==
    ASSUME TypeOK, NEW S, Release(S)
    PROVE  \A o \in Objs : /\ item'[o].owner = item[o].owner /\ item'[o].cell = item[o].cell
                           /\ item'[o].count = item[o].count
                           /\ item'[o].ex = (item[o].ex /\ o \notin S)
  BY DEF Release, TypeOK, Item

(* One item is put where there was room, or taken away.                    *)
LEMMA OneMoves ==
    ASSUME InPlace, NEW o \in Objs, NEW c \in Chars,
           \A p \in Objs \ {o} : item'[p] = item[p],
           \/ item'[o].owner = Nobody
           \/ /\ item'[o].owner = c
              /\ Cover(item'[o].cell, Size[o]) \subseteq Free(c)
    PROVE  InPlace'
<1>1. CASE item'[o].owner = Nobody
  BY <1>1 DEF InPlace, Spot, Inside
<1>2. CASE item'[o].owner = c /\ Cover(item'[o].cell, Size[o]) \subseteq Free(c)
  <2>1. Spot(o)' \subseteq Free(c)
    BY <1>2 DEF Spot
  <2>2. \A p \in Objs \ {o} : Spot(p)' = Spot(p)
    BY DEF Spot
  <2>3. Inside(c)' = Inside(c) /\ \A p \in Objs : Inside(item[p].owner)' = Inside(item'[p].owner)
    BY DEF Inside
  <2>4. ASSUME NEW p \in Objs, item'[p].owner # Nobody
        PROVE  /\ Spot(p)' \subseteq Inside(item'[p].owner)
               /\ \A q \in Objs \ {p} : item'[q].owner = item'[p].owner =>
                     Spot(p)' \cap Spot(q)' = {}
    <3>1. CASE p = o
      BY <1>2, <2>1, <2>2, <3>1, FreeOfItems
    <3>2. CASE p # o
      BY <1>2, <2>1, <2>2, <2>4, <3>2, FreeOfItems DEF InPlace
    <3> QED  BY <3>1, <3>2
  <2> QED  BY <2>4 DEF InPlace, Inside
<1> QED  BY <1>1, <1>2

(* What Check and the loop of Done say of the objects that change hands.   *)
LEMMA Swap ==
    ASSUME TypeOK, Paired, NEW c \in Chars, NEW zc, NEW zd, AcceptDone(c, zc, zd)
    PROVE  /\ with[c] \in Chars /\ c # with[c] /\ with[with[c]] = c
           /\ Lands(There(c)) \subseteq Held(c) /\ Lands(Back(c)) \subseteq Held(with[c])
           /\ \A o \in Held(c) : item[o].owner = c
           /\ \A o \in Held(with[c]) : item[o].owner = with[c]
           /\ Held(c) \subseteq Objs /\ Held(with[c]) \subseteq Objs
<1>1. with[c] \in Chars /\ c # with[c] /\ with[with[c]] = c
  BY Sides DEF AcceptDone, BothAccept
<1>2. Lands(There(c)) \subseteq Held(c)
  BY <1>1, ThereFits, HeldObjs DEF Fits
<1>3. Lands(Back(c)) \subseteq Held(with[c])
  BY <1>1, BackFits, HeldObjs DEF Fits
<1>4. Check(c) /\ Check(with[c])
  BY DEF AcceptDone, InOrderBoth
<1>5. ASSUME NEW x \in Chars, Check(x), NEW o \in Held(x) PROVE item[o].owner = x
  BY <1>5 DEF Check, Held
<1> QED  BY <1>1, <1>2, <1>3, <1>4, <1>5, HeldObjs

(* After the second accept all items have places of their own.             *)
LEMMA SwapInPlace ==
    ASSUME TypeOK, Paired, InPlace, NEW c \in Chars, NEW zc, NEW zd,
           AcceptDone(c, zc, zd)
    PROVE  InPlace'
<1> DEFINE d == with[c]
           T == Lands(There(c))
           B == Lands(Back(c))
<1>1. /\ d \in Chars /\ c # d
      /\ \A o \in T : item[o].owner = c
      /\ \A o \in B : item[o].owner = d
      /\ T \subseteq Objs /\ B \subseteq Objs
      /\ c # Nobody /\ d # Nobody
  BY Swap, NumberTypes
<1>2. /\ \A o \in B : item'[o].owner = c /\ item'[o].cell = Back(c)[o]
      /\ \A o \in T \ B : item'[o].owner = d /\ item'[o].cell = There(c)[o]
      /\ \A o \in Objs \ (T \cup B) :
            item'[o].owner = item[o].owner /\ item'[o].cell = item[o].cell
  BY <1>1, DoneItems
<1>3. T \cap B = {}
  BY <1>1
<1>4. \A o \in T : /\ Cover(There(c)[o], Size[o]) \subseteq Free(d)
                   /\ \A p \in T \ {o} :
                        Cover(There(c)[o], Size[o]) \cap Cover(There(c)[p], Size[p]) = {}
  BY <1>1, ThereFits DEF Fits
<1>5. \A o \in B : /\ Cover(Back(c)[o], Size[o]) \subseteq Free(c) \cup Gone(c)
                   /\ \A p \in B \ {o} :
                        Cover(Back(c)[o], Size[o]) \cap Cover(Back(c)[p], Size[p]) = {}
  BY <1>1, BackFits DEF Fits
<1>6. Gone(c) = UNION {Spot(o) : o \in T}
  BY DEF Gone, Spot
<1>7. /\ \A o \in B : Spot(o)' = Cover(Back(c)[o], Size[o])
      /\ \A o \in T : Spot(o)' = Cover(There(c)[o], Size[o])
      /\ \A o \in Objs \ (T \cup B) : Spot(o)' = Spot(o)
  BY <1>2, <1>3 DEF Spot
<1> HIDE DEF d, T, B
<1>8. \A o \in T : Spot(o) \subseteq Inside(c)
  BY <1>1 DEF InPlace
<1>9. ASSUME NEW o \in B
      PROVE  /\ item'[o].owner = c /\ Spot(o)' \subseteq Inside(c)
             /\ \A q \in Objs \ {o} : item'[q].owner = c => Spot(o)' \cap Spot(q)' = {}
  <2>1. item'[o].owner = c /\ Spot(o)' \subseteq Free(c) \cup Gone(c)
    BY <1>2, <1>5, <1>7
  <2>2. Spot(o)' \subseteq Inside(c)
    BY <1>6, <1>8, <2>1, FreeOfItems
  <2>3. ASSUME NEW q \in Objs \ {o}, item'[q].owner = c PROVE Spot(o)' \cap Spot(q)' = {}
    <3>1. CASE q \in B
      BY <1>5, <1>7, <3>1
    <3>2. CASE q \notin B
      <4>1. q \notin T /\ item[q].owner = c /\ Spot(q)' = Spot(q)
        BY <1>1, <1>2, <1>7, <2>3, <3>2
      <4>2. Spot(q) \cap Free(c) = {}
        BY <4>1, FreeOfItems
      <4>3. Spot(q) \cap Gone(c) = {}
        <5> SUFFICES ASSUME NEW p \in T PROVE Spot(q) \cap Spot(p) = {}
          BY <1>6
        <5> QED  BY <1>1, <4>1 DEF InPlace
      <4> QED  BY <2>1, <4>1, <4>2, <4>3
    <3> QED  BY <3>1, <3>2
  <2> QED  BY <2>1, <2>2, <2>3
<1>10. ASSUME NEW o \in T
       PROVE  /\ item'[o].owner = d /\ Spot(o)' \subseteq Inside(d)
              /\ \A q \in Objs \ {o} : item'[q].owner = d => Spot(o)' \cap Spot(q)' = {}
  <2>1. item'[o].owner = d /\ Spot(o)' \subseteq Free(d)
    BY <1>2, <1>3, <1>4, <1>7
  <2>2. Spot(o)' \subseteq Inside(d)
    BY <1>1, <2>1, FreeOfItems
  <2>3. ASSUME NEW q \in Objs \ {o}, item'[q].owner = d PROVE Spot(o)' \cap Spot(q)' = {}
    <3>1. CASE q \in T
      BY <1>4, <1>7, <3>1
    <3>2. CASE q \notin T
      <4>1. q \notin B
        BY <1>1, <1>2, <2>3
      <4>2. item[q].owner = d /\ Spot(q)' = Spot(q)
        BY <1>2, <1>7, <2>3, <3>2, <4>1
      <4> QED  BY <1>1, <2>1, <4>2, FreeOfItems
    <3> QED  BY <3>1, <3>2
  <2> QED  BY <2>1, <2>2, <2>3
<1>11. ASSUME NEW o \in Objs \ (T \cup B), item'[o].owner # Nobody
       PROVE  /\ Spot(o)' \subseteq Inside(item'[o].owner)
              /\ \A q \in Objs \ {o} : item'[q].owner = item'[o].owner =>
                    Spot(o)' \cap Spot(q)' = {}
  <2>1. Spot(o)' = Spot(o) /\ item'[o].owner = item[o].owner
    BY <1>2, <1>7
  <2>2. Spot(o)' \subseteq Inside(item'[o].owner)
    BY <1>11, <2>1 DEF InPlace
  <2>3. ASSUME NEW q \in Objs \ {o}, item'[q].owner = item'[o].owner
        PROVE  Spot(o)' \cap Spot(q)' = {}
    <3>1. CASE q \in B
      BY <1>9, <2>3, <3>1
    <3>2. CASE q \in T
      BY <1>10, <2>3, <3>2
    <3>3. CASE q \notin T \cup B
      BY <1>2, <1>7, <1>11, <2>1, <2>3, <3>3 DEF InPlace
    <3> QED  BY <3>1, <3>2, <3>3
  <2> QED  BY <2>2, <2>3
<1> QED  BY <1>1, <1>9, <1>10, <1>11 DEF InPlace, Inside

(* Every step leaves the items places of their own.                        *)
LEMMA InPlaceKept ==
    ASSUME TypeOK, Paired, InPlace, [Next]_vars
    PROVE  InPlace'
<1>0. item \in [Objs -> Item]
  BY DEF TypeOK
<1>1. CASE UNCHANGED item
  BY <1>1, SameSpots
<1>2. ASSUME NEW S, Release(S) PROVE InPlace'
  BY <1>2, ReleaseSpots, SameSpots
<1>3. ASSUME NEW c \in Chars, NEW o \in Objs, NEW s \in Slots, AddItem(c, o, s)
      PROVE  InPlace'
  <2>1. item' = [item EXCEPT ![o].ex = TRUE]
    BY <1>3 DEF AddItem
  <2> QED  BY <1>0, <2>1, SameSpots DEF Item
<1>4. ASSUME NEW c \in Chars, NEW zc, NEW zd, AcceptDone(c, zc, zd) PROVE InPlace'
  BY <1>4, SwapInPlace
<1>5. ASSUME NEW c \in Chars, NEW o \in Objs, PickUp(c, o) PROVE InPlace'
  <2> DEFINE i == FirstFit(c, Free(c), Size[o])
  <2>1. Cover(i, Size[o]) \subseteq Free(c)
    BY <1>5, FirstFitFits DEF PickUp, NoCell
  <2>2. item' = [item EXCEPT ![o] = [owner |-> c, cell |-> i, count |-> 1, ex |-> FALSE]]
    BY <1>5 DEF PickUp
  <2> HIDE DEF i
  <2>3. item'[o].owner = c /\ item'[o].cell = i /\ \A p \in Objs \ {o} : item'[p] = item[p]
    BY <1>0, <2>2
  <2> QED  BY <2>1, <2>3, OneMoves
<1>6. ASSUME NEW c \in Chars, NEW o \in Objs, PickUpIntoStack(c, o) PROVE InPlace'
  <2>1. item' = [item EXCEPT ![o].count = @ + 1]
    BY <1>6 DEF PickUpIntoStack
  <2> QED  BY <1>0, <2>1, SameSpots DEF Item
<1>7. ASSUME NEW c \in Chars, NEW o \in Objs, MoveItem(c, o) PROVE InPlace'
  <2>1. PICK cell \in Heads(c, Free(c), Size[o]) : item' = [item EXCEPT ![o].cell = cell]
    BY <1>7 DEF MoveItem
  <2>2. Cover(cell, Size[o]) \subseteq Free(c) /\ item[o].owner = c
    BY <1>7 DEF Heads, MoveItem
  <2>3. item'[o].owner = c /\ item'[o].cell = cell /\ \A p \in Objs \ {o} : item'[p] = item[p]
    BY <1>0, <2>1, <2>2 DEF Item
  <2> QED  BY <2>2, <2>3, OneMoves
<1>8. ASSUME NEW o \in Objs, Expire(o) PROVE InPlace'
  <2>1. item' = [item EXCEPT ![o] = Freed]
    BY <1>8 DEF Expire
  <2>2. item'[o].owner = Nobody /\ \A p \in Objs \ {o} : item'[p] = item[p]
    BY <1>0, <2>1 DEF Freed
  <2>3. 1 \in Chars
    BY ExchangeAssumption DEF Chars
  <2> QED  BY <2>2, <2>3, OneMoves
<1>9. ASSUME NEW c \in Chars, Leave(c) PROVE InPlace'
  BY <1>1, <1>2, <1>9 DEF Leave, Cancelled
<1>10. ASSUME NEW c \in Chars, AcceptRefused(c) \/ Cancel(c) PROVE InPlace'
  BY <1>2, <1>10 DEF AcceptRefused, Cancel, Cancelled
<1>11. ASSUME NEW c \in Chars, NEW s \in Slots, RemoveItem(c, s) PROVE InPlace'
  BY <1>2, <1>11 DEF RemoveItem
<1>12. ASSUME NEW c \in Chars, NEW d \in Chars, ExchangeStart(c, d) PROVE InPlace'
  BY <1>1, <1>12 DEF ExchangeStart, world, possessions
<1>13. ASSUME NEW c \in Chars, NEW g, AddGold(c, g) \/ AcceptFirst(c) PROVE InPlace'
  BY <1>1, <1>13 DEF AddGold, AcceptFirst, world, possessions
<1>14. ASSUME NEW c \in Chars, Earn(c) \/ Pay(c) PROVE InPlace'
  BY <1>1, <1>14 DEF Earn, Pay
<1>15. CASE ProcessDelayedSave
  BY <1>1, <1>15 DEF ProcessDelayedSave, possessions
<1>16. CASE UNCHANGED vars
  BY <1>1, <1>16 DEF vars
<1>17. Next => InPlace'
  BY <1>3, <1>4, <1>5, <1>6, <1>7, <1>8, <1>9, <1>10, <1>11, <1>12, <1>13, <1>14,
     <1>15 DEF Next
<1> QED  BY <1>16, <1>17

-----------------------------------------------------------------------------
(* Saved gold.                                                             *)

(* Who does not wait to be saved has no more gold in its row than it owns  *)
(* or has paid to the world since.                                         *)
RowsBacked == \A c \in Chars : c \notin pend => row[c] <= gold[c] + spent[c]

(* The rows are backed at the start.                                       *)
LEMMA RowsStart == Init => RowsBacked
<1> SUFFICES ASSUME Init, NEW c \in Chars PROVE row[c] <= gold[c] + spent[c]
  BY DEF RowsBacked
<1>1. StartGold[c] \in Nat /\ row[c] = StartGold[c] /\ gold[c] = StartGold[c] /\ spent[c] = 0
  BY ExchangeAssumption DEF Init
<1> QED  BY <1>1

(* A save backs the row it writes.                                         *)
LEMMA RowsWritten ==
    ASSUME TypeOK, RowsBacked, NEW who, Written(who), UNCHANGED gold
    PROVE  RowsBacked'
<1> SUFFICES ASSUME NEW c \in Chars, c \notin pend' PROVE row'[c] <= gold'[c] + spent'[c]
  BY DEF RowsBacked
<1>1. gold[c] \in Nat
  BY NumberTypes DEF TypeOK
<1>2. CASE c \in who
  BY <1>1, <1>2 DEF Written
<1>3. CASE c \notin who
  BY <1>3 DEF Written, RowsBacked
<1> QED  BY <1>2, <1>3

(* Every step leaves the rows backed that no save is due for.              *)
LEMMA RowsKept ==
    ASSUME TypeOK, Paired, Idle, RowsBacked, [Next]_vars
    PROVE  RowsBacked'
<1>0. \A c \in Chars : gold[c] \in Nat /\ row[c] \in Nat /\ spent[c] \in Nat
  BY NumberTypes DEF TypeOK
<1>1. CASE UNCHANGED <<gold, row, spent, pend>>
  BY <1>1 DEF RowsBacked
<1>2. ASSUME NEW c \in Chars, NEW zc, NEW zd, AcceptDone(c, zc, zd) PROVE RowsBacked'
  <2> SUFFICES ASSUME NEW x \in Chars, x \notin pend' PROVE row'[x] <= gold'[x] + spent'[x]
    BY DEF RowsBacked
  <2>1. with[c] \in Chars /\ c # with[c]
    BY <1>2, Swap
  <2>2. /\ x \notin pend /\ row'[x] = row[x] /\ spent'[x] = spent[x]
        /\ x \in {c, with[c]} => exch[x].gold = 0
    BY <1>2 DEF AcceptDone, Payers
  <2>3. exch[c].gold \in Nat /\ exch[with[c]].gold \in Nat
    BY <2>1, NumberTypes DEF TypeOK
  <2>4. gold'[x] >= gold[x]
    <3>1. CASE x = c
      <4>1. gold'[c] >= gold[c] - exch[c].gold
        BY <1>2, DoneGold
      <4> QED  BY <1>0, <2>2, <3>1, <4>1
    <3>2. CASE x = with[c]
      <4>1. gold'[with[c]] \in {gold[with[c]] - exch[with[c]].gold,
                                gold[with[c]] - exch[with[c]].gold + exch[c].gold}
        BY <1>2, DoneGold
      <4> HIDE DEF AcceptDone
      <4>2. gold[x] \in Nat /\ exch[x].gold = 0
        BY <1>0, <2>2, <3>2
      <4> QED  BY <2>3, <3>2, <4>1, <4>2
    <3>3. CASE x \notin {c, with[c]}
      <4>1. gold'[x] = gold[x]
        BY <1>2, <3>3, DoneGold
      <4> QED  BY <1>0, <4>1
    <3> QED  BY <3>1, <3>2, <3>3
  <2>5. row[x] <= gold[x] + spent[x] /\ gold'[x] \in Nat
    <3>1. gold' \in [Chars -> Purse]
      BY <1>2, DoneGold
    <3> QED  BY <2>2, <3>1, NumberTypes DEF RowsBacked
  <2> QED  BY <1>0, <2>2, <2>4, <2>5
<1>3. ASSUME NEW c \in Chars, Earn(c) PROVE RowsBacked'
  <2> SUFFICES ASSUME NEW x \in Chars, x \notin pend' PROVE row'[x] <= gold'[x] + spent'[x]
    BY DEF RowsBacked
  <2>1. /\ x # c /\ x \notin pend /\ row'[x] = row[x] /\ spent'[x] = spent[x]
        /\ gold' = [gold EXCEPT ![c] = @ + 1]
    BY <1>3 DEF Earn
  <2>2. gold'[x] = gold[x]
    BY <2>1 DEF TypeOK
  <2> QED  BY <2>1, <2>2 DEF RowsBacked
<1>4. ASSUME NEW c \in Chars, Pay(c) PROVE RowsBacked'
  <2> SUFFICES ASSUME NEW x \in Chars, x \notin pend' PROVE row'[x] <= gold'[x] + spent'[x]
    BY DEF RowsBacked
  <2>1. /\ x \notin pend /\ row'[x] = row[x]
        /\ gold' = [gold EXCEPT ![c] = @ - 1] /\ spent' = [spent EXCEPT ![c] = @ + 1]
    BY <1>4 DEF Pay
  <2>2. gold'[x] + spent'[x] = gold[x] + spent[x]
    BY <1>0, <2>1 DEF TypeOK
  <2> QED  BY <2>1, <2>2 DEF RowsBacked
<1>5. ASSUME NEW c \in Chars, Leave(c) PROVE RowsBacked'
  BY <1>5, RowsWritten DEF Leave
<1>6. CASE ProcessDelayedSave
  BY <1>6, RowsWritten DEF ProcessDelayedSave, possessions
<1>7. ASSUME NEW c \in Chars, NEW o \in Objs, NEW s \in Slots, AddItem(c, o, s)
      PROVE  RowsBacked'
  BY <1>1, <1>7 DEF AddItem, saves
<1>8. ASSUME NEW c \in Chars, NEW s \in Slots, RemoveItem(c, s) PROVE RowsBacked'
  BY <1>1, <1>8 DEF RemoveItem, saves
<1>9. ASSUME NEW c \in Chars, NEW o \in Objs,
             PickUp(c, o) \/ PickUpIntoStack(c, o) \/ MoveItem(c, o)
      PROVE  RowsBacked'
  BY <1>1, <1>9 DEF PickUp, PickUpIntoStack, MoveItem, saves
<1>10. ASSUME NEW o \in Objs, Expire(o) PROVE RowsBacked'
  BY <1>1, <1>10 DEF Expire, saves
<1>11. ASSUME NEW c \in Chars, AcceptRefused(c) \/ Cancel(c) PROVE RowsBacked'
  BY <1>1, <1>11 DEF AcceptRefused, Cancel, saves
<1>12. ASSUME NEW c \in Chars, NEW d \in Chars, ExchangeStart(c, d) PROVE RowsBacked'
  BY <1>1, <1>12 DEF ExchangeStart, world, possessions, saves
<1>13. ASSUME NEW c \in Chars, NEW g, AddGold(c, g) \/ AcceptFirst(c) PROVE RowsBacked'
  BY <1>1, <1>13 DEF AddGold, AcceptFirst, world, possessions, saves
<1>14. CASE UNCHANGED vars
  BY <1>1, <1>14 DEF vars
<1>15. Next => RowsBacked'
  BY <1>2, <1>3, <1>4, <1>5, <1>6, <1>7, <1>8, <1>9, <1>10, <1>11, <1>12, <1>13 DEF Next
<1> QED  BY <1>14, <1>15

(* The sum over the characters: there is a function that adds up.          *)
LEMMA TotalSums ==
    ASSUME NEW purse \in [Chars -> Nat]
    PROVE  \E f \in [0..NChars -> Nat] :
              /\ f[0] = 0
              /\ \A c \in Chars : f[c] = f[c - 1] + purse[c]
              /\ Total(purse) = f[NChars]
<1> DEFINE Plus(c, t) == t + purse[c]
           step == [x \in (1..NChars) \X Nat |-> Plus(x[1], x[2])]
           Adds(f) == [c \in 0..NChars |-> IF c = 0 THEN 0 ELSE Plus(c, f[c - 1])]
           sum == CHOOSE f : f = Adds(f)
<1>0. NChars \in Nat /\ Chars = 1..NChars
  BY ExchangeAssumption DEF Chars
<1>1. \A c \in 1..NChars, t \in Nat : Plus(c, t) \in Nat
  BY <1>0
<1>2. sum = Adds(sum)
  <2> HIDE DEF Plus
  <2>1. step \in [(1..NChars) \X Nat -> Nat]
    BY <1>1
  <2>2. PICK f : Run(f, Nat, 0, NChars, step)
    <3>1. 0 \in Nat  OBVIOUS
    <3> HIDE DEF step
    <3> QED  BY <1>0, <2>1, <3>1, Iterates
  <2>3. \A c \in 1..NChars : f[c] = Plus(c, f[c - 1])
    <3> TAKE c \in 1..NChars
    <3>1. <<c, f[c - 1]>> \in (1..NChars) \X Nat
      <4> HIDE DEF step
      <4>1. c - 1 \in 0..NChars
        BY <1>0
      <4>a. f \in [0..NChars -> Nat]
        BY <2>2 DEF Run
      <4>2. f[c - 1] \in Nat
        BY <4>1, <4>a
      <4> QED  BY <4>2
    <3>2. step[<<c, f[c - 1]>>] = Plus(c, f[c - 1])
      BY <3>1
    <3> HIDE DEF step
    <3> QED  BY <2>2, <3>2 DEF Run
  <2>4. f \in [0..NChars -> Nat] /\ f[0] = 0
    BY <2>2 DEF Run
  <2>5. \A c \in 0..NChars : f[c] = IF c = 0 THEN 0 ELSE Plus(c, f[c - 1])
    BY <1>0, <2>3, <2>4
  <2>6. f = Adds(f)
    BY <2>4, <2>5
  <2> QED  BY <2>6
<1> HIDE DEF sum
<1>6. /\ sum[0] = 0
      /\ \A c \in 1..NChars : sum[c] = Plus(c, sum[c - 1])
      /\ sum = [c \in 0..NChars |-> sum[c]]
  <2> HIDE DEF Plus
  <2>1. sum = [c \in 0..NChars |-> IF c = 0 THEN 0 ELSE Plus(c, sum[c - 1])]
    BY <1>2
  <2>2. \A c \in 0..NChars : sum[c] = IF c = 0 THEN 0 ELSE Plus(c, sum[c - 1])
    BY <2>1, Zenon
  <2>3. 0 \in 0..NChars /\ \A c \in 1..NChars : c \in 0..NChars /\ c # 0
    BY <1>0
  <2>4. sum = [c \in 0..NChars |-> sum[c]]
    BY <2>1, Zenon
  <2> QED  BY <2>2, <2>3, <2>4
<1>7. sum \in [0..NChars -> Nat]
  <2> DEFINE T == {n \in Nat : n <= NChars => sum[n] \in Nat}
  <2>1. 0 \in T
    <3>1. sum[0] = 0
      BY <1>6, Zenon
    <3> QED  BY <3>1
  <2>2. \A n \in Nat : n \in T => n + 1 \in T
    <3> SUFFICES ASSUME NEW n \in Nat, n + 1 <= NChars, sum[n] \in Nat
                 PROVE  sum[n + 1] \in Nat
      BY <1>0
    <3>1. n + 1 \in 1..NChars /\ (n + 1) - 1 = n
      BY <1>0
    <3> HIDE DEF Plus
    <3>2. sum[n + 1] = Plus(n + 1, sum[n])
      BY <1>6, <3>1
    <3> QED  BY <1>1, <3>1, <3>2
  <2> HIDE DEF T
  <2>3. Nat \subseteq T
    BY <2>1, <2>2, InductiveSet
  <2>4. \A n \in 0..NChars : sum[n] \in Nat
    BY <1>0, <2>3 DEF T
  <2> QED  BY <1>6, <2>4
<1>8. Total(purse) = sum[NChars]
  BY DEF Total, sum
<1>9. \A c \in Chars : sum[c] = sum[c - 1] + purse[c]
  BY <1>0, <1>6
<1> QED  BY <1>6, <1>7, <1>8, <1>9, Zenon

(* Sums compare as their parts do.                                         *)
LEMMA TotalsBounded ==
    ASSUME NEW f \in [Chars -> Nat], NEW g \in [Chars -> Nat], NEW h \in [Chars -> Nat],
           \A c \in Chars : f[c] <= g[c] + h[c]
    PROVE  Total(f) <= Total(g) + Total(h)
<1>0. NChars \in Nat /\ Chars = 1..NChars
  BY ExchangeAssumption DEF Chars
<1>1. PICK F \in [0..NChars -> Nat] :
         F[0] = 0 /\ (\A c \in Chars : F[c] = F[c - 1] + f[c]) /\ Total(f) = F[NChars]
  BY TotalSums
<1>2. PICK G \in [0..NChars -> Nat] :
         G[0] = 0 /\ (\A c \in Chars : G[c] = G[c - 1] + g[c]) /\ Total(g) = G[NChars]
  BY TotalSums
<1>3. PICK H \in [0..NChars -> Nat] :
         H[0] = 0 /\ (\A c \in Chars : H[c] = H[c - 1] + h[c]) /\ Total(h) = H[NChars]
  BY TotalSums
<1> DEFINE T == {n \in Nat : n <= NChars => F[n] <= G[n] + H[n]}
<1>4. 0 \in T
  BY <1>1, <1>2, <1>3
<1>5. \A n \in Nat : n \in T => n + 1 \in T
  <2> SUFFICES ASSUME NEW n \in Nat, n + 1 <= NChars, F[n] <= G[n] + H[n]
               PROVE  F[n + 1] <= G[n + 1] + H[n + 1]
    BY <1>0
  <2>1. n + 1 \in Chars /\ (n + 1) - 1 = n /\ n \in 0..NChars
    BY <1>0
  <2>2. F[n + 1] = F[n] + f[n + 1] /\ G[n + 1] = G[n] + g[n + 1] /\ H[n + 1] = H[n] + h[n + 1]
    BY <1>1, <1>2, <1>3, <2>1
  <2>3. /\ F[n] \in Nat /\ G[n] \in Nat /\ H[n] \in Nat
        /\ f[n + 1] \in Nat /\ g[n + 1] \in Nat /\ h[n + 1] \in Nat
        /\ f[n + 1] <= g[n + 1] + h[n + 1]
    BY <2>1
  <2> QED  BY <2>2, <2>3
<1> HIDE DEF T
<1>6. Nat \subseteq T
  BY <1>4, <1>5, InductiveSet
<1>7. F[NChars] <= G[NChars] + H[NChars]
  BY <1>0, <1>6 DEF T
<1> QED  BY <1>1, <1>2, <1>3, <1>7

(* Backed rows have no gold that nobody has or paid.                       *)
LEMMA NoGoldDoubledOf ==
    ASSUME TypeOK, RowsBacked
    PROVE  NoGoldDoubled
<1> SUFFICES ASSUME pend = {} PROVE Total(row) <= Total(gold) + Total(spent)
  BY DEF NoGoldDoubled
<1>1. /\ row \in [Chars -> Nat] /\ gold \in [Chars -> Nat] /\ spent \in [Chars -> Nat]
      /\ \A c \in Chars : row[c] <= gold[c] + spent[c]
  BY NumberTypes DEF TypeOK, RowsBacked
<1> QED  BY <1>1, TotalsBounded

-----------------------------------------------------------------------------
(* Offers.                                                                 *)

Offered(c, s, o) == exch[c].slot[s] # NoItem /\ exch[c].slot[s].obj = o

Faithful ==
    \A c \in Chars, s \in Slots, o \in Objs : Offered(c, s, o) =>
        \/ item[o].owner = Nobody
        \/ item[o].owner = c /\ item[o].cell = exch[c].slot[s].cell /\ item[o].ex
Distinct ==
    \A c \in Chars, d \in Chars, s \in Slots, t \in Slots, o \in Objs :
        Offered(c, s, o) /\ Offered(d, t, o) => c = d /\ s = t
Marked ==
    \A o \in Objs : item[o].ex =>
        \E c \in Chars, s \in Slots : item[o].owner = c /\ Offered(c, s, o)

(* As long as no object was reused while it was on offer.                  *)
Kept == "reused" \notin excuses => Faithful /\ Distinct /\ Marked

(* Held, slot by slot.                                                     *)
LEMMA HeldIsOffered ==
    ASSUME TypeOK, NEW c \in Chars
    PROVE  /\ \A o : o \in Held(c) <=> \E s \in Slots : Offered(c, s, o)
           /\ \A s \in Used(c) : s \in Slots /\ exch[c].slot[s].obj \in Objs
                                 /\ Offered(c, s, exch[c].slot[s].obj)
<1>1. \A s \in Used(c) : s \in Slots /\ exch[c].slot[s].obj \in Objs
  BY HeldObjs DEF Used, Slot
<1> QED  BY <1>1 DEF Held, Used, Offered

(* Kept is more than what the run checks as OffersHold.                    *)
LEMMA OffersHoldOf ==
    ASSUME TypeOK, Kept
    PROVE  OffersHold
<1> SUFFICES ASSUME "reused" \notin excuses PROVE MarkedIffOffered /\ OfferStays
  BY DEF OffersHold, MarkedIffOffered, OfferStays
<1>1. Faithful /\ Distinct /\ Marked
  BY DEF Kept
<1>2. OfferStays
  BY <1>1, HeldIsOffered DEF OfferStays, Faithful
<1>3. ASSUME NEW o \in Objs, item[o].ex
      PROVE  \E c \in Chars : item[o].owner = c /\ o \in Held(c)
  BY <1>1, <1>3, HeldIsOffered DEF Marked
<1>4. ASSUME NEW o \in Objs, NEW c \in Chars, item[o].owner = c, o \in Held(c)
      PROVE  item[o].ex
  BY <1>1, <1>4, HeldIsOffered, NumberTypes DEF Faithful
<1>5. \A o \in Objs : item[o].ex \in BOOLEAN
  BY DEF TypeOK, Item
<1> QED  BY <1>2, <1>3, <1>4, <1>5 DEF MarkedIffOffered

(* Nothing is on offer at the start.                                       *)
LEMMA KeptStart == Init => Kept
<1> SUFFICES ASSUME Init PROVE Faithful /\ Distinct /\ Marked
  BY DEF Kept
<1>1. \A c \in Chars, s \in Slots : exch[c].slot[s] = NoItem
  BY DEF Init, NoExch
<1>2. \A o \in Objs : item[o].ex = FALSE
  <2>1. item = Start
    BY ExchangeAssumption DEF Init
  <2> QED  BY <2>1, ExchangeAssumption
<1> QED  BY <1>1, <1>2 DEF Faithful, Distinct, Marked, Offered

(* Neither the slots nor what they rely on changes.                        *)
LEMMA KeptBySame ==
    ASSUME Kept, "reused" \in excuses => "reused" \in excuses',
           \A c \in Chars : exch'[c].slot = exch[c].slot,
           \A o \in Objs : /\ item'[o].owner = item[o].owner /\ item'[o].cell = item[o].cell
                           /\ item'[o].ex = item[o].ex
    PROVE  Kept'
<1>1. \A c \in Chars, s \in Slots, o \in Objs : Offered(c, s, o)' <=> Offered(c, s, o)
  BY DEF Offered
<1>2. Faithful => Faithful'
  BY <1>1 DEF Faithful
<1>3. Distinct => Distinct'
  BY <1>1 DEF Distinct
<1>4. Marked => Marked'
  BY <1>1 DEF Marked
<1> QED  BY <1>2, <1>3, <1>4 DEF Kept

(* One object that nobody offers moves or is created; or one is freed.     *)
LEMMA KeptByOne ==
    ASSUME Kept, "reused" \in excuses => "reused" \in excuses',
           \A c \in Chars : exch'[c].slot = exch[c].slot,
           NEW o \in Objs, item'[o].ex = FALSE,
           \A p \in Objs \ {o} : item'[p] = item[p],
           "reused" \notin excuses' =>
              \/ item'[o].owner = Nobody
              \/ \A c \in Chars, s \in Slots : ~Offered(c, s, o)
    PROVE  Kept'
<1> SUFFICES ASSUME "reused" \notin excuses' PROVE Faithful' /\ Distinct' /\ Marked'
  BY DEF Kept
<1>0. Faithful /\ Distinct /\ Marked
  BY DEF Kept
<1>1. \A c \in Chars, s \in Slots, p \in Objs : Offered(c, s, p)' <=> Offered(c, s, p)
  BY DEF Offered
<1>2. Faithful'
  <2> SUFFICES ASSUME NEW c \in Chars, NEW s \in Slots, NEW p \in Objs, Offered(c, s, p)
               PROVE  \/ item'[p].owner = Nobody
                      \/ /\ item'[p].owner = c /\ item'[p].ex
                         /\ item'[p].cell = exch'[c].slot[s].cell
    BY <1>1 DEF Faithful
  <2>1. CASE p = o
    BY <2>1
  <2>2. CASE p # o
    BY <1>0, <2>2 DEF Faithful
  <2> QED  BY <2>1, <2>2
<1>3. Distinct'
  BY <1>0, <1>1 DEF Distinct
<1>4. Marked'
  <2> SUFFICES ASSUME NEW p \in Objs, item'[p].ex
               PROVE  \E x \in Chars, s \in Slots : item'[p].owner = x /\ Offered(x, s, p)'
    BY DEF Marked
  <2>1. item'[p] = item[p]
    OBVIOUS
  <2>2. PICK x \in Chars, s \in Slots : item[p].owner = x /\ Offered(x, s, p)
    BY <1>0, <2>1 DEF Marked
  <2> QED  BY <1>1, <2>1, <2>2
<1> QED  BY <1>2, <1>3, <1>4

(* An item is offered that nobody offers.                                  *)
LEMMA KeptByAdding ==
    ASSUME TypeOK, Paired, Kept, NEW c \in Chars, NEW o \in Objs, NEW s \in Slots,
           AddItem(c, o, s)
    PROVE  Kept'
<1> SUFFICES ASSUME "reused" \notin excuses PROVE Faithful' /\ Distinct' /\ Marked'
  BY DEF Kept, AddItem
<1> DEFINE sl == [obj |-> o, cell |-> item[o].cell]
           e == [exch[c] EXCEPT !.slot[s] = sl]
<1>0. Faithful /\ Distinct /\ Marked
  BY DEF Kept
<1>1. item[o].owner = c /\ ~item[o].ex /\ c # Nobody /\ exch[c].slot[s] = NoItem
  BY NumberTypes DEF AddItem
<1>2. \A d \in Chars, t \in Slots : ~Offered(d, t, o)
  BY <1>0, <1>1 DEF Faithful
<1>3. /\ exch'[c].slot = e.slot
      /\ \A x \in Chars \ {c} : exch'[x].slot = exch[x].slot
  <2>1. e \in Exchanges
    BY TypeParts DEF ExchOK, ItemOK, Exchanges, Slot, Item
  <2>2. with[c] # Nobody /\ Changed(c, e)
    BY DEF AddItem, MayChange
  <2> HIDE DEF e
  <2> QED  BY <2>1, <2>2, ChangedSides
<1>4. /\ exch'[c].slot[s] = sl /\ sl # NoItem /\ sl.obj = o
      /\ \A t \in Slots \ {s} : exch'[c].slot[t] = exch[c].slot[t]
  <2>1. exch[c] \in Exchanges
    BY TypeParts DEF ExchOK
  <2>2. e.slot = [exch[c].slot EXCEPT ![s] = sl]
    BY <2>1 DEF Exchanges
  <2>3. sl # NoItem
    BY DEF NoItem, Nobody, Objs
  <2> QED  BY <1>3, <2>1, <2>2, <2>3 DEF Exchanges
<1> HIDE DEF e
<1>5. /\ Offered(c, s, o)' /\ exch'[c].slot[s].cell = item[o].cell
      /\ \A p \in Objs \ {o} : ~Offered(c, s, p)'
  BY <1>4 DEF Offered
<1> HIDE DEF sl
<1>6. ASSUME NEW d \in Chars, NEW t \in Slots, NEW p \in Objs, d # c \/ t # s
      PROVE  /\ Offered(d, t, p)' <=> Offered(d, t, p)
             /\ exch'[d].slot[t] = exch[d].slot[t]
  BY <1>3, <1>4, <1>6 DEF Offered
<1>7. /\ item'[o].owner = c /\ item'[o].cell = item[o].cell /\ item'[o].ex = TRUE
      /\ \A p \in Objs \ {o} : item'[p] = item[p]
  BY <1>1 DEF AddItem, TypeOK, Item
<1>8. Faithful'
  <2> SUFFICES ASSUME NEW d \in Chars, NEW t \in Slots, NEW p \in Objs, Offered(d, t, p)'
               PROVE  \/ item'[p].owner = Nobody
                      \/ /\ item'[p].owner = d /\ item'[p].ex
                         /\ item'[p].cell = exch'[d].slot[t].cell
    BY DEF Faithful
  <2>1. CASE d = c /\ t = s
    BY <1>5, <1>7, <2>1
  <2>2. CASE d # c \/ t # s
    <3>1. Offered(d, t, p) /\ exch'[d].slot[t] = exch[d].slot[t]
      BY <1>6, <2>2
    <3>2. p # o
      BY <1>2, <3>1
    <3> QED  BY <1>0, <1>7, <3>1, <3>2 DEF Faithful
  <2> QED  BY <2>1, <2>2
<1>9. Distinct'
  <2> SUFFICES ASSUME NEW x \in Chars, NEW y \in Chars, NEW t \in Slots, NEW u \in Slots,
                      NEW p \in Objs, Offered(x, t, p)', Offered(y, u, p)'
               PROVE  x = y /\ t = u
    BY DEF Distinct
  <2>1. CASE (x = c /\ t = s) \/ (y = c /\ u = s)
    BY <1>2, <1>5, <1>6, <2>1
  <2>2. CASE ~((x = c /\ t = s) \/ (y = c /\ u = s))
    BY <1>0, <1>6, <2>2 DEF Distinct
  <2> QED  BY <2>1, <2>2
<1>10. Marked'
  <2> SUFFICES ASSUME NEW p \in Objs, item'[p].ex
               PROVE  \E x \in Chars, t \in Slots : item'[p].owner = x /\ Offered(x, t, p)'
    BY DEF Marked
  <2>1. CASE p = o
    BY <1>5, <1>7, <2>1
  <2>2. CASE p # o
    <3>1. item'[p] = item[p]
      BY <1>7, <2>2
    <3>2. PICK x \in Chars, t \in Slots : item[p].owner = x /\ Offered(x, t, p)
      BY <1>0, <3>1 DEF Marked
    <3>3. x # c \/ t # s
      BY <1>1, <3>2 DEF Offered
    <3> QED  BY <1>6, <3>1, <3>2, <3>3
  <2> QED  BY <2>1, <2>2
<1> QED  BY <1>8, <1>9, <1>10

(* An item is taken back from the offer.                                   *)
LEMMA KeptByRemoving ==
    ASSUME TypeOK, Paired, Kept, NEW c \in Chars, NEW s \in Slots, RemoveItem(c, s)
    PROVE  Kept'
<1> SUFFICES ASSUME "reused" \notin excuses PROVE Faithful' /\ Distinct' /\ Marked'
  BY DEF Kept, RemoveItem
<1> DEFINE o == exch[c].slot[s].obj
           e == [exch[c] EXCEPT !.slot[s] = NoItem]
<1>0. Faithful /\ Distinct /\ Marked
  BY DEF Kept
<1>1. Offered(c, s, o) /\ o \in Objs
  <2>1. exch[c].slot[s] # NoItem
    BY DEF RemoveItem
  <2> QED  BY <2>1, HeldObjs DEF Offered, Slot
<1>2. /\ exch'[c].slot = e.slot
      /\ \A x \in Chars \ {c} : exch'[x].slot = exch[x].slot
  <2>1. e \in Exchanges
    BY TypeParts, NumberTypes DEF ExchOK, Exchanges
  <2>2. with[c] # Nobody /\ Changed(c, e)
    BY DEF RemoveItem, MayChange
  <2> HIDE DEF e
  <2> QED  BY <2>1, <2>2, ChangedSides
<1>3. /\ exch'[c].slot[s] = NoItem
      /\ \A t \in Slots \ {s} : exch'[c].slot[t] = exch[c].slot[t]
  <2>1. exch[c] \in Exchanges
    BY TypeParts DEF ExchOK
  <2>2. e.slot = [exch[c].slot EXCEPT ![s] = NoItem]
    BY <2>1 DEF Exchanges
  <2> QED  BY <1>2, <2>1, <2>2 DEF Exchanges
<1>4. \A p \in Objs : /\ item'[p].owner = item[p].owner /\ item'[p].cell = item[p].cell
                      /\ item'[p].ex = (item[p].ex /\ p # o)
  BY ReleaseSpots DEF RemoveItem
<1> HIDE DEF e, o
<1>5. ASSUME NEW d \in Chars, NEW t \in Slots, NEW p \in Objs
      PROVE  /\ Offered(d, t, p)' <=> (Offered(d, t, p) /\ (d # c \/ t # s))
             /\ Offered(d, t, p)' => exch'[d].slot[t] = exch[d].slot[t] /\ p # o
  <2>1. Offered(d, t, p)' <=> (Offered(d, t, p) /\ (d # c \/ t # s))
    BY <1>2, <1>3 DEF Offered
  <2>2. (d # c \/ t # s) => exch'[d].slot[t] = exch[d].slot[t]
    BY <1>2, <1>3
  <2>3. Offered(d, t, p) /\ (d # c \/ t # s) => p # o
    BY <1>0, <1>1 DEF Distinct
  <2> QED  BY <2>1, <2>2, <2>3
<1>6. Faithful'
  <2> SUFFICES ASSUME NEW d \in Chars, NEW t \in Slots, NEW p \in Objs, Offered(d, t, p)'
               PROVE  \/ item'[p].owner = Nobody
                      \/ /\ item'[p].owner = d /\ item'[p].ex
                         /\ item'[p].cell = exch'[d].slot[t].cell
    BY DEF Faithful
  <2>1. Offered(d, t, p) /\ p # o /\ exch'[d].slot[t] = exch[d].slot[t]
    BY <1>5
  <2>2. /\ item'[p].owner = item[p].owner /\ item'[p].cell = item[p].cell
        /\ item'[p].ex = (item[p].ex /\ p # o)
    BY <1>4
  <2>3. CASE item[p].owner = Nobody
    BY <2>2, <2>3
  <2>4. CASE item[p].owner # Nobody
    <3>1. item[p].owner = d /\ item[p].cell = exch[d].slot[t].cell /\ item[p].ex
      BY <1>0, <2>1, <2>4 DEF Faithful
    <3>2. item'[p].ex
      BY <2>1, <2>2, <3>1, Zenon
    <3> QED  BY <2>1, <2>2, <3>1, <3>2
  <2> QED  BY <2>3, <2>4
<1>7. Distinct'
  BY <1>0, <1>5 DEF Distinct
<1>8. Marked'
  <2> SUFFICES ASSUME NEW p \in Objs, item'[p].ex
               PROVE  \E x \in Chars, t \in Slots : item'[p].owner = x /\ Offered(x, t, p)'
    BY DEF Marked
  <2>1. item[p].ex /\ p # o /\ item'[p].owner = item[p].owner
    BY <1>4
  <2>2. PICK x \in Chars, t \in Slots : item[p].owner = x /\ Offered(x, t, p)
    BY <1>0, <2>1 DEF Marked
  <2>3. x # c \/ t # s
    BY <1>1, <2>1, <2>2 DEF Offered
  <2> QED  BY <1>5, <2>1, <2>2, <2>3
<1> QED  BY <1>6, <1>7, <1>8

(* Two windows close, whatever becomes of what was offered in them.        *)
LEMMA KeptByClosing ==
    ASSUME TypeOK, Paired, Kept, NEW c \in Chars, with[c] # Nobody, Closed(c),
           UNCHANGED excuses,
           \A o \in Objs :
              IF o \in Held(c) \cup Held(with[c]) THEN item'[o].ex = FALSE
              ELSE /\ item'[o].owner = item[o].owner /\ item'[o].cell = item[o].cell
                   /\ item'[o].ex = item[o].ex
    PROVE  Kept'
<1> SUFFICES ASSUME "reused" \notin excuses PROVE Faithful' /\ Distinct' /\ Marked'
  BY DEF Kept
<1> DEFINE d == with[c]
           H == Held(c) \cup Held(d)
<1>0. Faithful /\ Distinct /\ Marked /\ d \in Chars
  BY Sides DEF Kept
<1>1. /\ exch'[c] = NoExch /\ exch'[d] = NoExch
      /\ \A x \in Chars \ {c, d} : exch'[x] = exch[x]
  BY ClosedSides
<1>2. \A o \in Objs : o \in H <=> \E s \in Slots : Offered(c, s, o) \/ Offered(d, s, o)
  BY <1>0, HeldIsOffered
<1>3. \A o \in Objs : /\ o \in H => item'[o].ex = FALSE
                      /\ o \notin H => /\ item'[o].owner = item[o].owner
                                       /\ item'[o].cell = item[o].cell
                                       /\ item'[o].ex = item[o].ex
  OBVIOUS
<1> HIDE DEF d, H
<1>4. ASSUME NEW x \in Chars, NEW t \in Slots, NEW o \in Objs
      PROVE  /\ Offered(x, t, o)' <=> (Offered(x, t, o) /\ x \notin {c, d})
             /\ Offered(x, t, o)' => exch'[x] = exch[x] /\ o \notin H
  <2>1. Offered(x, t, o)' <=> (Offered(x, t, o) /\ x \notin {c, d})
    <3>1. CASE x \in {c, d}
      <4>1. exch'[x].slot[t] = NoItem
        BY <1>1, <3>1 DEF NoExch
      <4> QED  BY <3>1, <4>1 DEF Offered
    <3>2. CASE x \notin {c, d}
      BY <1>1, <3>2 DEF Offered
    <3> QED  BY <3>1, <3>2
  <2>2. Offered(x, t, o) /\ x \notin {c, d} => o \notin H
    BY <1>0, <1>2 DEF Distinct
  <2> QED  BY <1>1, <2>1, <2>2
<1>5. Faithful'
  BY <1>0, <1>3, <1>4 DEF Faithful
<1>6. Distinct'
  BY <1>0, <1>4 DEF Distinct
<1>7. Marked'
  <2> SUFFICES ASSUME NEW o \in Objs, item'[o].ex
               PROVE  \E x \in Chars, t \in Slots : item'[o].owner = x /\ Offered(x, t, o)'
    BY DEF Marked
  <2>1. item[o].ex /\ o \notin H /\ item'[o].owner = item[o].owner
    BY <1>3
  <2>2. PICK x \in Chars, t \in Slots : item[o].owner = x /\ Offered(x, t, o)
    BY <1>0, <2>1 DEF Marked
  <2>3. x \notin {c, d}
    BY <1>2, <2>1, <2>2
  <2> QED  BY <1>4, <2>1, <2>2, <2>3
<1> QED  BY <1>5, <1>6, <1>7

(* Release takes the mark off the objects it is given.                     *)
LEMMA ReleaseMarks ==
    ASSUME TypeOK, NEW S, Release(S), NEW o \in Objs
    PROVE  /\ o \in S => item'[o].ex = FALSE
           /\ o \notin S => item'[o].ex = item[o].ex
  BY DEF Release, TypeOK, Item

(* A cancelled exchange leaves no mark behind.                             *)
LEMMA KeptByCancel ==
    ASSUME TypeOK, Paired, Kept, NEW c \in Chars, with[c] # Nobody, Cancelled(c),
           UNCHANGED excuses
    PROVE  Kept'
<1>1. Closed(c) /\ Release(Held(c) \cup Held(with[c]))
  BY DEF Cancelled
<1>3. \A o \in Objs :
         IF o \in Held(c) \cup Held(with[c]) THEN item'[o].ex = FALSE
         ELSE /\ item'[o].owner = item[o].owner /\ item'[o].cell = item[o].cell
              /\ item'[o].ex = item[o].ex
  BY <1>1, ReleaseSpots, ReleaseMarks
<1> QED  BY <1>1, <1>3, KeptByClosing

(* Nor does one that ends in a trade.                                      *)
LEMMA KeptByDone ==
    ASSUME TypeOK, Paired, Kept, NEW c \in Chars, NEW zc, NEW zd, AcceptDone(c, zc, zd)
    PROVE  Kept'
<1> DEFINE H == Held(c) \cup Held(with[c])
<1>1. with[c] # Nobody /\ Closed(c) /\ UNCHANGED excuses
  BY DEF AcceptDone, BothAccept
<1>2. Lands(There(c)) \subseteq H /\ Lands(Back(c)) \subseteq H
  BY Swap
<1>4. \A o \in Objs :
         IF o \in H THEN item'[o].ex = FALSE
         ELSE /\ item'[o].owner = item[o].owner /\ item'[o].cell = item[o].cell
              /\ item'[o].ex = item[o].ex
  BY <1>2, DoneItems
<1> QED  BY <1>1, <1>4, KeptByClosing

(* Every step keeps the offers.                                            *)
LEMMA OffersKept ==
    ASSUME TypeOK, Paired, Idle, Kept, [Next]_vars
    PROVE  Kept'
<1>0. item \in [Objs -> Item] /\ ExchOK
  BY TypeParts DEF ItemOK
<1>1. ASSUME UNCHANGED <<item, exch, excuses>> PROVE Kept'
  BY <1>1, KeptBySame
<1>2. ASSUME NEW c \in Chars, NEW d \in Chars, ExchangeStart(c, d) PROVE Kept'
  <2>1. /\ UNCHANGED <<item, excuses>>
        /\ exch' = [exch EXCEPT ![c] = NoExch, ![d] = NoExch]
        /\ exch[c] = NoExch /\ exch[d] = NoExch
    BY <1>2 DEF ExchangeStart, world, possessions, Idle
  <2>2. \A x \in Chars : exch'[x] = exch[x]
    BY <1>0, <2>1 DEF ExchOK
  <2> QED  BY <2>1, <2>2, KeptBySame
<1>3. ASSUME NEW c \in Chars, NEW g \in 1..(GoldMax - 1), AddGold(c, g) PROVE Kept'
  <2> DEFINE e == [exch[c] EXCEPT !.gold = g]
  <2>0. g \in Purse
    BY NumberTypes DEF Purse
  <2>1. e \in Exchanges /\ e.slot = exch[c].slot
    BY <1>0, <2>0 DEF ExchOK, Exchanges
  <2>2. with[c] # Nobody /\ Changed(c, e) /\ UNCHANGED <<item, excuses>>
    BY <1>3 DEF AddGold, MayChange, world, possessions
  <2> HIDE DEF e
  <2>3. \A x \in Chars : exch'[x].slot = exch[x].slot
    BY <2>1, <2>2, ChangedSides
  <2> QED  BY <2>2, <2>3, KeptBySame
<1>4. ASSUME NEW c \in Chars, AcceptFirst(c) PROVE Kept'
  <2>1. exch' = [exch EXCEPT ![c].accept = TRUE] /\ UNCHANGED <<item, excuses>>
    BY <1>4 DEF AcceptFirst, world, possessions
  <2>2. \A x \in Chars : exch'[x].slot = exch[x].slot
    BY <1>0, <2>1 DEF ExchOK, Exchanges
  <2> QED  BY <2>1, <2>2, KeptBySame
<1>5. ASSUME NEW c \in Chars, AcceptRefused(c) \/ Cancel(c) PROVE Kept'
  BY <1>5, KeptByCancel DEF AcceptRefused, Cancel, BothAccept
<1>6. ASSUME NEW c \in Chars, Earn(c) \/ Pay(c) PROVE Kept'
  BY <1>1, <1>6 DEF Earn, Pay
<1>7. ASSUME NEW c \in Chars, NEW o \in Objs, PickUp(c, o) PROVE Kept'
  <2> DEFINE i == FirstFit(c, Free(c), Size[o])
  <2>1. item' = [item EXCEPT ![o] = [owner |-> c, cell |-> i, count |-> 1, ex |-> FALSE]]
    BY <1>7 DEF PickUp
  <2> HIDE DEF i
  <2>2. item'[o].ex = FALSE /\ \A p \in Objs \ {o} : item'[p] = item[p]
    BY <1>0, <2>1
  <2>3. /\ excuses' = excuses \cup {"reused" : d \in {x \in Chars : o \in Held(x)}}
        /\ UNCHANGED exch
    BY <1>7 DEF PickUp
  <2>4. "reused" \notin excuses' => \A x \in Chars : o \notin Held(x)
    BY <2>3
  <2>5. "reused" \notin excuses' => \A x \in Chars, s \in Slots : ~Offered(x, s, o)
    BY <2>4, HeldIsOffered
  <2> QED  BY <2>2, <2>3, <2>5, KeptByOne
<1>8. ASSUME NEW c \in Chars, NEW o \in Objs, PickUpIntoStack(c, o) PROVE Kept'
  <2>1. /\ item' = [item EXCEPT ![o].count = @ + 1]
        /\ excuses \subseteq excuses' /\ UNCHANGED exch
    BY <1>8 DEF PickUpIntoStack
  <2> QED  BY <1>0, <2>1, KeptBySame DEF Item
<1>9. ASSUME NEW c \in Chars, NEW o \in Objs, MoveItem(c, o) PROVE Kept'
  <2>1. PICK cell \in Heads(c, Free(c), Size[o]) : item' = [item EXCEPT ![o].cell = cell]
    BY <1>9 DEF MoveItem
  <2>2. item[o].owner = c /\ ~item[o].ex /\ UNCHANGED <<exch, excuses>> /\ c # Nobody
    BY <1>9, NumberTypes DEF MoveItem
  <2>3. item'[o].ex = FALSE /\ \A p \in Objs \ {o} : item'[p] = item[p]
    BY <1>0, <2>1, <2>2 DEF Item
  <2>4. "reused" \notin excuses => \A x \in Chars, s \in Slots : ~Offered(x, s, o)
    BY <2>2 DEF Kept, Faithful
  <2> QED  BY <2>2, <2>3, <2>4, KeptByOne
<1>10. ASSUME NEW o \in Objs, Expire(o) PROVE Kept'
  <2>1. item' = [item EXCEPT ![o] = Freed] /\ UNCHANGED <<exch, excuses>>
    BY <1>10 DEF Expire
  <2>2. /\ item'[o].ex = FALSE /\ item'[o].owner = Nobody
        /\ \A p \in Objs \ {o} : item'[p] = item[p]
    BY <1>0, <2>1 DEF Freed
  <2> QED  BY <2>1, <2>2, KeptByOne
<1>11. ASSUME NEW c \in Chars, Leave(c) PROVE Kept'
  BY <1>1, <1>11, KeptByCancel DEF Leave
<1>12. CASE ProcessDelayedSave
  BY <1>1, <1>12 DEF ProcessDelayedSave, possessions
<1>13. CASE UNCHANGED vars
  BY <1>1, <1>13 DEF vars
<1>14. Next => Kept'
  BY <1>2, <1>3, <1>4, <1>5, <1>6, <1>7, <1>8, <1>9, <1>10, <1>11, <1>12,
     KeptByAdding, KeptByRemoving, KeptByDone DEF Next
<1> QED  BY <1>13, <1>14

-----------------------------------------------------------------------------
(* Accepts.                                                                *)

Accepted(x) == with[x] # Nobody /\ exch[x].accept

(* What x has accepted is what is on offer.                                *)
Stands(x) ==
    /\ ObjsOf(agreed[x][1]) = Held(x) /\ agreed[x][1].gold = exch[x].gold
    /\ ObjsOf(agreed[x][2]) = Held(with[x]) /\ agreed[x][2].gold = exch[with[x]].gold
Standing == \A x \in Chars : Accepted(x) => Stands(x)

(* The counts are those it saw, of the items that still are there.         *)
Counts(offer) ==
    \A p \in offer.items : item[p[1]].owner # Nobody => item[p[1]].count = p[2]
Counted ==
    excuses \cap {"stacked", "reused"} = {} =>
        \A x \in Chars : Accepted(x) => Counts(agreed[x][1]) /\ Counts(agreed[x][2])

(* An offer is of the objects held, in their present counts.               *)
LEMMA OfferObjs ==
    ASSUME NEW c
    PROVE  ObjsOf(Offer(c)) = Held(c) /\ Offer(c).gold = exch[c].gold /\ Counts(Offer(c))
<1> DEFINE pair(o) == <<o, item[o].count>>
<1>1. Offer(c).items = {pair(o) : o \in Held(c)} /\ Offer(c).gold = exch[c].gold
  BY DEF Offer
<1>2. \A o : pair(o)[1] = o /\ pair(o)[2] = item[o].count
  OBVIOUS
<1> HIDE DEF pair
<1>3. ObjsOf(Offer(c)) = {pair(o)[1] : o \in Held(c)}
  BY <1>1 DEF ObjsOf
<1>4. ObjsOf(Offer(c)) = Held(c)
  BY <1>2, <1>3
<1>5. Counts(Offer(c))
  BY <1>1, <1>2 DEF Counts
<1> QED  BY <1>1, <1>4, <1>5

(* Standing is what the run checks as AcceptStands.                        *)
LEMMA AcceptStandsOf == Standing => AcceptStands
<1> SUFFICES ASSUME Standing, NEW c \in Chars, with[c] # Nobody, exch[c].accept,
                    NEW k \in 1..2
             PROVE  LET now == <<Offer(c), Offer(with[c])>>
                    IN /\ ObjsOf(agreed[c][k]) = ObjsOf(now[k])
                       /\ agreed[c][k].gold = now[k].gold
  BY DEF AcceptStands
<1>1. Stands(c)
  BY DEF Standing, Accepted
<1> DEFINE now == <<Offer(c), Offer(with[c])>>
<1>2. now[1] = Offer(c) /\ now[2] = Offer(with[c])
  OBVIOUS
<1> HIDE DEF now
<1>3. ObjsOf(now[1]) = Held(c) /\ now[1].gold = exch[c].gold
  BY <1>2, OfferObjs
<1>4. ObjsOf(now[2]) = Held(with[c]) /\ now[2].gold = exch[with[c]].gold
  BY <1>2, OfferObjs
<1>5. ObjsOf(agreed[c][k]) = ObjsOf(now[k]) /\ agreed[c][k].gold = now[k].gold
  <2>1. k = 1 \/ k = 2
    OBVIOUS
  <2> QED  BY <1>1, <1>3, <1>4, <2>1 DEF Stands
<1> QED  BY <1>5 DEF now

(* Who keeps its slots keeps its offer.                                    *)
LEMMA HeldBySlot ==
    ASSUME NEW x, exch'[x].slot = exch[x].slot
    PROVE  Held(x)' = Held(x)
  BY DEF Held, Used

(* What happens to a pair, or to two that are free, leaves the accepts of  *)
(* the others alone.                                                       *)
LEMMA StandsElsewhere ==
    ASSUME TypeOK, Paired, Standing, NEW c \in Chars, NEW d \in Chars,
           (with[c] = d /\ with[d] = c) \/ (with[c] = Nobody /\ with[d] = Nobody),
           \A x \in Chars \ {c, d} : /\ with'[x] = with[x] /\ agreed'[x] = agreed[x]
                                     /\ exch'[x] = exch[x],
           Accepted(c)' => Stands(c)', Accepted(d)' => Stands(d)'
    PROVE  Standing'
<1> SUFFICES ASSUME NEW x \in Chars \ {c, d}, Accepted(x)' PROVE Stands(x)'
  BY DEF Standing
<1>1. Accepted(x) /\ Stands(x) /\ with'[x] = with[x]
  BY DEF Accepted, Standing
<1>2. with[x] \in Chars \ {c, d}
  <2>1. with[x] \in Chars /\ with[with[x]] = x /\ x # Nobody
    BY <1>1, Sides, NumberTypes DEF Accepted
  <2> QED  BY <2>1
<1> DEFINE y == with[x]
<1>3. exch'[x] = exch[x] /\ exch'[y] = exch[y] /\ agreed'[x] = agreed[x]
  BY <1>2
<1>4. Held(x)' = Held(x) /\ \A z : exch'[z] = exch[z] => Held(z)' = Held(z)
  BY <1>3, HeldBySlot
<1>5. Held(with[x])' = Held(with[x])
  BY <1>1, <1>3 DEF Held, Used
<1> QED  BY <1>1, <1>3, <1>4, <1>5 DEF Stands, ObjsOf

(* Every step keeps accepts and offers in agreement.                       *)
LEMMA StandingKept ==
    ASSUME TypeOK, Paired, Idle, Standing, [Next]_vars
    PROVE  Standing'
<1>1. ASSUME UNCHANGED <<with, exch, agreed>> PROVE Standing'
  BY <1>1 DEF Standing, Accepted, Stands, ObjsOf, Held, Used
<1>2. ASSUME NEW c \in Chars, NEW d \in Chars, ExchangeStart(c, d) PROVE Standing'
  <2>1. /\ with[c] = Nobody /\ with[d] = Nobody
        /\ with' = [with EXCEPT ![c] = d, ![d] = c]
        /\ exch' = [exch EXCEPT ![c] = NoExch, ![d] = NoExch] /\ UNCHANGED agreed
    BY <1>2 DEF ExchangeStart
  <2>2. exch'[c] = NoExch /\ exch'[d] = NoExch
        /\ \A x \in Chars \ {c, d} : with'[x] = with[x] /\ exch'[x] = exch[x]
    BY <2>1, TypeParts DEF WithOK, ExchOK
  <2>3. ~Accepted(c)' /\ ~Accepted(d)'
    BY <2>2 DEF Accepted, NoExch
  <2> QED  BY <2>1, <2>2, <2>3, StandsElsewhere
<1>3. ASSUME NEW c \in Chars, NEW e \in Exchanges, with[c] # Nobody, Changed(c, e),
             UNCHANGED with
      PROVE  Standing'
  <2>1. with[c] \in Chars /\ with[with[c]] = c
    BY <1>3, Sides
  <2>2. /\ ~exch'[c].accept /\ ~exch'[with[c]].accept
        /\ \A x \in Chars \ {c, with[c]} : exch'[x] = exch[x] /\ agreed'[x] = agreed[x]
    BY <1>3, <2>1, ChangedSides
  <2> DEFINE d == with[c]
  <2>3. ~exch'[d].accept /\ d \in Chars /\ with[d] = c /\ with[c] = d
        /\ \A x \in Chars \ {c, d} : exch'[x] = exch[x] /\ agreed'[x] = agreed[x]
    BY <2>1, <2>2
  <2>4. PICK y \in Chars : y = d
    BY <2>3
  <2>5. ~Accepted(c)' /\ ~Accepted(y)'
    BY <2>2, <2>3, <2>4 DEF Accepted
  <2> HIDE DEF d
  <2> QED  BY <1>3, <2>3, <2>4, <2>5, StandsElsewhere
<1>4. ASSUME NEW c \in Chars, AcceptFirst(c) PROVE Standing'
  <2>1. PICK d \in Chars : d = with[c] /\ with[d] = c /\ d # c
    BY <1>4, Sides DEF AcceptFirst
  <2>2. /\ ~exch[d].accept /\ UNCHANGED <<with, item>>
        /\ exch' = [exch EXCEPT ![c].accept = TRUE]
        /\ agreed' = [agreed EXCEPT ![c] = <<Offer(c), Offer(d)>>]
    BY <1>4, <2>1 DEF AcceptFirst, world, possessions
  <2>3. /\ \A x \in Chars \ {c} : exch'[x] = exch[x] /\ agreed'[x] = agreed[x]
        /\ agreed'[c] = <<Offer(c), Offer(d)>>
        /\ exch'[c].slot = exch[c].slot /\ exch'[c].gold = exch[c].gold
    BY <2>2, TypeParts DEF ExchOK, Exchanges, DealOK
  <2>4. Held(c)' = Held(c) /\ Held(d)' = Held(d)
    BY <2>1, <2>3, HeldBySlot
  <2>5. /\ ObjsOf(agreed'[c][1]) = Held(c) /\ agreed'[c][1].gold = exch[c].gold
        /\ ObjsOf(agreed'[c][2]) = Held(d) /\ agreed'[c][2].gold = exch[d].gold
    BY <2>3, OfferObjs
  <2>6. Held(with[c])' = Held(d)'
    BY <2>1, <2>2 DEF Held, Used
  <2>7. Stands(c)'
    <3>1. with'[c] = d /\ exch'[d] = exch[d]
      BY <2>1, <2>2, <2>3
    <3> QED  BY <2>3, <2>4, <2>5, <2>6, <3>1 DEF Stands, ObjsOf
  <2>8. ~Accepted(d)'
    BY <2>1, <2>2, <2>3 DEF Accepted
  <2> QED  BY <2>1, <2>2, <2>3, <2>7, <2>8, StandsElsewhere
<1>5. ASSUME NEW c \in Chars, with[c] # Nobody, Closed(c) PROVE Standing'
  <2>1. PICK d \in Chars : d = with[c] /\ with[d] = c /\ d # c
    BY <1>5, Sides
  <2>2. /\ with'[c] = Nobody /\ with'[d] = Nobody
        /\ \A x \in Chars \ {c, d} : /\ with'[x] = with[x] /\ exch'[x] = exch[x]
                                     /\ agreed'[x] = agreed[x]
    BY <1>5, <2>1, ClosedSides
  <2>3. ~Accepted(c)' /\ ~Accepted(d)'
    BY <2>2 DEF Accepted
  <2> QED  BY <2>1, <2>2, <2>3, StandsElsewhere
<1>6. ASSUME NEW c \in Chars, NEW o \in Objs, NEW s \in Slots, AddItem(c, o, s)
      PROVE  Standing'
  <2> DEFINE e == [exch[c] EXCEPT !.slot[s] = [obj |-> o, cell |-> item[o].cell]]
  <2>1. e \in Exchanges
    BY TypeParts DEF ExchOK, ItemOK, Exchanges, Slot, Item
  <2>2. with[c] # Nobody /\ Changed(c, e) /\ UNCHANGED with
    BY <1>6 DEF AddItem, MayChange
  <2> HIDE DEF e
  <2> QED  BY <1>3, <2>1, <2>2
<1>7. ASSUME NEW c \in Chars, NEW s \in Slots, RemoveItem(c, s) PROVE Standing'
  <2> DEFINE e == [exch[c] EXCEPT !.slot[s] = NoItem]
  <2>1. e \in Exchanges
    BY TypeParts, NumberTypes DEF ExchOK, Exchanges
  <2>2. with[c] # Nobody /\ Changed(c, e) /\ UNCHANGED with
    BY <1>7 DEF RemoveItem, MayChange
  <2> HIDE DEF e
  <2> QED  BY <1>3, <2>1, <2>2
<1>8. ASSUME NEW c \in Chars, NEW g \in 1..(GoldMax - 1), AddGold(c, g) PROVE Standing'
  <2> DEFINE e == [exch[c] EXCEPT !.gold = g]
  <2>0. g \in Purse
    BY NumberTypes DEF Purse
  <2>1. e \in Exchanges
    BY <2>0, TypeParts DEF ExchOK, Exchanges
  <2>2. with[c] # Nobody /\ Changed(c, e) /\ UNCHANGED with
    BY <1>8 DEF AddGold, MayChange
  <2> HIDE DEF e
  <2> QED  BY <1>3, <2>1, <2>2
<1>9. ASSUME NEW c \in Chars, AcceptRefused(c) \/ Cancel(c) PROVE Standing'
  BY <1>5, <1>9 DEF AcceptRefused, BothAccept, Cancel, Cancelled
<1>10. ASSUME NEW c \in Chars, NEW zc, NEW zd, AcceptDone(c, zc, zd) PROVE Standing'
  BY <1>5, <1>10 DEF AcceptDone, BothAccept
<1>11. ASSUME NEW c \in Chars, Earn(c) \/ Pay(c) PROVE Standing'
  BY <1>1, <1>11 DEF Earn, Pay
<1>12. ASSUME NEW c \in Chars, NEW o \in Objs,
              PickUp(c, o) \/ PickUpIntoStack(c, o) \/ MoveItem(c, o)
       PROVE  Standing'
  BY <1>1, <1>12 DEF PickUp, PickUpIntoStack, MoveItem
<1>13. ASSUME NEW o \in Objs, Expire(o) PROVE Standing'
  BY <1>1, <1>13 DEF Expire
<1>14. ASSUME NEW c \in Chars, Leave(c) PROVE Standing'
  BY <1>1, <1>5, <1>14 DEF Leave, Cancelled
<1>15. CASE ProcessDelayedSave
  BY <1>1, <1>15 DEF ProcessDelayedSave
<1>16. CASE UNCHANGED vars
  BY <1>1, <1>16 DEF vars
<1>17. Next => Standing'
  BY <1>2, <1>4, <1>6, <1>7, <1>8, <1>9, <1>10, <1>11, <1>12, <1>13, <1>14, <1>15 DEF Next
<1> QED  BY <1>16, <1>17
Uncounted(e) == e \cap {"stacked", "reused"} # {}

(* No item that was agreed on changes its count unless it is gone.         *)
LEMMA CountsKept ==
    ASSUME TypeOK, Standing, Counted, excuses \subseteq excuses',
           \A x \in Chars : Accepted(x)' => Accepted(x) /\ agreed'[x] = agreed[x],
           ~Uncounted(excuses') =>
              \A o \in Objs :
                 \/ item'[o].owner = Nobody
                 \/ item[o].owner # Nobody /\ item'[o].count = item[o].count
                 \/ \A x \in Chars : o \notin Held(x)
    PROVE  Counted'
<1> SUFFICES ASSUME ~Uncounted(excuses'), NEW x \in Chars, Accepted(x)'
             PROVE  Counts(agreed[x][1])' /\ Counts(agreed[x][2])'
  BY DEF Counted, Uncounted
<1>1. ~Uncounted(excuses)
  BY DEF Uncounted
<1>2. Accepted(x) /\ agreed'[x] = agreed[x]
  OBVIOUS
<1>3. Counts(agreed[x][1]) /\ Counts(agreed[x][2]) /\ Stands(x)
  BY <1>1, <1>2 DEF Counted, Standing, Uncounted
<1>4. ASSUME NEW y \in Chars, NEW offer \in Offers, ObjsOf(offer) = Held(y), Counts(offer),
             NEW p \in offer.items, item'[p[1]].owner # Nobody
      PROVE  item'[p[1]].count = p[2]
  <2>1. p[1] \in Objs /\ p[1] \in Held(y)
    BY <1>4 DEF Offers, ObjsOf
  <2>2. item[p[1]].owner # Nobody /\ item'[p[1]].count = item[p[1]].count
    BY <1>4, <2>1
  <2> QED  BY <1>4, <2>2 DEF Counts
<1>5. agreed[x][1] \in Offers /\ agreed[x][2] \in Offers /\ with[x] \in Chars
  BY <1>2 DEF TypeOK, Accepted
<1>6. \A p \in agreed[x][1].items : item'[p[1]].owner # Nobody => item'[p[1]].count = p[2]
  BY <1>3, <1>4, <1>5 DEF Stands
<1>7. \A p \in agreed[x][2].items : item'[p[1]].owner # Nobody => item'[p[1]].count = p[2]
  BY <1>3, <1>4, <1>5 DEF Stands
<1> QED  BY <1>2, <1>6, <1>7 DEF Counts

(* Every step keeps the counts that were agreed on.                        *)
LEMMA CountedKept ==
    ASSUME TypeOK, Paired, Kept, Standing, Counted, [Next]_vars
    PROVE  Counted'
<1>0. item \in [Objs -> Item] /\ ExchOK
  BY TypeParts DEF ItemOK
<1>1. ASSUME UNCHANGED <<item, with, exch, agreed, excuses>> PROVE Counted'
  BY <1>1 DEF Counted, Accepted, Counts
<1>2. ASSUME NEW c \in Chars, NEW d \in Chars, ExchangeStart(c, d) PROVE Counted'
  <2>1. /\ with[c] = Nobody /\ with[d] = Nobody
        /\ with' = [with EXCEPT ![c] = d, ![d] = c]
        /\ exch' = [exch EXCEPT ![c] = NoExch, ![d] = NoExch]
        /\ UNCHANGED <<item, excuses, agreed>>
    BY <1>2 DEF ExchangeStart, world, possessions
  <2>2. /\ ~exch'[c].accept /\ ~exch'[d].accept
        /\ \A x \in Chars \ {c, d} : with'[x] = with[x] /\ exch'[x] = exch[x]
    BY <2>1, TypeParts DEF WithOK, ExchOK, NoExch
  <2>3. \A x \in Chars : Accepted(x)' => Accepted(x) /\ agreed'[x] = agreed[x]
    BY <2>1, <2>2 DEF Accepted
  <2>4. \A o \in Objs : \/ item'[o].owner = Nobody
                        \/ item[o].owner # Nobody /\ item'[o].count = item[o].count
    BY <2>1
  <2> QED  BY <2>1, <2>3, <2>4, CountsKept
<1>3. ASSUME NEW c \in Chars, NEW e \in Exchanges, with[c] # Nobody, Changed(c, e),
             UNCHANGED <<with, excuses>>,
             \A o \in Objs : item'[o].owner = item[o].owner /\ item'[o].count = item[o].count
      PROVE  Counted'
  <2>1. \A x \in Chars : exch'[x].accept => x \notin {c, with[c]} /\ exch[x].accept
    BY <1>3, ChangedSides
  <2>2. \A x \in Chars \ {c, with[c]} : agreed'[x] = agreed[x]
    BY <1>3, ChangedSides
  <2>3. \A x \in Chars : Accepted(x)' => Accepted(x) /\ agreed'[x] = agreed[x]
    BY <1>3, <2>1, <2>2 DEF Accepted
  <2> QED  BY <1>3, <2>3, CountsKept
<1>4. ASSUME NEW c \in Chars, AcceptFirst(c) PROVE Counted'
  <2>1. /\ UNCHANGED <<with, item, excuses>>
        /\ exch' = [exch EXCEPT ![c].accept = TRUE]
        /\ agreed' = [agreed EXCEPT ![c] = <<Offer(c), Offer(with[c])>>]
    BY <1>4 DEF AcceptFirst, world, possessions
  <2>2. /\ \A x \in Chars \ {c} : exch'[x] = exch[x] /\ agreed'[x] = agreed[x]
        /\ agreed'[c] = <<Offer(c), Offer(with[c])>>
    BY <2>1, TypeParts DEF ExchOK, DealOK
  <2>3. Counts(agreed'[c][1]) /\ Counts(agreed'[c][2])
    <3>1. agreed'[c][1] = Offer(c) /\ agreed'[c][2] = Offer(with[c])
      BY <2>2
    <3> QED  BY <3>1, OfferObjs
  <2>4. Counts(agreed[c][1])' /\ Counts(agreed[c][2])'
    BY <2>1, <2>3 DEF Counts
  <2>5. ASSUME NEW x \in Chars \ {c}, Accepted(x)', excuses \cap {"stacked", "reused"} = {}
        PROVE  Counts(agreed[x][1])' /\ Counts(agreed[x][2])'
    <3>1. Accepted(x) /\ agreed'[x] = agreed[x]
      BY <2>1, <2>2, <2>5 DEF Accepted
    <3> QED  BY <2>1, <2>5, <3>1 DEF Counted, Counts
  <2> QED  BY <2>1, <2>4, <2>5 DEF Counted
<1>5. ASSUME NEW c \in Chars, with[c] # Nobody, Closed(c), UNCHANGED excuses,
             \A o \in Objs : \/ item'[o].owner = Nobody
                             \/ item[o].owner # Nobody /\ item'[o].count = item[o].count
      PROVE  Counted'
  <2>1. PICK d \in Chars : d = with[c] /\ with[d] = c /\ d # c
    BY <1>5, Sides
  <2>2. /\ with'[c] = Nobody /\ with'[d] = Nobody
        /\ \A x \in Chars \ {c, d} : /\ with'[x] = with[x] /\ exch'[x] = exch[x]
                                     /\ agreed'[x] = agreed[x]
    BY <1>5, <2>1, ClosedSides
  <2>3. \A x \in Chars : Accepted(x)' => Accepted(x) /\ agreed'[x] = agreed[x]
    BY <2>2 DEF Accepted
  <2> QED  BY <1>5, <2>3, CountsKept
<1>6. ASSUME NEW c \in Chars, NEW o \in Objs, NEW s \in Slots, AddItem(c, o, s)
      PROVE  Counted'
  <2> DEFINE e == [exch[c] EXCEPT !.slot[s] = [obj |-> o, cell |-> item[o].cell]]
  <2>1. e \in Exchanges
    BY TypeParts DEF ExchOK, ItemOK, Exchanges, Slot, Item
  <2>2. with[c] # Nobody /\ Changed(c, e) /\ UNCHANGED <<with, excuses>>
    BY <1>6 DEF AddItem, MayChange
  <2>3. \A p \in Objs : item'[p].owner = item[p].owner /\ item'[p].count = item[p].count
    BY <1>0, <1>6 DEF AddItem, Item
  <2> HIDE DEF e
  <2> QED  BY <1>3, <2>1, <2>2, <2>3
<1>7. ASSUME NEW c \in Chars, NEW s \in Slots, RemoveItem(c, s) PROVE Counted'
  <2> DEFINE e == [exch[c] EXCEPT !.slot[s] = NoItem]
  <2>1. e \in Exchanges
    BY TypeParts, NumberTypes DEF ExchOK, Exchanges
  <2>2. with[c] # Nobody /\ Changed(c, e) /\ UNCHANGED <<with, excuses>>
    BY <1>7 DEF RemoveItem, MayChange
  <2>3. \A p \in Objs : item'[p].owner = item[p].owner /\ item'[p].count = item[p].count
    BY <1>7, ReleaseSpots DEF RemoveItem
  <2> HIDE DEF e
  <2> QED  BY <1>3, <2>1, <2>2, <2>3
<1>8. ASSUME NEW c \in Chars, NEW g \in 1..(GoldMax - 1), AddGold(c, g) PROVE Counted'
  <2> DEFINE e == [exch[c] EXCEPT !.gold = g]
  <2>0. g \in Purse
    BY NumberTypes DEF Purse
  <2>1. e \in Exchanges
    BY <2>0, TypeParts DEF ExchOK, Exchanges
  <2>2. with[c] # Nobody /\ Changed(c, e) /\ UNCHANGED <<item, with, excuses>>
    BY <1>8 DEF AddGold, MayChange, world, possessions
  <2> HIDE DEF e
  <2> QED  BY <1>3, <2>1, <2>2
<1>9. ASSUME NEW c \in Chars, with[c] # Nobody, Cancelled(c), UNCHANGED excuses
      PROVE  Counted'
  <2>1. Closed(c) /\ Release(Held(c) \cup Held(with[c]))
    BY <1>9 DEF Cancelled
  <2>2. \A o \in Objs : item'[o].owner = item[o].owner /\ item'[o].count = item[o].count
    BY <2>1, ReleaseSpots
  <2>3. \A o \in Objs : \/ item'[o].owner = Nobody
                        \/ item[o].owner # Nobody /\ item'[o].count = item[o].count
    BY <2>2
  <2> QED  BY <1>5, <1>9, <2>1, <2>3
<1>10. ASSUME NEW c \in Chars, NEW zc, NEW zd, AcceptDone(c, zc, zd) PROVE Counted'
  <2>1. with[c] # Nobody /\ Closed(c) /\ UNCHANGED excuses
    BY <1>10 DEF AcceptDone, BothAccept
  <2>2. ASSUME NEW o \in Objs, item'[o].owner # Nobody
        PROVE  item[o].owner # Nobody /\ item'[o].count = item[o].count
    <3>1. item'[o].count = item[o].count
      BY <1>10, DoneItems
    <3>2. CASE o \in Lands(Back(c)) \cup Lands(There(c))
      BY <1>10, <3>1, <3>2, Swap, NumberTypes
    <3>3. CASE o \notin Lands(Back(c)) \cup Lands(There(c))
      BY <1>10, <2>2, <3>1, <3>3, DoneItems
    <3> QED  BY <3>2, <3>3
  <2> QED  BY <1>5, <2>1, <2>2
<1>11. ASSUME UNCHANGED <<with, exch, agreed>>, excuses \subseteq excuses',
              ~Uncounted(excuses') =>
                 \A o \in Objs :
                    \/ item'[o].owner = Nobody
                    \/ item[o].owner # Nobody /\ item'[o].count = item[o].count
                    \/ \A x \in Chars : o \notin Held(x)
       PROVE  Counted'
  <2>1. \A x \in Chars : Accepted(x)' => Accepted(x) /\ agreed'[x] = agreed[x]
    BY <1>11 DEF Accepted
  <2> QED  BY <1>11, <2>1, CountsKept
<1>12. ASSUME NEW c \in Chars, NEW o \in Objs, PickUp(c, o) PROVE Counted'
  <2>1. /\ \A p \in Objs \ {o} : item'[p] = item[p]
        /\ excuses' = excuses \cup {"reused" : d \in {x \in Chars : o \in Held(x)}}
        /\ UNCHANGED <<with, exch, agreed>>
    BY <1>0, <1>12 DEF PickUp
  <2>2. ~Uncounted(excuses') => \A x \in Chars : o \notin Held(x)
    BY <2>1 DEF Uncounted
  <2> QED  BY <1>11, <2>1, <2>2
<1>13. ASSUME NEW c \in Chars, NEW o \in Objs, PickUpIntoStack(c, o) PROVE Counted'
  <2>1. /\ item[o].owner = c /\ \A p \in Objs \ {o} : item'[p] = item[p]
        /\ excuses' = excuses \cup {"stacked" : x \in Held(c) \cap {o}}
        /\ UNCHANGED <<with, exch, agreed>> /\ c # Nobody
    BY <1>0, <1>13, NumberTypes DEF PickUpIntoStack
  <2>2. ASSUME ~Uncounted(excuses'), NEW x \in Chars PROVE o \notin Held(x)
    <3>1. o \notin Held(c) /\ "reused" \notin excuses
      BY <2>1, <2>2 DEF Uncounted
    <3>2. Faithful
      BY <3>1 DEF Kept
    <3>3. CASE x # c
      BY <2>1, <3>2, <3>3, HeldIsOffered DEF Faithful
    <3> QED  BY <3>1, <3>3
  <2> QED  BY <1>11, <2>1, <2>2
<1>14. ASSUME NEW c \in Chars, NEW o \in Objs, MoveItem(c, o) PROVE Counted'
  <2>1. PICK cell \in Heads(c, Free(c), Size[o]) : item' = [item EXCEPT ![o].cell = cell]
    BY <1>14 DEF MoveItem
  <2>2. \A p \in Objs : item'[p].owner = item[p].owner /\ item'[p].count = item[p].count
    BY <1>0, <2>1 DEF Item
  <2> QED  BY <1>11, <1>14, <2>2 DEF MoveItem
<1>15. ASSUME NEW o \in Objs, Expire(o) PROVE Counted'
  <2>1. item'[o].owner = Nobody /\ \A p \in Objs \ {o} : item'[p] = item[p]
    BY <1>0, <1>15 DEF Expire, Freed
  <2> QED  BY <1>11, <1>15, <2>1 DEF Expire
<1>16. ASSUME NEW c \in Chars, AcceptRefused(c) \/ Cancel(c) PROVE Counted'
  BY <1>9, <1>16 DEF AcceptRefused, BothAccept, Cancel
<1>17. ASSUME NEW c \in Chars, Earn(c) \/ Pay(c) PROVE Counted'
  BY <1>1, <1>17 DEF Earn, Pay
<1>18. ASSUME NEW c \in Chars, Leave(c) PROVE Counted'
  BY <1>1, <1>9, <1>18 DEF Leave
<1>19. CASE ProcessDelayedSave
  BY <1>1, <1>19 DEF ProcessDelayedSave, possessions
<1>20. CASE UNCHANGED vars
  BY <1>1, <1>20 DEF vars
<1>21. Next => Counted'
  BY <1>2, <1>4, <1>6, <1>7, <1>8, <1>10, <1>12, <1>13, <1>14, <1>15, <1>16, <1>17,
     <1>18, <1>19 DEF Next
<1> QED  BY <1>20, <1>21

-----------------------------------------------------------------------------
(* A trade is what both agreed to.                                         *)

(* An agreed offer whose items are all there is the items as they are.     *)
LEMMA OfferIs ==
    ASSUME TypeOK, NEW offer \in Offers, NEW H, ObjsOf(offer) = H, Counts(offer),
           \A o \in H : item[o].owner # Nobody
    PROVE  offer.items = {<<o, item[o].count>> : o \in H}
<1>1. \A p \in offer.items : p = <<p[1], p[2]>> /\ p[1] \in H
  BY DEF Offers, ObjsOf
<1>2. \A p \in offer.items : p = <<p[1], item[p[1]].count>>
  BY <1>1 DEF Counts
<1>3. \A o \in H : \E p \in offer.items : p[1] = o
  BY DEF ObjsOf
<1>4. \A o \in H : <<o, item[o].count>> \in offer.items
  BY <1>2, <1>3
<1> QED  BY <1>1, <1>2, <1>4

(* Without the named defects everything that was offered finds its place.  *)
LEMMA AllLand ==
    ASSUME TypeOK, Paired, NEW c \in Chars,
           NEW zc \in SUBSET Past(with[c]), NEW zd \in SUBSET Past(c),
           AcceptDone(c, zc, zd), ~Overread(c), ~Fragments(c)
    PROVE  Lands(There(c)) = Held(c) /\ Lands(Back(c)) = Held(with[c])
<1> DEFINE d == with[c]
<1>1. d \in Chars /\ c # d /\ with[d] = c
  BY Swap
<1>2. Lands(There(c)) \subseteq Held(c) /\ Lands(Back(c)) \subseteq Held(d)
  BY Swap
<1>3. CheckSpace(c, {}) /\ CheckSpace(d, {})
  <2>1. CheckSpace(c, zc) /\ CheckSpace(d, zd)
    BY DEF AcceptDone, InOrderBoth
  <2>2. SpaceIsSure(c) /\ SpaceIsSure(d)
    BY DEF Overread
  <2> QED  BY <1>1, <2>1, <2>2 DEF SpaceIsSure
<1>4. Free(d) \cup {} = Free(d) /\ Free(c) \cup {} = Free(c)
  OBVIOUS
<1>5. Held(c) \subseteq Lands(There(c))
  BY <1>3, <1>4 DEF CheckSpace, There
<1>6. Held(d) \subseteq Lands(Placed(c, Free(c), exch[d].slot))
  BY <1>1, <1>3, <1>4 DEF CheckSpace
<1>7. Gone(c) = UNION {Cover(item[o].cell, Size[o]) : o \in Held(c)}
  BY <1>2, <1>5 DEF Gone
<1>8. Held(d) \subseteq Lands(Back(c))
  BY <1>6, <1>7 DEF Fragments, Back
<1> QED  BY <1>2, <1>5, <1>8

(* Without the named defects, each side gets what it agreed to.            *)
LEMMA DoneIsWhole ==
    ASSUME TypeOK, Paired, Standing, Counted, NEW c \in Chars,
           NEW zc \in SUBSET Past(with[c]), NEW zd \in SUBSET Past(c),
           AcceptDone(c, zc, zd), ~Overread(c), ~Fragments(c), ~Overflows(c),
           excuses \cap {"stacked", "reused"} = {}
    PROVE  Whole(c, with[c], agreed[with[c]][2], agreed[with[c]][1])
<1> DEFINE d == with[c]
           mine == agreed[d][2]
           yours == agreed[d][1]
<1>1. d \in Chars /\ c # d /\ with[d] = c /\ c # Nobody /\ d # Nobody
  BY Swap, NumberTypes
<1>2. Accepted(d)
  BY <1>1 DEF AcceptDone, BothAccept, Accepted
<1>3. /\ ObjsOf(mine) = Held(c) /\ mine.gold = exch[c].gold
      /\ ObjsOf(yours) = Held(d) /\ yours.gold = exch[d].gold
  BY <1>1, <1>2 DEF Standing, Stands
<1>4. Counts(mine) /\ Counts(yours) /\ mine \in Offers /\ yours \in Offers
  <2>1. Counts(mine) /\ Counts(yours)
    BY <1>1, <1>2 DEF Counted
  <2>2. agreed[d] \in Offers \X Offers
    BY <1>1 DEF TypeOK
  <2> QED  BY <2>1, <2>2
<1>5. /\ \A o \in Held(c) : item[o].owner = c
      /\ \A o \in Held(d) : item[o].owner = d
      /\ Held(c) \subseteq Objs /\ Held(d) \subseteq Objs
  BY Swap
<1>6. Lands(There(c)) = Held(c) /\ Lands(Back(c)) = Held(d)
  BY AllLand
<1>7. \A o \in Objs : /\ item'[o].owner = IF o \in Held(d) THEN c
                                          ELSE IF o \in Held(c) THEN d
                                          ELSE item[o].owner
                      /\ item'[o].count = item[o].count
  <2> HIDE DEF mine, yours
  <2>1. \A o \in Objs : /\ item'[o].owner = IF o \in Lands(Back(c)) THEN c
                                            ELSE IF o \in Lands(There(c)) THEN d
                                            ELSE item[o].owner
                        /\ item'[o].count = item[o].count
    BY DoneItems
  <2> HIDE DEF d
  <2> QED  BY <1>6, <2>1
<1>8. /\ gold'[c] = gold[c] - exch[c].gold + exch[d].gold
      /\ gold'[d] = gold[d] - exch[d].gold + exch[c].gold
  BY DoneGold
<1> HIDE DEF mine, yours
<1>9. /\ mine.items = {<<o, item[o].count>> : o \in Held(c)}
      /\ yours.items = {<<o, item[o].count>> : o \in Held(d)}
  BY <1>1, <1>3, <1>4, <1>5, OfferIs
<1> HIDE DEF d
<1>10. {o \in Own(c) : item'[o].owner = d} = Held(c)
  BY <1>1, <1>5, <1>7 DEF Own
<1>11. {o \in Own(d) : item'[o].owner = c} = Held(d)
  BY <1>1, <1>5, <1>7 DEF Own
<1>12. Gives(c, d) = mine.items
  BY <1>5, <1>7, <1>9, <1>10 DEF Gives
<1>13. Gives(d, c) = yours.items
  BY <1>5, <1>7, <1>9, <1>11 DEF Gives
<1>14. Whole(c, d, mine, yours)
  BY <1>3, <1>8, <1>12, <1>13 DEF Whole
<1> QED  BY <1>14 DEF d, mine, yours

(* One step of FairTrade.                                                  *)
Fair ==
    \A c \in Chars : \A d \in Chars \ {c} : Trade(c, d) =>
        /\ exch[c].accept \/ exch[d].accept
        /\ exch[d].accept =>
             \/ Overread(c) \/ Fragments(c) \/ Overflows(c)
             \/ excuses \cap {"stacked", "reused"} # {}
             \/ Whole(c, d, agreed[d][2], agreed[d][1])

(* Every step is fair.                                                     *)
LEMMA FairStep ==
    ASSUME TypeOK, Paired, Standing, Counted, [Next]_vars
    PROVE  Fair
<1> SUFFICES ASSUME NEW c \in Chars, NEW d \in Chars \ {c}, Trade(c, d)
             PROVE  /\ exch[c].accept \/ exch[d].accept
                    /\ exch[d].accept =>
                         \/ Overread(c) \/ Fragments(c) \/ Overflows(c)
                         \/ excuses \cap {"stacked", "reused"} # {}
                         \/ Whole(c, d, agreed[d][2], agreed[d][1])
  BY DEF Fair
<1>0. /\ with[c] = d /\ with'[c] = Nobody /\ with[d] = c /\ c # Nobody /\ d # Nobody
      /\ Owners' # Owners \/ gold' # gold
  <2>1. with[c] = d /\ with'[c] = Nobody /\ (Owners' # Owners \/ gold' # gold)
    BY DEF Trade
  <2> QED  BY <2>1, Sides, NumberTypes
<1>1. UNCHANGED with => FALSE
  BY <1>0
<1>2. ASSUME NEW x \in Chars, NEW S, Release(S), UNCHANGED gold PROVE FALSE
  <2>1. Owners' = Owners
    BY <1>2, ReleaseSpots DEF Owners
  <2> QED  BY <1>0, <1>2, <2>1
<1>3. ASSUME NEW x \in Chars, NEW y \in Chars, ExchangeStart(x, y) PROVE FALSE
  <2>1. with' = [with EXCEPT ![x] = y, ![y] = x] /\ with \in [Chars -> Chars \cup {Nobody}]
    BY <1>3 DEF ExchangeStart, TypeOK
  <2>2. x # Nobody /\ y # Nobody
    BY NumberTypes
  <2> QED  BY <1>0, <2>1, <2>2
<1>4. ASSUME NEW x \in Chars, NEW z \in Chars,
             NEW zc \in SUBSET Past(z), NEW zd \in SUBSET Past(x),
             z = with[x], AcceptDone(x, zc, zd)
      PROVE  /\ exch[c].accept \/ exch[d].accept
             /\ exch[d].accept =>
                  \/ Overread(c) \/ Fragments(c) \/ Overflows(c)
                  \/ excuses \cap {"stacked", "reused"} # {}
                  \/ Whole(c, d, agreed[d][2], agreed[d][1])
  <2>1. with[x] # Nobody /\ ~exch[x].accept /\ exch[with[x]].accept /\ Closed(x)
    BY <1>4 DEF AcceptDone, BothAccept
  <2>2. x \in {c, d}
    <3>1. c \in {x, with[x]}
      BY <1>0, <2>1, ClosedSides
    <3>2. with[with[x]] = x
      BY <2>1, Sides
    <3> QED  BY <1>0, <3>1, <3>2
  <2>3. CASE x = c
    <3>1. zc \in SUBSET Past(with[c]) /\ zd \in SUBSET Past(c) /\ AcceptDone(c, zc, zd)
      BY <1>4, <2>3
    <3>2. ~(Overread(c) \/ Fragments(c) \/ Overflows(c) \/ excuses \cap {"stacked", "reused"} # {})
          => Whole(c, with[c], agreed[with[c]][2], agreed[with[c]][1])
      BY <3>1, DoneIsWhole
    <3> QED  BY <1>0, <2>1, <2>3, <3>2
  <2>4. CASE x = d
    BY <1>0, <2>1, <2>4
  <2> QED  BY <2>2, <2>3, <2>4
<1>5. ASSUME NEW x \in Chars, NEW o \in Objs, NEW s \in Slots,
             AddItem(x, o, s)
      PROVE  FALSE
  BY <1>1, <1>5 DEF AddItem
<1>6. ASSUME NEW x \in Chars, NEW s \in Slots, RemoveItem(x, s) PROVE FALSE
  BY <1>1, <1>6 DEF RemoveItem
<1>7. ASSUME NEW x \in Chars, NEW g, AddGold(x, g) PROVE FALSE
  BY <1>1, <1>7 DEF AddGold
<1>8. ASSUME NEW x \in Chars, AcceptFirst(x) \/ Earn(x) \/ Pay(x) PROVE FALSE
  BY <1>1, <1>8 DEF AcceptFirst, Earn, Pay
<1>9. ASSUME NEW x \in Chars, AcceptRefused(x) \/ Cancel(x) PROVE FALSE
  BY <1>2, <1>9 DEF AcceptRefused, Cancel, Cancelled
<1>10. ASSUME NEW x \in Chars, NEW o \in Objs,
              PickUp(x, o) \/ PickUpIntoStack(x, o) \/ MoveItem(x, o)
       PROVE  FALSE
  BY <1>1, <1>10 DEF PickUp, PickUpIntoStack, MoveItem
<1>11. ASSUME NEW o \in Objs, Expire(o) PROVE FALSE
  BY <1>1, <1>11 DEF Expire
<1>12. ASSUME NEW x \in Chars, Leave(x) PROVE FALSE
  BY <1>1, <1>2, <1>12 DEF Leave, Cancelled
<1>13. CASE ProcessDelayedSave
  BY <1>1, <1>13 DEF ProcessDelayedSave
<1>14. CASE UNCHANGED vars
  BY <1>1, <1>14 DEF vars
<1>15. CASE Next
  BY <1>3, <1>4, <1>5, <1>6, <1>7, <1>8, <1>9, <1>10, <1>11, <1>12, <1>13, <1>15 DEF Next
<1> QED  BY <1>14, <1>15

-----------------------------------------------------------------------------
(* Theorems.                                                               *)

(* The inductive invariant.                                                *)
IInv ==
    /\ TypeOK
    /\ Paired /\ Idle
    /\ InPlace
    /\ Kept
    /\ Standing /\ Counted
    /\ RowsBacked

(* The invariant holds at the start.                                       *)
LEMMA InvariantStart == Init => IInv
<1> SUFFICES ASSUME Init PROVE IInv
  OBVIOUS
<1>1. TypeOK /\ InPlace /\ Kept /\ RowsBacked
  BY InitTypes, InPlaceStart, KeptStart, RowsStart
<1>2. \A c \in Chars : with[c] = Nobody /\ exch[c] = NoExch
  BY DEF Init
<1>3. Paired /\ Idle /\ Standing /\ Counted
  BY <1>2 DEF Paired, Idle, Standing, Counted, Accepted
<1> QED  BY <1>1, <1>3 DEF IInv

(* Every step keeps the invariant.                                         *)
LEMMA InvariantStep == IInv /\ [Next]_vars => IInv'
  BY TypesKept, PairedKept, InPlaceKept, OffersKept, StandingKept, CountedKept, RowsKept
     DEF IInv

(* The invariant always holds.                                             *)
THEOREM Inductive == Spec => []IInv
  BY InvariantStart, InvariantStep, PTL DEF Spec

(* Every variable keeps its type: no purse reaches GOLD_MAX, whatever is   *)
(* earned, paid and traded, and no exchange holds what is not an item.     *)
THEOREM TypesThm == Spec => []TypeOK
<1>1. IInv => TypeOK
  BY DEF IInv
<1> QED  BY <1>1, Inductive, PTL

(* The two CExchange objects of an exchange always belong together, and at *)
(* most one of them has been accepted (exchange.cpp Accept, Cancel).       *)
THEOREM PairedThm == Spec => []Paired
<1>1. IInv => Paired
  BY DEF IInv
<1> QED  BY <1>1, Inductive, PTL

(* No two items of a character ever share a cell, in any inventory, though *)
(* Done gives items cells that others leave in the same trade.             *)
THEOREM NoOverlapThm == Spec => []NoOverlap
<1>1. IInv => NoOverlap
  BY NoOverlapOf DEF IInv
<1> QED  BY <1>1, Inductive, PTL

(* What is offered stays marked, stays its owner's and stays where it was, *)
(* and nothing else is marked, however many exchanges run at a time.       *)
THEOREM OffersHoldThm == Spec => []OffersHold
<1>1. IInv => OffersHold
  BY OffersHoldOf DEF IInv
<1> QED  BY <1>1, Inductive, PTL

(* An accept that stands is one of the offers as they are now.             *)
THEOREM AcceptStandsThm == Spec => []AcceptStands
<1>1. IInv => AcceptStands
  BY AcceptStandsOf DEF IInv
<1> QED  BY <1>1, Inductive, PTL

(* No crash leaves more gold in the rows than there is and was paid, for   *)
(* any number of characters.                                               *)
THEOREM NoGoldDoubledThm == Spec => []NoGoldDoubled
<1>1. IInv => NoGoldDoubled
  BY NoGoldDoubledOf DEF IInv
<1> QED  BY <1>1, Inductive, PTL

(* A trade is what both sides agreed to, item by item and coin by coin,    *)
(* unless one of the named defects bites.                                  *)
THEOREM FairTradeThm == Spec => FairTrade
<1>1. IInv /\ [Next]_vars => [Fair]_vars
  BY FairStep DEF IInv
<1>2. Spec => [][Fair]_vars
  BY <1>1, Inductive, PTL DEF Spec
<1> QED  BY <1>2 DEF FairTrade, Fair
=============================================================================

------------------------------ MODULE Exchange ------------------------------
(***************************************************************************)
(* Two characters of one game process trade through an exchange window.    *)
(* Each side puts items and gold into a CExchange of its own, either side  *)
(* accepts, and the second accept checks both sides, hands over what the   *)
(* first side offered (CExchange::Done), then what the second offered.     *)
(* Meanwhile the world goes on: items are picked up, moved, used up or     *)
(* expire, gold comes and goes, and player rows are saved later.           *)
(*                                                                         *)
(* A CItem is an object: a freed object may be reused by the next item     *)
(* that is created, and pointers to it stay where they are.  An item of    *)
(* size n covers n cells of a column.  An exchange window has no geometry  *)
(* here, a slot holds one item; cheques are handled as gold is, and the    *)
(* dragon soul and storage windows as the inventory is.                    *)
(***************************************************************************)
EXTENDS Integers, Sequences

CONSTANTS
    NChars,           \* characters
    NSlots,           \* EXCHANGE_MAX_NUM
    Size,             \* sequence: the cells of each CItem object
    Cols, Page,       \* INVENTORY_PAGE_COLUMN, INVENTORY_PAGE_SIZE
    InvenMax,         \* GetInventoryMax(), of each character
    Start,            \* sequence: where each object is at the start
    StartGold,        \* of each character
    GoldMax,          \* GOLD_MAX
    CountMax,         \* g_bItemCountLimit
    MaxExch,          \* bound: exchanges
    MaxWorld          \* bound: things that happen beside the exchange

Chars  == 1..NChars
Objs   == 1..Len(Size)
Slots  == 1..NSlots
Nobody == 0
Cells  == 0..(4 * Page)

ASSUME ExchangeAssumption ==
    /\ NChars \in Nat \ {0} /\ NSlots \in Nat \ {0}
    /\ Size \in Seq(Nat \ {0})
    /\ Start \in [Objs -> [owner : Chars \cup {Nobody}, cell : Cells,
                           count : 0..CountMax, ex : {FALSE}]]
    /\ Cols \in Nat \ {0} /\ Page \in Nat \ {0}
    /\ InvenMax \in [Chars -> Cells]
    /\ GoldMax \in Nat \ {0} /\ CountMax \in Nat \ {0}
    /\ StartGold \in [Chars -> 0..(GoldMax - 1)]
    /\ MaxExch \in Nat /\ MaxWorld \in Nat

VARIABLES
    item,             \* each object: its owner (Nobody: freed), cell, count, ex
    gold,             \* POINT_GOLD of each character
    with,             \* GetExchange()->GetCompany()->GetOwner(), or Nobody
    exch,             \* the CExchange of each character
    pend,             \* m_set_pkChrForDelayedSave
    row,              \* gold in each player's row
    spent,            \* history: gold paid to the world since the row was saved
    agreed,           \* history: what both offered when this side accepted
    excuses,          \* history: what happened that the code does not survive
    nExch, nWorld

vars == <<item, gold, with, exch, pend, row, spent, agreed, excuses, nExch, nWorld>>

(* m_apItems and m_aItemPos of one slot.                                   *)
NoItem == [obj |-> Nobody, cell |-> 0]
NoExch == [accept |-> FALSE, gold |-> 0, slot |-> [s \in Slots |-> NoItem]]
Freed  == [owner |-> Nobody, cell |-> 0, count |-> 0, ex |-> FALSE]

Used(c)   == {s \in Slots : exch[c].slot[s] # NoItem}
Held(c)   == {exch[c].slot[s].obj : s \in Used(c)}
Offer(c)  == [items |-> {<<o, item[o].count>> : o \in Held(c)},
              gold  |-> exch[c].gold]
NoOffer   == [items |-> {}, gold |-> 0]
NoOffers  == <<NoOffer, NoOffer>>
Own(c)    == {o \in Objs : item[o].owner = c}

-----------------------------------------------------------------------------
(* Room in an inventory.                                                   *)

Cover(cell, n) == {cell + Cols * j : j \in 0..(n - 1)}

(* The items are in their owners' inventories, no two in the same place.   *)
ASSUME StartAssumption ==
    \A o \in Objs : Start[o].owner # Nobody =>
        /\ Cover(Start[o].cell, Size[o]) \subseteq 0..(InvenMax[Start[o].owner] - 1)
        /\ \A p \in Objs \ {o} : Start[p].owner = Start[o].owner =>
              Cover(Start[o].cell, Size[o]) \cap Cover(Start[p].cell, Size[p]) = {}

Taken(c)  == UNION {Cover(item[o].cell, Size[o]) : o \in Own(c)}
Inside(c) == 0..(InvenMax[c] - 1)
Free(c)   == Inside(c) \ Taken(c)

(* Cells past the end of c's inventory but on its last page: CheckSpace    *)
(* reads and writes them in a vector of GetInventoryMax() elements.        *)
Past(c) == InvenMax[c]..(((InvenMax[c] - 1) \div Page + 1) * Page - 1)

(* Mutant: only the first cell is looked at. *)
Heads_FirstCell(c, free, n) == free \cap Inside(c)

(* The cells where an item of n cells can start.                           *)
Heads(c, free, n) ==
    {i \in Inside(c) : /\ Cover(i, n) \subseteq free
                       /\ \A p \in Cover(i, n) : p \div Page = i \div Page}

(* GetEmptyInventory.                                                      *)
NoCell == -1
FirstFit(c, free, n) ==
    IF Heads(c, free, n) = {} THEN NoCell
    ELSE CHOOSE i \in Heads(c, free, n) : \A j \in Heads(c, free, n) : i <= j

(* One object gets a place, if there is one.                               *)
Place(c, room, o) ==
    LET i == FirstFit(c, room.free, Size[o])
    IN IF i = NoCell THEN room
       ELSE [free |-> room.free \ Cover(i, Size[o]),
             at   |-> [room.at EXCEPT ![o] = i]]

(* Slot after slot, the offered objects are put into c's inventory: where  *)
(* each object goes.                                                       *)
Placed(c, free, slot) ==
    LET room[s \in 0..NSlots] ==
            IF s = 0 THEN [free |-> free, at |-> [o \in Objs |-> NoCell]]
            ELSE IF slot[s] = NoItem THEN room[s - 1]
            ELSE Place(c, room[s - 1], slot[s].obj)
    IN room[NSlots].at
Lands(at) == {o \in Objs : at[o] # NoCell}

(* Mutant: the room is not checked before the trade. *)
CheckSpace_Always(c, zero) == TRUE

(* CheckSpace of c's exchange, with the cells past the end that read 0.    *)
CheckSpace(c, zero) ==
    LET to == with[c]
    IN Held(c) \subseteq Lands(Placed(to, Free(to) \cup zero, exch[c].slot))

(* CheckSpace does not depend on what is past the end of the vector.       *)
SpaceIsSure(c) ==
    \A zero \in SUBSET Past(with[c]) : CheckSpace(c, zero) => CheckSpace(c, {})

(* Check: the gold is there, and every item is where it was.               *)
Check(c) ==
    /\ gold[c] >= exch[c].gold
    /\ \A s \in Used(c) :
         LET sl == exch[c].slot[s]
         IN item[sl.obj].owner = c /\ item[sl.obj].cell = sl.cell

-----------------------------------------------------------------------------
Init ==
    /\ item = [o \in Objs |-> Start[o]]
    /\ gold = StartGold
    /\ with = [c \in Chars |-> Nobody]
    /\ exch = [c \in Chars |-> NoExch]
    /\ pend = {}
    /\ row = StartGold
    /\ spent = [c \in Chars |-> 0]
    /\ agreed = [c \in Chars |-> NoOffers]
    /\ excuses = {}
    /\ nExch = 0 /\ nWorld = 0

possessions == <<item, gold>>
saves       == <<pend, row, spent>>
bounds      == <<nExch, nWorld>>
world       == <<possessions, saves>>

(* A character asks another one for an exchange: both are free.            *)
ExchangeStart(c, d) ==
    /\ nExch < MaxExch /\ nExch' = nExch + 1
    /\ c # d
    /\ with[c] = Nobody /\ with[d] = Nobody
    /\ gold[c] < GoldMax
    /\ with' = [with EXCEPT ![c] = d, ![d] = c]
    /\ exch' = [exch EXCEPT ![c] = NoExch, ![d] = NoExch]
    /\ UNCHANGED <<world, agreed, excuses, nWorld>>

(* What the input handler asks before it changes c's offer.                *)
MayChange(c) == with[c] # Nobody /\ ~exch[with[c]].accept

(* Mutant: who changes an offer keeps the accept given before. *)
Changed_KeepsAccept(c, e) ==
    /\ exch' = [exch EXCEPT ![c] = e, ![with[c]].accept = FALSE]
    /\ UNCHANGED agreed

(* Accept(false) on both sides, and c's exchange becomes e.                *)
Changed(c, e) ==
    /\ exch' = [exch EXCEPT ![c] = [e EXCEPT !.accept = FALSE],
                            ![with[c]].accept = FALSE]
    /\ agreed' = [agreed EXCEPT ![c] = NoOffers, ![with[c]] = NoOffers]

AddItem(c, o, s) ==
    /\ MayChange(c)
    /\ item[o].owner = c /\ ~item[o].ex
    /\ exch[c].slot[s] = NoItem
    /\ Changed(c, [exch[c] EXCEPT
                     !.slot[s] = [obj |-> o, cell |-> item[o].cell]])
    /\ item' = [item EXCEPT ![o].ex = TRUE]
    /\ UNCHANGED <<gold, with, saves, excuses, bounds>>

(* SetExchanging(false) on the objects.  On one that was freed the code    *)
(* writes to memory that the model takes to be unused, or to be the object *)
(* of a new item.                                                          *)
Release(objs) ==
    item' = [o \in Objs |-> IF o \in objs THEN [item[o] EXCEPT !.ex = FALSE]
                            ELSE item[o]]

RemoveItem(c, s) ==
    /\ MayChange(c)
    /\ exch[c].slot[s] # NoItem
    /\ Release({exch[c].slot[s].obj})
    /\ Changed(c, [exch[c] EXCEPT !.slot[s] = NoItem])
    /\ UNCHANGED <<gold, with, saves, excuses, bounds>>

AddGold(c, g) ==
    /\ MayChange(c)
    /\ gold[with[c]] + g < GoldMax
    /\ g > 0 /\ gold[c] >= g
    /\ exch[c].gold = 0
    /\ Changed(c, [exch[c] EXCEPT !.gold = g])
    /\ UNCHANGED <<world, with, excuses, bounds>>

(* The first of the two accepts.                                           *)
AcceptFirst(c) ==
    /\ with[c] # Nobody /\ ~exch[c].accept /\ ~exch[with[c]].accept
    /\ exch' = [exch EXCEPT ![c].accept = TRUE]
    /\ agreed' = [agreed EXCEPT ![c] = <<Offer(c), Offer(with[c])>>]
    /\ UNCHANGED <<world, with, excuses, bounds>>

(* CExchange::Cancel closes both windows.                                  *)
Closed(c) ==
    /\ with' = [with EXCEPT ![c] = Nobody, ![with[c]] = Nobody]
    /\ exch' = [exch EXCEPT ![c] = NoExch, ![with[c]] = NoExch]
    /\ agreed' = [agreed EXCEPT ![c] = NoOffers, ![with[c]] = NoOffers]

(* Mutant: only the side that cancels gets its items back. *)
Cancelled_OwnItems(c) == Closed(c) /\ Release(Held(c))

Cancelled(c) == Closed(c) /\ Release(Held(c) \cup Held(with[c]))

(* A cancel by the client, a distance too great, or the character's death. *)
Cancel(c) ==
    /\ with[c] # Nobody
    /\ Cancelled(c)
    /\ UNCHANGED <<gold, saves, excuses, bounds>>

(* The second accept, both sides seen to be in order or not.               *)
BothAccept(c) ==
    /\ with[c] # Nobody /\ ~exch[c].accept /\ exch[with[c]].accept
    /\ UNCHANGED bounds

InOrderBoth(c, zc, zd) ==
    /\ Check(c) /\ CheckSpace(c, zc)
    /\ Check(with[c]) /\ CheckSpace(with[c], zd)

(* A quest runs, the db connection is down, or a check fails.              *)
AcceptRefused(c) ==
    /\ BothAccept(c)
    /\ Cancelled(c)
    /\ UNCHANGED <<gold, saves, excuses>>

(* Mutant: the limit is not looked at. *)
Given_NoLimit(purse, c, d, g) == [purse EXCEPT ![c] = @ - g, ![d] = @ + g]

(* PointChange(POINT_GOLD) of d by g: nothing happens at GOLD_MAX.         *)
Given(purse, c, d, g) ==
    LET paid == [purse EXCEPT ![c] = @ - g]
    IN IF paid[d] + g >= GoldMax THEN paid ELSE [paid EXCEPT ![d] = @ + g]

(* Objects that change hands go to the cell they were given.               *)
Moved(things, to, at) ==
    [o \in Objs |-> IF o \in Lands(at)
                    THEN [things[o] EXCEPT !.owner = to, !.cell = at[o]]
                    ELSE things[o]]

(* Mutant: only the accepting side is saved when it pays. *)
Payers_Accepting(c) == {e \in {c} : exch[e].gold # 0}

(* Accept calls Save() for a side that pays.                               *)
Payers(c) == {e \in {c, with[c]} : exch[e].gold # 0}

(* Done of the accepting side, then Done of its company, into what is left *)
(* of the inventory; then Cancel.                                          *)
AcceptDone(c, zc, zd) ==
    LET d     == with[c]
        there == Placed(d, Free(d), exch[c].slot)
        gone  == UNION {Cover(item[o].cell, Size[o]) : o \in Lands(there)}
        back  == Placed(c, Free(c) \cup gone, exch[d].slot)
        purse == Given(gold, c, d, exch[c].gold)
        after == Moved(Moved(item, d, there), c, back)
    IN /\ BothAccept(c)
       /\ InOrderBoth(c, zc, zd)
       /\ item' = [o \in Objs |-> IF o \in Held(c) \cup Held(d)
                                  THEN [after[o] EXCEPT !.ex = FALSE]
                                  ELSE after[o]]
       /\ gold' = Given(purse, d, c, exch[d].gold)
       /\ pend' = pend \cup Payers(c)
       /\ Closed(c)
       /\ UNCHANGED <<row, spent, excuses>>

-----------------------------------------------------------------------------
(* The world beside the exchange: none of it asks for an open exchange,    *)
(* only moving asks whether the item is in one.                            *)

Happens == nWorld < MaxWorld /\ nWorld' = nWorld + 1 /\ UNCHANGED nExch

(* Gold found, a sale to an NPC, a quest's reward; the character is saved. *)
Earn(c) ==
    /\ Happens
    /\ gold[c] + 1 < GoldMax
    /\ gold' = [gold EXCEPT ![c] = @ + 1]
    /\ pend' = pend \cup {c}
    /\ UNCHANGED <<item, with, exch, row, spent, agreed, excuses>>

(* Gold put into the guild's safe: the player row is not saved for it.     *)
Pay(c) ==
    /\ Happens
    /\ gold[c] >= 1
    /\ gold' = [gold EXCEPT ![c] = @ - 1]
    /\ spent' = [spent EXCEPT ![c] = @ + 1]
    /\ UNCHANGED <<item, with, exch, pend, row, agreed, excuses>>

(* An item on the ground goes to an empty cell, as a new object.           *)
PickUp(c, o) ==
    /\ Happens
    /\ item[o].owner = Nobody
    /\ LET i == FirstFit(c, Free(c), Size[o])
       IN /\ i # -1
          /\ item' = [item EXCEPT ![o] = [owner |-> c, cell |-> i,
                                          count |-> 1, ex |-> FALSE]]
    /\ excuses' = excuses \cup {"reused" : d \in {x \in Chars : o \in Held(x)}}
    /\ UNCHANGED <<gold, with, exch, saves, agreed>>

(* An item on the ground is added to a stack, offered or not.              *)
PickUpIntoStack(c, o) ==
    /\ Happens
    /\ item[o].owner = c /\ item[o].count < CountMax
    /\ item' = [item EXCEPT ![o].count = @ + 1]
    /\ excuses' = excuses \cup {"stacked" : x \in Held(c) \cap {o}}
    /\ UNCHANGED <<gold, with, exch, saves, agreed>>

MoveItem(c, o) ==
    /\ Happens
    /\ item[o].owner = c /\ ~item[o].ex
    /\ \E cell \in Heads(c, Free(c), Size[o]) :
         item' = [item EXCEPT ![o].cell = cell]
    /\ UNCHANGED <<gold, with, exch, saves, agreed, excuses>>

(* The item expires, or a quest takes it: offered or not.                  *)
Expire(o) ==
    /\ Happens
    /\ item[o].owner # Nobody
    /\ item' = [item EXCEPT ![o] = Freed]
    /\ UNCHANGED <<gold, with, exch, saves, agreed, excuses>>

-----------------------------------------------------------------------------
(* Player rows.                                                            *)

Written(who) ==
    /\ row'   = [c \in Chars |-> IF c \in who THEN gold[c] ELSE row[c]]
    /\ spent' = [c \in Chars |-> IF c \in who THEN 0 ELSE spent[c]]
    /\ pend'  = pend \ who

ProcessDelayedSave ==
    /\ pend # {}
    /\ Written(pend)
    /\ UNCHANGED <<possessions, with, exch, agreed, excuses, bounds>>

(* The character leaves the game (and comes back): its row is saved at     *)
(* once, its exchange is cancelled.                                        *)
Leave(c) ==
    /\ Happens
    /\ Written({c})
    /\ IF with[c] # Nobody THEN Cancelled(c)
       ELSE UNCHANGED <<item, with, exch, agreed>>
    /\ UNCHANGED <<gold, excuses>>

Next ==
    \/ \E c \in Chars :
         \/ \E d \in Chars : ExchangeStart(c, d)
         \/ \E o \in Objs, s \in Slots : AddItem(c, o, s)
         \/ \E s \in Slots : RemoveItem(c, s)
         \/ \E g \in 1..(GoldMax - 1) : AddGold(c, g)
         \/ AcceptFirst(c)
         \/ AcceptRefused(c)
         \/ \E d \in Chars : \E zc \in SUBSET Past(d), zd \in SUBSET Past(c) :
              d = with[c] /\ AcceptDone(c, zc, zd)
         \/ Cancel(c)
         \/ Earn(c)
         \/ Pay(c)
         \/ \E o \in Objs : PickUp(c, o) \/ PickUpIntoStack(c, o) \/ MoveItem(c, o)
         \/ Leave(c)
    \/ \E o \in Objs : Expire(o)
    \/ ProcessDelayedSave

Spec == Init /\ [][Next]_vars

-----------------------------------------------------------------------------
(* Properties.                                                             *)

Item   == [owner : Chars \cup {Nobody}, cell : Cells, count : 0..CountMax, ex : BOOLEAN]
Purse  == 0..(GoldMax - 1)
Slot   == [obj : Objs, cell : Cells] \cup {NoItem}
Offers == [items : SUBSET (Objs \X (0..CountMax)), gold : Purse]

(* The variables keep their types: no purse reaches GOLD_MAX, no stack     *)
(* exceeds its limit, and no exchange holds what is not an item.           *)
TypeOK ==
    /\ item \in [Objs -> Item]
    /\ gold \in [Chars -> Purse] /\ row \in [Chars -> Purse]
    /\ spent \in [Chars -> Nat] /\ pend \subseteq Chars
    /\ with \in [Chars -> Chars \cup {Nobody}]
    /\ exch \in [Chars -> [accept : BOOLEAN, gold : Purse, slot : [Slots -> Slot]]]
    /\ agreed \in [Chars -> Offers \X Offers]
    /\ excuses \subseteq {"reused", "stacked"}
    /\ nExch \in 0..MaxExch /\ nWorld \in 0..MaxWorld

(* An exchange is between two: each side's company is the other side, and  *)
(* of the two at most one has accepted (exchange.cpp ExchangeStart,        *)
(* Accept and Cancel keep the two objects in step).                        *)
Paired ==
    \A c \in Chars : with[c] # Nobody =>
        /\ with[c] # c /\ with[with[c]] = c
        /\ ~(exch[c].accept /\ exch[with[c]].accept)

(* An item is marked as exchanging exactly while its owner offers it, so   *)
(* no item stays locked after its exchange and none is offered that can be *)
(* used, dropped or moved; except for an item whose object was freed while *)
(* on offer and taken for a new one.                                       *)
MarkedIffOffered ==
    "reused" \notin excuses =>
        \A o \in Objs : item[o].ex <=> \E c \in Chars : item[o].owner = c /\ o \in Held(c)

(* An offered item stays with its owner in the cell it was offered from    *)
(* (what Check looks at), unless it is gone from the game.                 *)
OfferStays ==
    "reused" \notin excuses =>
        \A c \in Chars : \A s \in Used(c) :
            LET sl == exch[c].slot[s]
            IN \/ item[sl.obj].owner = Nobody
               \/ item[sl.obj].owner = c /\ item[sl.obj].cell = sl.cell

(* Both, from the offer to the end of the exchange, however it ends.       *)
OffersHold == MarkedIffOffered /\ OfferStays

(* No two items of a character share a cell, and none is outside its       *)
(* inventory: Done finds every item a place that is really empty.          *)
NoOverlap ==
    \A c \in Chars :
        /\ Taken(c) \subseteq Inside(c)
        /\ \A o, p \in Own(c) : o < p =>
             Cover(item[o].cell, Size[o]) \cap Cover(item[p].cell, Size[p]) = {}

(* Who has accepted has accepted the two offers as they now are: neither   *)
(* side can change its offer behind an accept (AddItem, RemoveItem,        *)
(* AddGold withdraw both).                                                 *)
ObjsOf(offer) == {p[1] : p \in offer.items}
AcceptStands ==
    \A c \in Chars : (with[c] # Nobody /\ exch[c].accept) =>
        LET now == <<Offer(c), Offer(with[c])>>
        IN \A k \in 1..2 : /\ ObjsOf(agreed[c][k]) = ObjsOf(now[k])
                           /\ agreed[c][k].gold = now[k].gold

(* What this code does not get right when the second side, c, accepts.     *)
(* CheckSpace went by cells past the end of its vector,                    *)
Overread(c) == ~SpaceIsSure(c) \/ ~SpaceIsSure(with[c])
(* the cells c's own items leave make GetEmptyInventory choose differently *)
(* from CheckSpace, until an item is left without a place,                 *)
Fragments(c) ==
    LET d    == with[c]
        gone == UNION {Cover(item[o].cell, Size[o]) : o \in Held(c)}
    IN /\ Held(d) \subseteq Lands(Placed(c, Free(c), exch[d].slot))
       /\ ~(Held(d) \subseteq Lands(Placed(c, Free(c) \cup gone, exch[d].slot)))
(* or the gold of the other side has grown since AddGold looked at it.     *)
Overflows(c) ==
    LET purse == Given(gold, c, with[c], exch[c].gold)
    IN \/ gold[with[c]] + exch[c].gold >= GoldMax
       \/ purse[c] + exch[with[c]].gold >= GoldMax

(* A trade is what both agreed to, whole.  When the two windows close and  *)
(* an item or gold has changed hands, one side had accepted before, every  *)
(* item it saw then has changed sides with the count it saw, nothing else  *)
(* has, and so has the gold; except for the named defects.                 *)
Owners == [o \in Objs |-> item[o].owner]
Trade(c, d) ==
    /\ with[c] = d /\ with'[c] = Nobody
    /\ <<Owners, gold>>' # <<Owners, gold>>

Gives(c, d) == {<<o, item'[o].count>> : o \in {x \in Own(c) : item'[x].owner = d}}

Whole(c, d, mine, yours) ==
    /\ Gives(c, d) = mine.items /\ Gives(d, c) = yours.items
    /\ gold'[c] = gold[c] - mine.gold + yours.gold
    /\ gold'[d] = gold[d] - yours.gold + mine.gold

FairTrade ==
    [][\A c \in Chars : \A d \in Chars \ {c} : Trade(c, d) =>
        /\ exch[c].accept \/ exch[d].accept
        /\ exch[d].accept =>
             \/ Overread(c) \/ Fragments(c) \/ Overflows(c)
             \/ excuses \cap {"stacked", "reused"} # {}
             \/ Whole(c, d, agreed[d][2], agreed[d][1])]_vars

(* Gold is not made by a crash: what the rows hold together is no more     *)
(* than what is in the game or was paid to the world, except until the     *)
(* next delayed save (Accept saves a side that pays).                      *)
Total(purse) ==
    LET sum[c \in 0..NChars] == IF c = 0 THEN 0 ELSE sum[c - 1] + purse[c]
    IN sum[NChars]
NoGoldDoubled == pend = {} => Total(row) <= Total(gold) + Total(spent)

=============================================================================

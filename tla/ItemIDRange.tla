---------------------------- MODULE ItemIDRange ----------------------------
(***************************************************************************)
(* How item ids are made unique.  The db splits the ids into ranges, gives *)
(* every game process two of them when it boots (one to use, one to        *)
(* spare) and a new spare when it starts on its spare; it remembers in the *)
(* CPeer what it gave, and takes a range back when the connection closes.  *)
(* Where the unused part of a range begins is read from the item table,    *)
(* while items saved lately are still in the db's cache or only in the     *)
(* memory of a game.                                                       *)
(*                                                                         *)
(* An item is its id.  A save reaches the cache at once; what an item      *)
(* holds, and how the cache is written, is ItemCache's subject.  Of an id  *)
(* that is in the table it does not matter who else has it: mem and cache  *)
(* are the ids the table does not have.  An item stays in the game that    *)
(* made it, as long as that runs.                                          *)
(***************************************************************************)
EXTENDS Integers, SequencesExt

CONSTANTS
    Games,            \* game processes
    MinimumRange,     \* cs_dwMinimumRange: ids in a range
    MinimumRemain,    \* cs_dwMinimumRemainCount
    MaxItemID,        \* cs_dwMaxItemID
    OwnMin, OwnMax,   \* ITEM_ID_RANGE of the db's conf.txt
    Rows,             \* ids in the item table at the start
    MaxNew,           \* bound: ids issued
    MaxStart,         \* bound: processes started
    MaxLost           \* bound: connections lost, and restarts of the db

Ids == 1..MaxItemID

(* conf.txt gives the db whole ranges to itself, or these and the last id  *)
(* of the range before, as ITEM_ID_RANGE = 1000000000 4000000000 does; the *)
(* code relies on it, and does not check it.                               *)
ASSUME ItemIDRangeAssumption ==
    /\ MinimumRange \in Nat \ {0} /\ MinimumRemain \in Nat \ {0}
    /\ MaxItemID \in Nat /\ MaxItemID % MinimumRange = 0
    /\ MaxItemID >= 2 * MinimumRange
    /\ OwnMin \in Ids /\ OwnMin % MinimumRange \in {0, 1}
    /\ OwnMax \in Ids /\ OwnMax % MinimumRange = 0
    /\ Rows \subseteq Ids
    /\ MaxNew \in Nat /\ MaxStart \in Nat /\ MaxLost \in Nat

VARIABLES
    list,             \* m_listData
    own,              \* m_itemRange of CClientManager
    peer,             \* m_itemRange, m_itemSpareRange of each game's CPeer
    game,             \* m_ItemIDRange, m_dwCurrentID, m_ItemIDSpareRange
    toDb, toGame,     \* packets under way
    mem, cache,       \* ids in each game's memory, in the db's cache
    sql,              \* ids in the item table
    stale,            \* history: ids in use that a range was built over
    lost,             \* history: ranges of a game that ran on, unconnected
    refused,          \* history: games told that there is no range left
    nNew, nStart, nLost

vars == <<list, own, peer, game, toDb, toGame, mem, cache, sql,
          stale, lost, refused, nNew, nStart, nLost>>

items == <<mem, cache, sql>>

-----------------------------------------------------------------------------
(* Ranges.                                                                 *)

NoRange   == [min |-> 0, max |-> 0, use |-> 0]
IsSet(r)  == r.min # 0 /\ r.max # 0 /\ r.use # 0
IdsOf(r)  == r.use..r.max

(* Mutant: the last id in the table is handed out again. *)
BuildRange_NoIncrement(min, max, rows) ==
    LET ids == rows \cap (min..max)
        use == IF ids = {} THEN min ELSE CHOOSE i \in ids : \A j \in ids : j <= i
    IN IF max - use < MinimumRemain THEN NoRange
       ELSE [min |-> min, max |-> max, use |-> use]

(* BuildRange, or NoRange when it says not to use the range.  No row has   *)
(* come between its two SELECTs.                                           *)
BuildRange(min, max, rows) ==
    LET ids == rows \cap (min..max)
        use == IF ids = {} THEN min
               ELSE 1 + CHOOSE i \in ids : \A j \in ids : j <= i
    IN IF max - use < MinimumRemain THEN NoRange
       ELSE [min |-> min, max |-> max, use |-> use]

(* Build: the ranges of the games, those within the db's own left out.     *)
NBuild == (MaxItemID \div MinimumRange) - 2

BuildNth(i, rows) ==
    LET min == MinimumRange * i + 1
        max == MinimumRange * (i + 1)
    IN IF OwnMin <= min /\ max <= OwnMax THEN NoRange ELSE BuildRange(min, max, rows)

Build(rows) ==
    LET upto[i \in 0..NBuild] ==
            IF i = 0 THEN <<>>
            ELSE IF IsSet(BuildNth(i, rows)) THEN Append(upto[i - 1], BuildNth(i, rows))
            ELSE upto[i - 1]
    IN upto[NBuild]

(* GetRange.  The collision check is without effect: for_each_peer takes   *)
(* a copy of the functor that should remember the outcome.                 *)
GetRange(l) == IF l = <<>> THEN NoRange ELSE Head(l)
Rest(l)     == IF l = <<>> THEN l ELSE Tail(l)

NoPeer   == [up |-> FALSE, main |-> NoRange, spare |-> NoRange]
NewPeer  == [NoPeer EXCEPT !.up = TRUE]
NoGame   == [up |-> FALSE, main |-> NoRange, cur |-> 0, spare |-> NoRange]
NewGame  == [NoGame EXCEPT !.up = TRUE]

Booted(g)  == game[g].up /\ IsSet(game[g].main)
Held(g)    == {r.min : r \in {x \in {game[g].main, game[g].spare} : IsSet(x)}}
Alive      == (UNION {mem[g] : g \in Games}) \cup cache \cup sql

-----------------------------------------------------------------------------
(* The db.                                                                 *)

(* CPeer::OnClose: the range in use goes back to the list; the spare is    *)
(* forgotten.                                                              *)
OnClose(g) ==
    LET r == BuildRange(peer[g].main.min, peer[g].main.max, sql)
    IN /\ list'  = IF IsSet(r) THEN Append(list, r) ELSE list
       /\ stale' = stale \cup IF IsSet(r) THEN (Alive' \ sql) \cap IdsOf(r) ELSE {}
       /\ peer'  = [peer EXCEPT ![g] = NoPeer]
       /\ toDb'  = [toDb EXCEPT ![g] = <<>>]
       /\ toGame' = [toGame EXCEPT ![g] = <<>>]

(* Mutant: both ranges of a game are the same one. *)
DbBoot_OneRange(g) ==
    /\ toDb[g] # <<>> /\ Head(toDb[g]) = "boot"
    /\ peer'   = [peer EXCEPT ![g].main = GetRange(list), ![g].spare = GetRange(list)]
    /\ list'   = Rest(list)
    /\ toDb'   = [toDb EXCEPT ![g] = Tail(@)]
    /\ toGame' = [toGame EXCEPT ![g] = Append(@, <<GetRange(list), GetRange(list)>>)]
    /\ UNCHANGED <<own, game, items, stale, lost, refused, nNew, nStart, nLost>>

(* HEADER_GD_BOOT: two ranges.  CPeer keeps no range that is not set.      *)
DbBoot(g) ==
    LET main == GetRange(list)
        spare == GetRange(Rest(list))
    IN /\ toDb[g] # <<>> /\ Head(toDb[g]) = "boot"
       /\ peer'   = [peer EXCEPT ![g].main = main, ![g].spare = spare]
       /\ list'   = Rest(Rest(list))
       /\ toDb'   = [toDb EXCEPT ![g] = Tail(@)]
       /\ toGame' = [toGame EXCEPT ![g] = Append(@, <<main, spare>>)]
       /\ UNCHANGED <<own, game, items, stale, lost, refused, nNew, nStart, nLost>>

(* HEADER_GD_REQ_SPARE_ITEM_ID_RANGE, CPeer::SendSpareItemIDRange.         *)
DbRequest(g) ==
    /\ toDb[g] # <<>> /\ Head(toDb[g]) = "req"
    /\ IF IsSet(peer[g].spare)
       THEN /\ peer'   = [peer EXCEPT ![g].main = peer[g].spare,
                                      ![g].spare = GetRange(list)]
            /\ list'   = Rest(list)
            /\ toGame' = [toGame EXCEPT ![g] = Append(@, <<GetRange(list)>>)]
       ELSE /\ toGame' = [toGame EXCEPT ![g] = Append(@, <<NoRange>>)]
            /\ UNCHANGED <<peer, list>>
    /\ refused' = IF list = <<>> THEN refused \cup {g} ELSE refused
    /\ toDb' = [toDb EXCEPT ![g] = Tail(@)]
    /\ UNCHANGED <<own, game, items, stale, lost, nNew, nStart, nLost>>

(* An item award: the db makes the item itself, as a row of the table.     *)
Award ==
    /\ nNew < MaxNew
    /\ own.use <= own.max
    /\ sql' = sql \cup {own.use}
    /\ own' = [own EXCEPT !.use = @ + 1]
    /\ nNew' = nNew + 1
    /\ UNCHANGED <<list, peer, game, toDb, toGame, mem, cache,
                   stale, lost, refused, nStart, nLost>>

(* The db is stopped, which writes its cache, or crashes, which does not,  *)
(* and starts again.  The games run on.                                    *)
DbRestart(written) ==
    /\ nLost < MaxLost
    /\ sql'   = sql \cup written
    /\ cache' = {}
    /\ own'   = BuildRange(OwnMin, OwnMax, sql')
    /\ IsSet(own')
    /\ list'  = Build(sql')
    /\ UNCHANGED <<game, mem, refused, nNew, nStart>>
    /\ stale' = stale \cup (Alive' \ sql')
    /\ lost'  = lost \cup UNION {Held(g) : g \in Games}
    /\ peer'  = [g \in Games |-> NoPeer]
    /\ toDb'  = [g \in Games |-> <<>>]
    /\ toGame' = [g \in Games |-> <<>>]
    /\ nLost' = nLost + 1

-----------------------------------------------------------------------------
(* A game process.                                                         *)

(* It starts and connects: SetPhase(PHASE_DBCLIENT) sends HEADER_GD_BOOT.  *)
GameStart(g) ==
    /\ nStart < MaxStart
    /\ ~game[g].up
    /\ nStart' = nStart + 1
    /\ game' = [game EXCEPT ![g] = NewGame]
    /\ peer' = [peer EXCEPT ![g] = NewPeer]
    /\ toDb' = [toDb EXCEPT ![g] = <<"boot">>]
    /\ refused' = refused \ {g}
    /\ UNCHANGED <<list, own, toGame, items, stale, lost, nNew, nLost>>

(* The process ends; what is in keep it has saved.                         *)
Stopped(g, keep) ==
    /\ game'  = [game EXCEPT ![g] = NoGame]
    /\ mem'   = [mem EXCEPT ![g] = {}]
    /\ cache' = cache \cup keep
    /\ UNCHANGED <<own, sql, lost, refused, nNew>>
    /\ OnClose(g)

(* It crashes, or is shut down and saves its items first.                  *)
GameStop(g, keep) ==
    /\ game[g].up
    /\ keep = {} \/ peer[g].up
    /\ Stopped(g, keep)
    /\ UNCHANGED <<nStart, nLost>>

(* CInputDB::Boot: a game that gets less than two ranges shuts down.       *)
GameBoot(g) ==
    /\ toGame[g] # <<>> /\ Len(Head(toGame[g])) = 2
    /\ LET main == Head(toGame[g])[1]
           spare == Head(toGame[g])[2]
       IN IF IsSet(main) /\ IsSet(spare)
          THEN /\ game' = [game EXCEPT ![g] = [up |-> TRUE, main |-> main,
                                               cur |-> main.use, spare |-> spare]]
               /\ toGame' = [toGame EXCEPT ![g] = Tail(@)]
               /\ UNCHANGED <<list, own, peer, toDb, items, stale, lost, refused, nNew>>
          ELSE Stopped(g, {})
    /\ UNCHANGED <<nStart, nLost>>

(* HEADER_DG_ACK_SPARE_ITEM_ID_RANGE, SetMaxSpareItemID.                   *)
GameSpare(g) ==
    /\ toGame[g] # <<>> /\ Len(Head(toGame[g])) = 1
    /\ LET r == Head(toGame[g])[1]
       IN game' = IF IsSet(r) THEN [game EXCEPT ![g].spare = r] ELSE game
    /\ toGame' = [toGame EXCEPT ![g] = Tail(@)]
    /\ UNCHANGED <<list, own, peer, toDb, items, stale, lost, refused,
                   nNew, nStart, nLost>>

(* A new item takes the id i.                                              *)
Issue(g, i) ==
    /\ mem' = [mem EXCEPT ![g] = @ \cup {i}]
    /\ nNew' = nNew + 1
    /\ UNCHANGED <<list, own, peer, toGame, cache, sql, stale, lost, refused, nStart, nLost>>

(* GetNewID within the range.                                              *)
GetNewID(g) ==
    /\ nNew < MaxNew
    /\ Booted(g) /\ game[g].cur < game[g].main.max
    /\ game' = [game EXCEPT ![g].cur = @ + 1]
    /\ Issue(g, game[g].cur)
    /\ UNCHANGED toDb

(* Mutant: the new spare is not asked for. *)
SwitchRange_NoRequest(g) ==
    /\ nNew < MaxNew
    /\ Booted(g) /\ game[g].cur >= game[g].main.max
    /\ IsSet(game[g].spare)
    /\ game' = [game EXCEPT ![g].main = game[g].spare, ![g].cur = game[g].spare.use + 1,
                            ![g].spare = NoRange]
    /\ Issue(g, game[g].spare.use)
    /\ UNCHANGED toDb

(* Mutant: the spare is not given up when it becomes the range in use. *)
SwitchRange_KeepSpare(g) ==
    /\ nNew < MaxNew
    /\ Booted(g) /\ game[g].cur >= game[g].main.max
    /\ IsSet(game[g].spare)
    /\ game' = [game EXCEPT ![g].main = game[g].spare, ![g].cur = game[g].spare.use + 1]
    /\ Issue(g, game[g].spare.use)
    /\ toDb' = IF peer[g].up THEN [toDb EXCEPT ![g] = Append(@, "req")] ELSE toDb

(* GetNewID at the end of the range: the spare is next, and a new spare is *)
(* asked for, unless the db is not there.                                  *)
SwitchRange(g) ==
    /\ nNew < MaxNew
    /\ Booted(g) /\ game[g].cur >= game[g].main.max
    /\ IsSet(game[g].spare)
    /\ game' = [game EXCEPT ![g].main = game[g].spare, ![g].cur = game[g].spare.use + 1,
                            ![g].spare = NoRange]
    /\ Issue(g, game[g].spare.use)
    /\ toDb' = IF peer[g].up THEN [toDb EXCEPT ![g] = Append(@, "req")] ELSE toDb

(* GetNewID with no range left: the process shuts down.                    *)
RunDry(g) ==
    /\ Booted(g) /\ game[g].cur >= game[g].main.max
    /\ ~IsSet(game[g].spare)
    /\ Stopped(g, IF peer[g].up THEN mem[g] ELSE {})
    /\ UNCHANGED <<nStart, nLost>>

(* The connection breaks; both processes run on.                           *)
ConnectionLost(g) ==
    /\ nLost < MaxLost
    /\ game[g].up /\ peer[g].up
    /\ UNCHANGED <<own, game, items, refused, nNew, nStart>>
    /\ OnClose(g)
    /\ lost' = lost \cup Held(g)
    /\ nLost' = nLost + 1

(* SetPhase(PHASE_DBCLIENT) again: bSentBoot is set, so no BOOT is sent.   *)
Reconnect(g) ==
    /\ game[g].up /\ ~peer[g].up
    /\ peer' = [peer EXCEPT ![g] = NewPeer]
    /\ UNCHANGED <<list, own, game, toDb, toGame, items, stale, lost, refused,
                   nNew, nStart, nLost>>

-----------------------------------------------------------------------------
(* Items.                                                                  *)

(* An item is saved.                                                       *)
Save(g, i) ==
    /\ peer[g].up /\ i \in mem[g] \ cache
    /\ cache' = cache \cup {i}
    /\ UNCHANGED <<mem, sql>>

(* It is destroyed: the db drops it from the cache and the table.  The     *)
(* items of the first hour stay (a bound).                                 *)
Destroy(g, i) ==
    /\ Booted(g) /\ peer[g].up /\ i \in mem[g] \cup (sql \ Rows)
    /\ mem' = [mem EXCEPT ![g] = @ \ {i}]
    /\ cache' = cache \ {i} /\ sql' = sql \ {i}

(* The db writes it to the table.                                          *)
Flush(i) ==
    /\ i \in cache
    /\ sql' = sql \cup {i} /\ cache' = cache \ {i}
    /\ mem' = [g \in Games |-> mem[g] \ {i}]

ItemStep ==
    /\ \E i \in Alive :
          \/ \E g \in Games : Save(g, i) \/ Destroy(g, i)
          \/ Flush(i)
    /\ UNCHANGED <<list, own, peer, game, toDb, toGame, stale, lost, refused,
                   nNew, nStart, nLost>>

Init ==
    /\ list = Build(Rows)
    /\ own = BuildRange(OwnMin, OwnMax, Rows) /\ IsSet(own)
    /\ peer = [g \in Games |-> NoPeer]
    /\ game = [g \in Games |-> NoGame]
    /\ toDb = [g \in Games |-> <<>>] /\ toGame = [g \in Games |-> <<>>]
    /\ mem = [g \in Games |-> {}] /\ cache = {} /\ sql = Rows
    /\ stale = {} /\ lost = {} /\ refused = {}
    /\ nNew = 0 /\ nStart = 0 /\ nLost = 0

GameStep(g) ==
    \/ DbBoot(g) \/ DbRequest(g)
    \/ GameStart(g) \/ GameBoot(g) \/ GameSpare(g)
    \/ GetNewID(g) \/ SwitchRange(g) \/ RunDry(g)
    \/ ConnectionLost(g) \/ Reconnect(g)
    \/ \E keep \in {{}, mem[g]} : GameStop(g, keep)

Next ==
    \/ \E g \in Games : GameStep(g)
    \/ Award
    \/ \E written \in {{}, cache} : DbRestart(written)
    \/ ItemStep

Spec == Init /\ [][Next]_vars

-----------------------------------------------------------------------------
(* Properties.                                                             *)

Ranges == [min : Nat, max : Nat, use : Nat]

(* Every part of the state has its type.                                   *)
TypeOK ==
    /\ list \in Seq(Ranges) /\ own \in Ranges
    /\ peer \in [Games -> [up : BOOLEAN, main : Ranges, spare : Ranges]]
    /\ game \in [Games -> [up : BOOLEAN, main : Ranges, cur : Nat, spare : Ranges]]
    /\ toDb \in [Games -> Seq({"boot", "req"})]
    /\ toGame \in [Games -> Seq(Seq(Ranges))]
    /\ mem \in [Games -> SUBSET Ids] /\ cache \subseteq Ids /\ sql \subseteq Ids
    /\ stale \subseteq Ids /\ lost \subseteq Nat /\ refused \subseteq Games

(* What the db can give out and what it believes it has given never        *)
(* overlap: no two entries of m_listData, ranges of a CPeer, or the db's   *)
(* own range, have an id in common that a game may issue.                  *)
PeerRanges(g) == <<peer[g].main, peer[g].spare>>
Issuable(r)   == IF IsSet(r) THEN r.use..(r.max - 1) ELSE {}

GivenOnce ==
    /\ \A j \in DOMAIN list :
          /\ \A k \in DOMAIN list : j # k => list[j].min # list[k].min
          /\ Issuable(list[j]) \cap (own.min..own.max) = {}
          /\ \A g \in Games, k \in 1..2 : list[j].min # PeerRanges(g)[k].min
    /\ \A g, h \in Games, j, k \in 1..2 :
          <<g, j>> # <<h, k>> /\ IsSet(PeerRanges(g)[j])
              => PeerRanges(g)[j].min # PeerRanges(h)[k].min

(* The ranges a game draws on are the ones its CPeer has noted, also while *)
(* a request for a new spare or its answer is under way, so that what      *)
(* comes back when the game is gone is what it used.  Not so for a game    *)
(* that has lost its connection: BOOT is sent once, and the db forgets.    *)
HeldIsNoted ==
    \A g \in Games : Held(g) \subseteq {peer[g].main.min, peer[g].spare.min} \cup lost

(* An id that is issued is not that of an item that exists in some game's  *)
(* memory, in the db's cache or in the table.  Two things break this:      *)
(* ranges of a game that lost its connection (lost), and ids that were     *)
(* saved, but not in the table, when the range was built (stale).          *)
Excused(i) == i \in stale \/ \E m \in lost : i \in m..(m + MinimumRange - 1)
Fresh(i)   == i \notin Alive \/ Excused(i)

FreshId ==
    [][/\ \A g \in Games : /\ GetNewID(g) => Fresh(game[g].cur)
                           /\ SwitchRange(g) => Fresh(game[g].spare.use)
       /\ Award => Fresh(own.use)]_vars

(* A game without a spare range has asked for one and awaits the answer,   *)
(* or was told that there is none, or has lost its connection: otherwise   *)
(* its next range would be its last and the game shut down for nothing.    *)
SpareOnItsWay ==
    \A g \in Games :
        Booted(g) /\ ~IsSet(game[g].spare) =>
            \/ toDb[g] # <<>> \/ toGame[g] # <<>>
            \/ g \in refused
            \/ game[g].main.min \in lost
=============================================================================

----------------------------- MODULE ItemCache -----------------------------
(***************************************************************************)
(* One item between the game process and the database.  The game saves an  *)
(* item some time after it changes; the db process keeps the saves in a    *)
(* write-behind cache (CItemCache), grouped by owner in item cache sets,   *)
(* and turns them into SQL later.  A player who comes back gets the items  *)
(* from the set, or by a SELECT when the db has no set for the player.     *)
(*                                                                         *)
(* Items do not interact in this code, so the model has one.  A player's   *)
(* sessions are serial (module LoginSession): a new one starts only after  *)
(* the db processed the LOGOUT of the last, so all game processes together *)
(* are one FIFO connection to the db.  The SQL connections are the FIFO    *)
(* services of module QueryService: m_mainSQL, which answers, and          *)
(* m_asyncSQL, which does not, with no order between the two.              *)
(***************************************************************************)
EXTENDS Integers, Sequences, FiniteSets, SequencesExt

CONSTANTS
    NPlayers,         \* players, each with an account and a safebox
    MaxOps,           \* bound: things that happen to the item in the game
    MaxSess,          \* bound: sessions of all players together
    MaxFlush,         \* bound: FLUSH_CACHE commands
    MaxCrash,         \* bound: game process crashes
    Online,           \* the players are in the game at the start
    MayStop           \* the db process may be shut down

ASSUME ItemAssumption ==
    /\ NPlayers \in Nat \ {0} /\ MaxOps \in Nat /\ MaxSess \in Nat
    /\ MaxFlush \in Nat /\ MaxCrash \in Nat /\ Online \in BOOLEAN
    /\ MayStop \in BOOLEAN

Pids   == 1..NPlayers
Nobody == 0

VARIABLES
    item,             \* the CItem in the game
    delayed,          \* it is in m_set_pkItemForDelayedSave
    st, sess,         \* each player's state in the game, and desc handle
    box,              \* each player's safebox window
    toDb, toGame,     \* the connection
    cache,            \* the db's CItemCache object, in m_map_itemCache or not
    set,              \* m_map_pkItemCacheSetPtr, with the item's pointer or not
    pcache,           \* players in m_map_playerCache
    timer,            \* players in m_map_logout
    main, async,      \* statements queued on m_mainSQL and m_asyncSQL
    results,          \* answers of m_mainSQL
    row,              \* the row of the item table
    up,               \* the db's main loop runs
    saved,            \* history: what the last save the db processed says
    excuses,          \* history: what happened that the code does not survive
    nOps, nSess, nFlush, nCrash

game   == <<item, delayed, st, sess, box>>
dbVars == <<cache, set, pcache, timer, up>>
sql    == <<main, async, results, row>>
hist   == <<saved, excuses>>
count  == <<nOps, nSess, nFlush, nCrash>>
vars   == <<game, toDb, toGame, dbVars, sql, hist, count>>

(* What a save, a row and a load say about the item: TPlayerItem.  win is  *)
(* "inv" for every window the player carries and "box" for SAFEBOX, whose  *)
(* owner is the account; ver stands for count, sockets and attributes.     *)
Data   == [owner : Pids, win : {"inv", "box"}, ver : Nat]
NoItem == [owner |-> Nobody, win |-> "none", ver |-> 0]
InInv(p, v) == [owner |-> p, win |-> "inv", ver |-> v]
InBox(p, v) == [owner |-> p, win |-> "box", ver |-> v]

NoCache == [in |-> FALSE, owner |-> Nobody, ver |-> 0, dead |-> FALSE,
            dirty |-> FALSE]
Cached(c) == IF c.in /\ ~c.dead THEN InInv(c.owner, c.ver) ELSE NoItem

Item(a, p, v, l) == [at |-> a, by |-> p, ver |-> v, last |-> l]

M(op, p, s, x) == [op |-> op, p |-> p, s |-> s, x |-> x]
Write(x) == M(IF x = NoItem THEN "DELETE" ELSE "REPLACE", Nobody, 0, x)

InitOffline ==
    /\ st = [p \in Pids |-> "off"]
    /\ item = Item(IF row = NoItem THEN "unborn" ELSE "none", Nobody, 0, Nobody)
    /\ cache = NoCache /\ set = [p \in Pids |-> "none"]

(* After every player's first load. *)
InitOnline ==
    /\ st = [p \in Pids |-> "play"]
    /\ IF row = InInv(1, 0)
       THEN /\ \E l \in {Nobody, 1} : item = Item("inv", 1, 0, l)
            /\ cache = [NoCache EXCEPT !.in = TRUE, !.owner = 1]
            /\ set = [p \in Pids |-> IF p = 1 THEN "with" ELSE "without"]
       ELSE /\ item = Item(IF row = NoItem THEN "unborn" ELSE "none",
                           Nobody, 0, Nobody)
            /\ cache = NoCache /\ set = [p \in Pids |-> "without"]

Init ==
    /\ \/ row = NoItem                          \* the item does not exist yet
       \/ row = InInv(1, 0) \/ row = InBox(1, 0)
    /\ IF Online THEN InitOnline ELSE InitOffline
    /\ sess = [p \in Pids |-> p]
    /\ delayed = FALSE
    /\ box = [p \in Pids |-> "closed"]
    /\ toDb = <<>> /\ toGame = <<>>
    /\ pcache = {} /\ timer = {} /\ up = TRUE
    /\ main = <<>> /\ async = 0 /\ results = <<>>
    /\ saved = row /\ excuses = {}
    /\ nOps = 0 /\ nSess = 0 /\ nFlush = 0 /\ nCrash = 0
-----------------------------------------------------------------------------
(* The item cache.  Each operator says what becomes of cache, set and the  *)
(* statements on the main connection.                                      *)

Enqueue(q) == main' = main \o q

(* CItemCache::OnFlush through cache<T>::Flush: nothing for a clean cache. *)
FlushQuery(c) == IF c.dirty THEN <<Write(Cached(c))>> ELSE <<>>

Flush == /\ Enqueue(FlushQuery(cache))
         /\ cache' = [cache EXCEPT !.dirty = FALSE]

(* Mutant: the pointer stays in the set of the item's former owner. *)
UnlinkedNot(sets) == sets

(* The sets without the item's pointer in that of the cached owner. *)
Unlinked(sets) ==
    IF cache.in /\ sets[cache.owner] = "with"
    THEN [sets EXCEPT ![cache.owner] = "without"] ELSE sets

(* Mutant: an item without a set keeps its data for a later flush. *)
PutItemCache_NoDirectSave(x, skip, sets) ==
    LET s == IF cache.owner # x.owner THEN Unlinked(sets) ELSE sets
    IN  /\ set' = IF s[x.owner] = "none" THEN s ELSE [s EXCEPT ![x.owner] = "with"]
        /\ cache' = [in |-> TRUE, owner |-> x.owner, ver |-> x.ver, dead |-> FALSE,
                     dirty |-> s[x.owner] # "none" /\ (cache.dirty \/ ~skip)]
        /\ Enqueue(<<>>)

(* With the sets there are, usually set: an owner without one means the    *)
(* item is written directly.                                               *)
PutItemCache(x, skip, sets) ==
    LET s == IF cache.owner # x.owner THEN Unlinked(sets) ELSE sets
        c == [in |-> TRUE, owner |-> x.owner, ver |-> x.ver, dead |-> FALSE,
              dirty |-> cache.dirty \/ ~skip]
    IN  IF s[x.owner] # "none"
        THEN /\ set' = [s EXCEPT ![x.owner] = "with"]
             /\ cache' = c
             /\ Enqueue(<<>>)
        ELSE /\ set' = s
             /\ cache' = [c EXCEPT !.dirty = FALSE]
             /\ Enqueue(<<Write(x)>>)

(* Mutant: the set goes away without its items being written. *)
DropItemCacheSet(p) ==
    /\ set' = [set EXCEPT ![p] = "none"]
    /\ cache' = IF set[p] = "with" THEN NoCache ELSE cache
    /\ UNCHANGED main

FlushItemCacheSet(p) ==
    /\ set' = [set EXCEPT ![p] = "none"]
    /\ IF set[p] = "with" THEN /\ Enqueue(FlushQuery(cache))
                               /\ cache' = NoCache
                          ELSE UNCHANGED <<cache, main>>

(* CClientManager::GetItemCacheSet's view of a player's items. *)
ItemsInSet(p) == IF set[p] = "with" THEN Cached(cache) ELSE NoItem
-----------------------------------------------------------------------------
(* The db process: packets from the game.                                  *)

Packet(op)  == up /\ toDb # <<>> /\ Head(toDb).op = op
Consume     == toDb' = Tail(toDb)
Answer(m)   == toGame' = Append(toGame, m)

SelectsOf(p) == \E q \in ToSet(main) \cup ToSet(results) :
                    q.op = "ITEM" /\ q.p = p /\ q.s # 0

(* A player's items change while the db waits for a SELECT of them.        *)
Carrier(x) == IF x.win = "inv" THEN {x.owner} ELSE {}
Saving(x) ==
    /\ saved' = x
    /\ excuses' = IF \E p \in Carrier(x) \cup Carrier(saved) : SelectsOf(p)
                  THEN excuses \cup {"raced"} ELSE excuses

QUERY_ITEM_SAVE ==
    /\ Packet("ITEM_SAVE")
    /\ Consume
    /\ LET x == Head(toDb).x IN
       /\ Saving(x)
       /\ IF x.win = "box" THEN /\ set' = Unlinked(set)
                                /\ cache' = NoCache
                                /\ Enqueue(<<Write(x)>>)
                           ELSE PutItemCache(x, FALSE, set)
    /\ UNCHANGED <<game, toGame, pcache, timer, up, async, results, row, count>>

(* DeleteItemCache empties the object and leaves it in map and set; an     *)
(* item without a cache is deleted on the connection its owner chooses.    *)
QUERY_ITEM_DESTROY ==
    /\ Packet("ITEM_DESTROY")
    /\ Consume
    /\ Saving(NoItem)
    /\ LET pid == Head(toDb).p IN
       IF cache.in
       THEN /\ Enqueue(IF cache.dead THEN <<>> ELSE <<Write(NoItem)>>)
            /\ cache' = [cache EXCEPT !.dead = TRUE, !.dirty = FALSE]
            /\ UNCHANGED async
       ELSE /\ UNCHANGED cache
            /\ IF pid = Nobody
               THEN async' = async + 1 /\ UNCHANGED main
               ELSE Enqueue(<<Write(NoItem)>>) /\ UNCHANGED async
    /\ UNCHANGED <<game, toGame, set, pcache, timer, up, results, row, count>>

(* Mutant: the request to write the item at once is ignored. *)
QUERY_ITEM_FLUSH_Ignored ==
    /\ Packet("ITEM_FLUSH")
    /\ Consume
    /\ UNCHANGED <<game, toGame, dbVars, sql, hist, count>>

QUERY_ITEM_FLUSH ==
    /\ Packet("ITEM_FLUSH")
    /\ Consume
    /\ IF cache.in THEN Flush ELSE UNCHANGED <<cache, main>>
    /\ UNCHANGED <<game, toGame, set, pcache, timer, up, async, results, row,
                   hist, count>>

(* A save of the item for another player is not written yet.               *)
SavedForOther(p) == cache.dirty /\ cache.owner # p

(* The login tables may refuse (PLAYER_LOAD_FAILED): see LoginSession.     *)
QUERY_PLAYER_LOAD ==
    /\ Packet("PLAYER_LOAD")
    /\ Consume
    /\ LET m == Head(toDb)
           Select(q) ==
               /\ Enqueue(q \o <<M("ITEM", m.p, m.s, NoItem)>>)
               /\ excuses' = IF SavedForOther(m.p) THEN excuses \cup {"unwritten"}
                             ELSE excuses
       IN  /\ timer' = timer \ {m.p}
           /\ IF m.p \notin pcache
              THEN /\ Select(<<M("PLAYER", m.p, m.s, NoItem)>>)
                   /\ UNCHANGED toGame
              ELSE \/ UNCHANGED <<main, toGame, excuses>>
                   \/ /\ set[m.p] # "none"
                      /\ toGame' = toGame \o
                             <<M("PLAYER_LOAD_SUCCESS", m.p, m.s, NoItem),
                               M("ITEM_LOAD", m.p, m.s, ItemsInSet(m.p))>>
                      /\ UNCHANGED <<main, excuses>>
                   \/ /\ set[m.p] = "none"
                      /\ Answer(M("PLAYER_LOAD_SUCCESS", m.p, m.s, NoItem))
                      /\ Select(<<>>)
    /\ UNCHANGED <<game, cache, set, pcache, up, async, results, row, saved,
                   count>>

QUERY_PLAYER_SAVE ==
    /\ Packet("PLAYER_SAVE")
    /\ Consume
    /\ pcache' = pcache \cup {Head(toDb).p}
    /\ UNCHANGED <<game, toGame, cache, set, timer, up, sql, hist, count>>

QUERY_LOGOUT ==
    /\ Packet("LOGOUT")
    /\ Consume
    /\ timer' = timer \cup {Head(toDb).p}
    /\ UNCHANGED <<game, toGame, cache, set, pcache, up, sql, hist, count>>

QUERY_SAFEBOX_LOAD ==
    /\ Packet("SAFEBOX_LOAD")
    /\ Consume
    /\ Enqueue(<<M("SAFEBOX", Head(toDb).p, Head(toDb).s, NoItem)>>)
    /\ UNCHANGED <<game, toGame, dbVars, async, results, row, hist, count>>

QUERY_FLUSH_CACHE ==
    /\ Packet("FLUSH_CACHE")
    /\ Consume
    /\ LET p == Head(toDb).p IN
       IF p \in pcache
       THEN FlushItemCacheSet(p) /\ pcache' = pcache \ {p}
       ELSE UNCHANGED <<cache, set, pcache, main>>
    /\ UNCHANGED <<game, toGame, timer, up, async, results, row, hist, count>>
-----------------------------------------------------------------------------
(* The db process: timers, answers, shutdown.                              *)

(* Mutant: only the items of players with a cached player row are written. *)
UpdateItemCache_CachedPlayers ==
    /\ up /\ cache.in /\ cache.dirty /\ cache.owner \in pcache
    /\ Flush
    /\ UNCHANGED <<game, toDb, toGame, set, pcache, timer, up, async, results,
                   row, hist, count>>

UpdateItemCache ==
    /\ up /\ cache.in /\ cache.dirty
    /\ Flush
    /\ UNCHANGED <<game, toDb, toGame, set, pcache, timer, up, async, results,
                   row, hist, count>>

(* UpdatePlayerCache: the player's own row timed out and was written, the  *)
(* set's items follow.                                                     *)
UpdatePlayerCache(p) ==
    /\ up /\ p \in pcache /\ set[p] = "with" /\ cache.dirty
    /\ Flush
    /\ UNCHANGED <<game, toDb, toGame, set, pcache, timer, up, async, results,
                   row, hist, count>>

UpdateLogoutPlayer(p) ==
    /\ up /\ p \in timer
    /\ timer' = timer \ {p} /\ pcache' = pcache \ {p}
    /\ FlushItemCacheSet(p)
    /\ excuses' = IF SavedForOther(p) THEN excuses \cup {"expired"} ELSE excuses
    /\ UNCHANGED <<game, toDb, toGame, up, async, results, row, saved, count>>

Result(op) == up /\ results # <<>> /\ Head(results).op = op
PopResult  == results' = Tail(results)

ResultWithoutPeer ==
    /\ up /\ results # <<>> /\ Head(results).s = 0
    /\ PopResult
    /\ UNCHANGED <<game, toDb, toGame, dbVars, main, async, row, hist, count>>

RESULT_PLAYER_LOAD ==
    /\ Result("PLAYER") /\ Head(results).s # 0
    /\ PopResult
    /\ \/ Answer([Head(results) EXCEPT !.op = "PLAYER_LOAD_SUCCESS"])
       \/ UNCHANGED toGame                             \* PLAYER_LOAD_FAILED
    /\ UNCHANGED <<game, toDb, dbVars, main, async, row, hist, count>>

(* CreateItemCacheSet comes before PutItemCache, so nothing is written.    *)
RESULT_ITEM_LOAD ==
    /\ Result("ITEM") /\ Head(results).s # 0
    /\ PopResult
    /\ LET m    == Head(results)
           sets == [set EXCEPT ![m.p] = IF @ = "none" THEN "without" ELSE @]
       IN  /\ Answer([m EXCEPT !.op = "ITEM_LOAD"])
           /\ IF m.x = NoItem THEN set' = sets /\ UNCHANGED <<cache, main>>
              ELSE PutItemCache(m.x, TRUE, sets)
    /\ UNCHANGED <<game, toDb, pcache, timer, up, async, row, hist, count>>

RESULT_SAFEBOX_LOAD ==
    /\ up /\ results # <<>> /\ Head(results).s # 0
    /\ PopResult
    /\ \/ /\ Head(results).op = "SAFEBOX"
          /\ \/ /\ Enqueue(<<[Head(results) EXCEPT !.op = "SAFEBOX_ITEM"]>>)
                /\ UNCHANGED toGame
             \/ /\ Answer([Head(results) EXCEPT !.op = "WRONG_PASSWORD"])
                /\ UNCHANGED main
       \/ /\ Head(results).op = "SAFEBOX_ITEM"
          /\ Answer([Head(results) EXCEPT !.op = "SAFEBOX_LOAD"])
          /\ UNCHANGED main
    /\ UNCHANGED <<game, toDb, dbVars, async, row, hist, count>>

(* The main loop ends: the caches are flushed and freed, and the SQL       *)
(* connections execute what they have.                                     *)
Shutdown ==
    /\ MayStop /\ up
    /\ up' = FALSE
    /\ Enqueue(FlushQuery(cache))
    /\ cache' = NoCache /\ pcache' = {}
    /\ UNCHANGED <<game, toDb, toGame, set, timer, async, results, row, hist,
                   count>>
-----------------------------------------------------------------------------
(* The SQL server: each connection executes its statements in order.       *)

Matches(x, p, w) == IF x.owner = p /\ x.win = w THEN x ELSE NoItem

Selected(q) == [q EXCEPT !.x = CASE q.op = "ITEM" -> Matches(row, q.p, "inv")
                                 [] q.op = "SAFEBOX_ITEM" -> Matches(row, q.p, "box")
                                 [] OTHER -> NoItem]

MainExecutes ==
    /\ main # <<>>
    /\ main' = Tail(main)
    /\ LET q == Head(main) IN
       IF q.op \in {"REPLACE", "DELETE"}
       THEN row' = q.x /\ UNCHANGED results
       ELSE results' = Append(results, Selected(q)) /\ UNCHANGED row
    /\ excuses' = IF async > 0 THEN excuses \cup {"reordered"} ELSE excuses
    /\ UNCHANGED <<game, toDb, toGame, dbVars, async, saved, count>>

AsyncExecutes ==
    /\ async > 0
    /\ async' = async - 1
    /\ row' = NoItem
    /\ excuses' = IF \E q \in ToSet(main) : q.op = "REPLACE"
                  THEN excuses \cup {"reordered"} ELSE excuses
    /\ UNCHANGED <<game, toDb, toGame, dbVars, main, results, saved, count>>
-----------------------------------------------------------------------------
(* The game: item operations of ITEM_MANAGER, CItem and CHARACTER.         *)

Send(q) == toDb' = toDb \o q

(* SaveSingleItem: an item without an owner is destroyed in the db.        *)
SaveSingleItem(i) ==
    CASE i.at = "inv" -> <<M("ITEM_SAVE", Nobody, 0, InInv(i.by, i.ver))>>
      [] i.at = "box" -> <<M("ITEM_SAVE", Nobody, 0, InBox(i.by, i.ver))>>
      [] OTHER        -> <<M("ITEM_DESTROY", i.last, 0, NoItem)>>

InGame(p) == st[p] \in {"loading", "play"}

ItemOp == /\ nOps < MaxOps /\ nOps' = nOps + 1
          /\ UNCHANGED <<st, sess, box, toGame, dbVars, sql, hist, nSess,
                         nFlush, nCrash>>

(* The item becomes i and is left for a later save. *)
Change(i) == item' = i /\ delayed' = TRUE /\ UNCHANGED toDb

(* The item becomes i and FlushDelayedSave writes it at once. *)
ChangeAndFlush(i) == item' = i /\ delayed' = FALSE /\ Send(SaveSingleItem(i))

CreateItem ==
    /\ ItemOp /\ item.at = "unborn"
    /\ \/ \E p \in Pids : InGame(p) /\ Change(Item("inv", p, 0, p))
       \/ Change(Item("ground", Nobody, 0, Nobody))

ModifyItem ==
    /\ ItemOp /\ item.at = "inv"
    /\ Change([item EXCEPT !.ver = @ + 1])

DropItem ==
    /\ ItemOp /\ item.at = "inv"
    /\ ChangeAndFlush([item EXCEPT !.at = "ground", !.by = Nobody])

PickupItem(p) ==
    /\ ItemOp /\ item.at = "ground" /\ InGame(p)
    /\ Change(Item("inv", p, item.ver, p))

(* Mutant: the exchange leaves the item for a later save. *)
ExchangeItem_Delayed(p) ==
    /\ ItemOp /\ item.at = "inv" /\ item.by # p /\ InGame(p)
    /\ Change(Item("inv", p, item.ver, p))

(* CExchange::Done. *)
ExchangeItem(p) ==
    /\ ItemOp /\ item.at = "inv" /\ item.by # p /\ InGame(p)
    /\ ChangeAndFlush(Item("inv", p, item.ver, p))

(* Used up, expired, or gone from the ground: DestroyItem drops a delayed  *)
(* save.                                                                   *)
DestroyItem ==
    /\ ItemOp /\ item.at \in {"inv", "ground"}
    /\ item' = Item("none", Nobody, 0, Nobody) /\ delayed' = FALSE
    /\ Send(<<M("ITEM_DESTROY", item.last, 0, NoItem)>>)

SafeboxCheckin ==
    /\ ItemOp /\ item.at = "inv" /\ box[item.by] = "open"
    /\ ChangeAndFlush([item EXCEPT !.at = "box"])

SafeboxCheckout ==
    /\ ItemOp /\ item.at = "box"
    /\ item' = Item("inv", item.by, item.ver, item.by) /\ delayed' = FALSE
    /\ Send(SaveSingleItem(item') \o <<M("ITEM_FLUSH", Nobody, 0, NoItem)>>)

(* ITEM_MANAGER::Update, and a player's save_event for an owned item.      *)
ItemManagerUpdate ==
    /\ delayed
    /\ delayed' = FALSE
    /\ Send(SaveSingleItem(item))
    /\ UNCHANGED <<item, st, sess, box, toGame, dbVars, sql, hist, count>>
-----------------------------------------------------------------------------
(* The game: sessions and safebox windows.                                 *)

LogoutPending(p) == \E m \in ToSet(toDb) : m.op = "LOGOUT" /\ m.p = p

CharacterSelect(p) ==
    /\ st[p] = "off" /\ ~LogoutPending(p) /\ nSess < MaxSess
    /\ nSess' = nSess + 1
    /\ st' = [st EXCEPT ![p] = "asked"]
    /\ sess' = [sess EXCEPT ![p] = NPlayers + nSess + 1]
    /\ Send(<<M("PLAYER_LOAD", p, sess'[p], NoItem)>>)
    /\ UNCHANGED <<item, delayed, box, toGame, dbVars, sql, hist, nOps, nFlush,
                   nCrash>>

(* SaveReal.  Bound: a save of a player the db has cached changes nothing  *)
(* here and is left out.                                                   *)
SavePlayer(p) ==
    /\ InGame(p) /\ p \notin pcache
    /\ \A m \in ToSet(toDb) : ~(m.op = "PLAYER_SAVE" /\ m.p = p)
    /\ Send(<<M("PLAYER_SAVE", p, 0, NoItem)>>)
    /\ UNCHANGED <<game, toGame, dbVars, sql, hist, count>>

Holds(p)   == item.at \in {"inv", "box"} /\ item.by = p
PendingOf(p) == IF Holds(p) /\ delayed THEN SaveSingleItem(item) ELSE <<>>
Gone(p)    == IF Holds(p) THEN Item("none", Nobody, 0, Nobody) ELSE item

(* Mutant: a logout frees the items and forgets their delayed save. *)
Disconnect_NoFlush(p) ==
    /\ st[p] # "off"
    /\ st' = [st EXCEPT ![p] = "off"] /\ box' = [box EXCEPT ![p] = "closed"]
    /\ item' = Gone(p) /\ delayed' = (delayed /\ ~Holds(p))
    /\ Send((IF InGame(p) THEN <<M("PLAYER_SAVE", p, 0, NoItem)>> ELSE <<>>)
            \o <<M("LOGOUT", p, 0, NoItem)>>)
    /\ UNCHANGED <<sess, toGame, dbVars, sql, hist, count>>

(* CHARACTER::Disconnect saves the player and what is pending of the       *)
(* items, frees them with SetSkipSave, and DESC::Destroy logs out.  A desc *)
(* without a character only logs out.                                      *)
Disconnect(p) ==
    /\ st[p] # "off"
    /\ st' = [st EXCEPT ![p] = "off"] /\ box' = [box EXCEPT ![p] = "closed"]
    /\ item' = Gone(p) /\ delayed' = (delayed /\ ~Holds(p))
    /\ Send((IF InGame(p) THEN <<M("PLAYER_SAVE", p, 0, NoItem)>> ELSE <<>>)
            \o PendingOf(p) \o <<M("LOGOUT", p, 0, NoItem)>>)
    /\ UNCHANGED <<sess, toGame, dbVars, sql, hist, count>>

ReqSafeboxLoad(p) ==
    /\ InGame(p) /\ box[p] = "closed" /\ nOps < MaxOps
    /\ nOps' = nOps + 1
    /\ box' = [box EXCEPT ![p] = "asked"]
    /\ Send(<<M("SAFEBOX_LOAD", p, sess[p], NoItem)>>)
    /\ UNCHANGED <<item, delayed, st, sess, toGame, dbVars, sql, hist, nSess,
                   nFlush, nCrash>>

CloseSafebox(p) ==
    /\ box[p] = "open"
    /\ box' = [box EXCEPT ![p] = "closed"]
    /\ IF item.at = "box" /\ item.by = p
       THEN item' = Gone(p) /\ delayed' = FALSE /\ Send(PendingOf(p))
       ELSE UNCHANGED <<item, delayed, toDb>>
    /\ UNCHANGED <<st, sess, toGame, dbVars, sql, hist, count>>

FlushCommand(p) ==
    /\ nFlush < MaxFlush
    /\ nFlush' = nFlush + 1
    /\ Send(<<M("FLUSH_CACHE", p, 0, NoItem)>>)
    /\ UNCHANGED <<game, toGame, dbVars, sql, hist, nOps, nSess, nCrash>>

(* The game is gone and the db closes its peer; answers to it are dropped. *)
GameCrash ==
    /\ nCrash < MaxCrash
    /\ nCrash' = nCrash + 1
    /\ item' = IF item.at = "unborn" THEN item ELSE Item("none", Nobody, 0, Nobody)
    /\ delayed' = FALSE
    /\ st' = [p \in Pids |-> "off"] /\ box' = [p \in Pids |-> "closed"]
    /\ toDb' = <<>> /\ toGame' = <<>>
    /\ main' = [i \in DOMAIN main |-> [main[i] EXCEPT !.s = 0]]
    /\ results' = [i \in DOMAIN results |-> [results[i] EXCEPT !.s = 0]]
    /\ excuses' = excuses \cup {"crashed"}
    /\ UNCHANGED <<sess, dbVars, async, row, saved, nOps, nSess, nFlush>>

(* What the game does with an answer; the desc of one that comes late is   *)
(* gone; items without a character, or a second time, are ignored.         *)
AnswerIs(op) == toGame # <<>> /\ Head(toGame).op = op
For(p)       == Head(toGame).p = p /\ Head(toGame).s = sess[p] /\ st[p] # "off"
Received     == toGame' = Tail(toGame)

(* The character exists and may enter the game before its items are there. *)
PlayerLoad(p) ==
    /\ AnswerIs("PLAYER_LOAD_SUCCESS") /\ For(p) /\ st[p] = "asked"
    /\ Received
    /\ st' = [st EXCEPT ![p] = "loading"]
    /\ UNCHANGED <<item, delayed, sess, box, toDb, dbVars, sql, hist, count>>

(* CreateItem refuses an id the game has.  EquipTo, for a worn item, does  *)
(* not set m_dwLastOwnerPID.                                               *)
ItemLoad(p) ==
    /\ AnswerIs("ITEM_LOAD") /\ For(p) /\ st[p] = "loading"
    /\ Received
    /\ st' = [st EXCEPT ![p] = "play"]
    /\ LET x == Head(toGame).x IN
       IF x = NoItem \/ item.at # "none" THEN UNCHANGED item
       ELSE \E l \in {Nobody, p} : item' = Item("inv", p, x.ver, l)
    /\ UNCHANGED <<delayed, sess, box, toDb, dbVars, sql, hist, count>>

(* Mutant: a refused safebox leaves m_bOpeningSafebox set. *)
SafeboxLoad_StaysAsked(p) ==
    /\ AnswerIs("SAFEBOX_LOAD") /\ For(p) /\ box[p] = "asked"
    /\ Received
    /\ \/ /\ box' = [box EXCEPT ![p] = "open"]
          /\ LET x == Head(toGame).x IN
             item' = IF x = NoItem \/ item.at # "none" THEN item
                     ELSE Item("box", p, x.ver, Nobody)
       \/ UNCHANGED <<box, item>>
    /\ UNCHANGED <<delayed, st, sess, toDb, dbVars, sql, hist, count>>

SafeboxLoad(p) ==
    /\ AnswerIs("SAFEBOX_LOAD") /\ For(p) /\ box[p] = "asked"
    /\ Received
    /\ \/ /\ box' = [box EXCEPT ![p] = "open"]
          /\ LET x == Head(toGame).x IN
             item' = IF x = NoItem \/ item.at # "none" THEN item
                     ELSE Item("box", p, x.ver, Nobody)
       \/ /\ box' = [box EXCEPT ![p] = "closed"]      \* CancelSafeboxLoad
          /\ UNCHANGED item
    /\ UNCHANGED <<delayed, st, sess, toDb, dbVars, sql, hist, count>>

SafeboxWrongPassword(p) ==
    /\ AnswerIs("WRONG_PASSWORD") /\ For(p)
    /\ Received
    /\ box' = [box EXCEPT ![p] = "closed"]
    /\ UNCHANGED <<item, delayed, st, sess, toDb, dbVars, sql, hist, count>>

AnswerIgnored ==
    /\ toGame # <<>>
    /\ \A p \in Pids : For(p) => AnswerIs("ITEM_LOAD") /\ st[p] # "loading"
    /\ Received
    /\ UNCHANGED <<game, toDb, dbVars, sql, hist, count>>
-----------------------------------------------------------------------------
DbPacket == \/ QUERY_ITEM_SAVE \/ QUERY_ITEM_DESTROY \/ QUERY_ITEM_FLUSH
            \/ QUERY_PLAYER_LOAD \/ QUERY_PLAYER_SAVE \/ QUERY_LOGOUT
            \/ QUERY_SAFEBOX_LOAD \/ QUERY_FLUSH_CACHE

DbResult == \/ ResultWithoutPeer \/ RESULT_PLAYER_LOAD \/ RESULT_ITEM_LOAD
            \/ RESULT_SAFEBOX_LOAD

DbTimer == UpdateItemCache \/ \E p \in Pids : UpdatePlayerCache(p)
                                              \/ UpdateLogoutPlayer(p)

GameItem == \/ CreateItem \/ ModifyItem \/ DropItem \/ DestroyItem
            \/ SafeboxCheckin \/ SafeboxCheckout
            \/ \E p \in Pids : PickupItem(p) \/ ExchangeItem(p)

GameSession == \E p \in Pids : \/ CharacterSelect(p) \/ SavePlayer(p)
                               \/ Disconnect(p) \/ ReqSafeboxLoad(p)
                               \/ CloseSafebox(p) \/ FlushCommand(p)

GameAnswer == \/ AnswerIgnored
              \/ \E p \in Pids : \/ PlayerLoad(p) \/ ItemLoad(p)
                                 \/ SafeboxLoad(p) \/ SafeboxWrongPassword(p)

Next == \/ DbPacket \/ DbResult \/ DbTimer \/ Shutdown
        \/ MainExecutes \/ AsyncExecutes
        \/ GameItem \/ ItemManagerUpdate \/ GameSession \/ GameAnswer
        \/ GameCrash

Spec == Init /\ [][Next]_vars

(* Both processes poll their sockets, the workers take what is queued, and *)
(* the db looks at its item cache, the game at its delayed saves, again    *)
(* and again.  Players and commands are free.                              *)
FairSpec == /\ Spec
            /\ WF_vars(DbPacket) /\ WF_vars(DbResult)
            /\ WF_vars(UpdateItemCache)
            /\ WF_vars(MainExecutes) /\ WF_vars(AsyncExecutes)
            /\ WF_vars(GameAnswer) /\ WF_vars(ItemManagerUpdate)
-----------------------------------------------------------------------------
Message(ops) == [op : ops, p : Pids \cup {Nobody}, s : Nat,
                 x : Data \cup {NoItem}]

(* Packets to the db, SQL statements, and answers of SQL and of the db.    *)
RequestOp == {"ITEM_SAVE", "ITEM_DESTROY", "ITEM_FLUSH", "PLAYER_LOAD",
              "PLAYER_SAVE", "LOGOUT", "SAFEBOX_LOAD", "FLUSH_CACHE"}
QueryOp   == {"PLAYER", "ITEM", "SAFEBOX", "SAFEBOX_ITEM"}
WriteOp   == {"REPLACE", "DELETE"}
AnswerOp  == {"PLAYER_LOAD_SUCCESS", "ITEM_LOAD", "SAFEBOX_LOAD",
              "WRONG_PASSWORD"}

Request   == {m \in Message(RequestOp) :
                 /\ m.op = "ITEM_SAVE" => m.x \in Data
                 /\ m.op \notin {"ITEM_SAVE", "ITEM_DESTROY", "ITEM_FLUSH"}
                    => m.p \in Pids}
Statement == {q \in Message(QueryOp \cup WriteOp) :
                 q.op \in QueryOp => q.p \in Pids}
SqlAnswer == {m \in Message(QueryOp) : m.p \in Pids}
Reply     == {m \in Message(AnswerOp) : m.p \in Pids}

ItemState  == {i \in [at : {"unborn", "none", "inv", "box", "ground"},
                      by : Pids \cup {Nobody}, ver : Nat,
                      last : Pids \cup {Nobody}] :
                  i.at \in {"inv", "box"} => i.by \in Pids}
CacheState == {c \in [in : BOOLEAN, owner : Pids \cup {Nobody}, ver : Nat,
                      dead : BOOLEAN, dirty : BOOLEAN] :
                  c.in => c.owner \in Pids}
SetState   == [Pids -> {"none", "without", "with"}]

GameOK == /\ item \in ItemState /\ delayed \in BOOLEAN
          /\ st \in [Pids -> {"off", "asked", "loading", "play"}]
          /\ sess \in [Pids -> Nat \ {0}]
          /\ box \in [Pids -> {"closed", "asked", "open"}]
DbOK   == /\ cache \in CacheState /\ set \in SetState
          /\ pcache \subseteq Pids /\ timer \subseteq Pids /\ up \in BOOLEAN
SqlOK  == /\ main \in Seq(Statement) /\ results \in Seq(SqlAnswer)
          /\ async \in Nat /\ row \in Data \cup {NoItem}
HistOK == /\ saved \in Data \cup {NoItem}
          /\ excuses \subseteq {"raced", "reordered", "crashed", "unwritten",
                                "expired"}

(* Every packet, statement and answer names a player where the code uses   *)
(* one, a save always has an owner, and a cache object belongs to one.     *)
TypeOK == /\ GameOK /\ DbOK /\ SqlOK /\ HistOK
          /\ toDb \in Seq(Request) /\ toGame \in Seq(Reply)
          /\ nSess \in Nat

(* A set holds the item's pointer only while the cache object is alive and *)
(* belongs to that player, and unwritten data is always within reach of    *)
(* its owner's set: else FlushItemCacheSet would write a freed object, or  *)
(* a load from SQL would miss data only the cache has.                     *)
Consistent(c, sets) ==
    /\ \A p \in Pids : sets[p] = "with" => c.in /\ c.owner = p
    /\ c.dirty => c.in /\ ~c.dead /\ sets[c.owner] = "with"

CacheSets == up => Consistent(cache, set)

(* What the last message of q of these kinds says, or y if there is none.  *)
LastOf(q, ops, y) ==
    LET ks == {k \in DOMAIN q : q[k].op \in ops}
    IN  IF ks = {} THEN y ELSE q[Max(ks)].x

Writing == \E k \in DOMAIN main : main[k].op \in WriteOp

(* What SQL will hold of the item once the db has written everything, when *)
(* it is not up to the two connections.                                    *)
Durable == IF cache.dirty THEN Cached(cache)
           ELSE IF async > 0 THEN NoItem
           ELSE LastOf(main, WriteOp, row)

(* The last save the db took from the game is not lost: it is in the       *)
(* cache, on its way to SQL, or there.  Holds unless a load raced a save,  *)
(* the two SQL connections overtook each other, a game crashed, or the db  *)
(* selected one player's items while another's save of the item waited.    *)
SavesPersist ==
    excuses = {} /\ (async = 0 \/ ~Writing) => Durable = saved

(* What the db will know of the item when it has read its connection.      *)
Told == LastOf(toDb, {"ITEM_SAVE", "ITEM_DESTROY"}, saved)

(* An item a player carries or stores leaves the game, with the player or  *)
(* on its own, only when the db was told its last state or its end.        *)
SavedWhenGone ==
    [][excuses' = {} /\ item.at \in {"inv", "box"} /\ item'.at = "none"
       => Told' \in {NoItem, IF item.at = "inv" THEN InInv(item.by, item.ver)
                               ELSE InBox(item.by, item.ver)}]_vars

(* A load answered to a session that still waits for it gives exactly the  *)
(* last save: no item that moved elsewhere, none missing, no old version.  *)
LoadsCurrent ==
    [][\A p \in Pids : \A m \in ToSet(toGame') \ ToSet(toGame) :
          excuses = {} /\ m.p = p /\ m.s = sess[p] /\ st[p] # "off"
          => /\ m.op = "ITEM_LOAD"    => m.x = Matches(saved, p, "inv")
             /\ m.op = "SAFEBOX_LOAD" => m.x = Matches(saved, p, "box")]_vars

(* An item the game has is never on its way to the game again.             *)
Duplicated == \E m \in ToSet(toGame) :
                  /\ m.x # NoItem /\ m.s = sess[m.p] /\ st[m.p] # "off"
                  /\ item.at \notin {"unborn", "none"}

(* Whoever has it, there is one copy of an item: it is not loaded while    *)
(* somebody has it, and what the db keeps is its last save, whichever      *)
(* player it was saved for.                                                *)
OneCopy == SavesPersist /\ (excuses = {} => ~Duplicated)

(* CreateItem takes an id it knows already for an error (ITEM_ID_DUP):     *)
(* FLUSH_CACHE alone should not bring it about.                            *)
FlushKeepsIdsUnique == excuses \subseteq {"unwritten"} => ~Duplicated

(* Every save the db took reaches SQL, or a later one takes its place.     *)
SavesReachSQL ==
    \A x \in {NoItem} \cup [owner : Pids, win : {"inv", "box"}, ver : 0..MaxOps] :
        saved = x ~> row = x \/ saved # x \/ excuses # {}

(* A player who asked for the safebox gets it or may ask again.            *)
SafeboxAnswered == \A p \in Pids : box[p] = "asked" ~> box[p] # "asked"
=============================================================================

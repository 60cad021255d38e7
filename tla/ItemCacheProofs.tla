-------------------------- MODULE ItemCacheProofs --------------------------
(***************************************************************************)
(* Theorems about ItemCache for every number of players, sessions, item    *)
(* operations, FLUSH_CACHE commands and crashes: every message is well     *)
(* formed, the item cache and the item cache sets stay consistent, the     *)
(* last save the db took from the game is not lost, and there is one copy  *)
(* of the item: it is never loaded while somebody has it, every load       *)
(* brings the last save, and it leaves the game only when the db knows.    *)
(***************************************************************************)
EXTENDS ItemCacheInvariants, SequenceTheorems, WellFoundedInduction, TLAPS

(* Short sequences and concatenations of sequences over a set.             *)
LEMMA Sequences1 ==
    ASSUME NEW S, NEW x \in S, NEW y \in S
    PROVE  <<>> \in Seq(S) /\ <<x>> \in Seq(S) /\ <<x, y>> \in Seq(S)
<1>1. <<>> \in Seq(S)  BY EmptySeq
<1>2. <<x>> \in Seq(S)  OBVIOUS
<1>3. Append(<<x>>, y) \in Seq(S)  BY <1>2, AppendProperties
<1>4. <<x, y>> = Append(<<x>>, y)  OBVIOUS
<1> QED  BY <1>1, <1>2, <1>3, <1>4

(* A statement that writes what a save says is well formed.                *)
LEMMA WriteType == \A x \in Data \cup {NoItem} : Write(x) \in Statement
<1> SUFFICES ASSUME NEW x \in Data \cup {NoItem} PROVE Write(x) \in Statement
  OBVIOUS
<1>1. Nobody \in Pids \cup {Nobody} /\ 0 \in Nat  OBVIOUS
<1>2. ASSUME NEW op \in WriteOp PROVE M(op, Nobody, 0, x) \in Statement
  <2>1. M(op, Nobody, 0, x) \in Message(QueryOp \cup WriteOp)
    BY <1>1 DEF M, Message
  <2>2. M(op, Nobody, 0, x).op \notin QueryOp  BY DEF M, QueryOp, WriteOp
  <2> QED  BY <2>1, <2>2 DEF Statement
<1> QED  BY <1>2 DEF Write, WriteOp

(* A cache object yields the data of its item, or none.                    *)
LEMMA CachedType == \A c \in CacheState : Cached(c) \in Data \cup {NoItem}
  BY DEF CacheState, Cached, Data, NoItem, InInv

LEMMA FlushQueryType == \A c \in CacheState : FlushQuery(c) \in Seq(Statement)
<1> SUFFICES ASSUME NEW c \in CacheState PROVE FlushQuery(c) \in Seq(Statement)
  OBVIOUS
<1>1. Write(Cached(c)) \in Statement  BY WriteType, CachedType
<1>2. <<>> \in Seq(Statement) /\ <<Write(Cached(c))>> \in Seq(Statement)
  BY <1>1, Sequences1
<1> QED  BY <1>2 DEF FlushQuery

(* Queueing statements keeps the queue one of statements.                  *)
LEMMA EnqueueType ==
    ASSUME main \in Seq(Statement), NEW q \in Seq(Statement), Enqueue(q)
    PROVE  main' \in Seq(Statement)
  BY ConcatProperties DEF Enqueue

LEMMA NoCacheType == NoCache \in CacheState
  BY DEF NoCache, CacheState, Pids, Nobody

(* Flush writes the cached data and keeps everything well formed.          *)
LEMMA FlushType ==
    ASSUME cache \in CacheState, main \in Seq(Statement), Flush
    PROVE  /\ cache' = [cache EXCEPT !.dirty = FALSE]
           /\ cache' \in CacheState /\ main' \in Seq(Statement)
<1>1. cache' = [cache EXCEPT !.dirty = FALSE] /\ Enqueue(FlushQuery(cache))
  BY DEF Flush
<1>2. cache' \in CacheState  BY <1>1 DEF CacheState
<1>3. main' \in Seq(Statement)  BY <1>1, FlushQueryType, EnqueueType
<1> QED  BY <1>1, <1>2, <1>3

LEMMA UnlinkedType ==
    ASSUME NEW sets \in SetState
    PROVE  Unlinked(sets) \in SetState
  BY DEF Unlinked, SetState

LEMMA PutItemCacheType ==
    ASSUME cache \in CacheState, main \in Seq(Statement),
           NEW x \in Data, NEW skip \in BOOLEAN, NEW sets \in SetState,
           PutItemCache(x, skip, sets)
    PROVE  cache' \in CacheState /\ set' \in SetState /\ main' \in Seq(Statement)
<1> DEFINE s == IF cache.owner # x.owner THEN Unlinked(sets) ELSE sets
           c == [in |-> TRUE, owner |-> x.owner, ver |-> x.ver, dead |-> FALSE,
                 dirty |-> cache.dirty \/ ~skip]
<1>1. s \in SetState  BY UnlinkedType
<1>2. x.owner \in Pids /\ x.ver \in Nat  BY DEF Data
<1>3. c \in CacheState /\ [c EXCEPT !.dirty = FALSE] \in CacheState
  BY <1>2 DEF CacheState
<1>4. Write(x) \in Statement  BY WriteType
<1>5. <<>> \in Seq(Statement) /\ <<Write(x)>> \in Seq(Statement)
  BY <1>4, Sequences1
<1>6. CASE s[x.owner] # "none"
  <2>1. /\ set' = [s EXCEPT ![x.owner] = "with"]
        /\ cache' = c /\ Enqueue(<<>>)
    BY <1>6 DEF PutItemCache
  <2>2. set' \in SetState  BY <2>1, <1>1 DEF SetState
  <2>3. main' \in Seq(Statement)  BY <2>1, <1>5, EnqueueType
  <2> QED  BY <2>1, <2>2, <2>3, <1>3
<1>7. CASE s[x.owner] = "none"
  <2>1. /\ set' = s /\ cache' = [c EXCEPT !.dirty = FALSE]
        /\ Enqueue(<<Write(x)>>)
    BY <1>7 DEF PutItemCache
  <2>2. main' \in Seq(Statement)  BY <2>1, <1>5, EnqueueType
  <2> QED  BY <2>1, <2>2, <1>1, <1>3
<1> QED  BY <1>6, <1>7

LEMMA FlushItemCacheSetType ==
    ASSUME cache \in CacheState, set \in SetState, main \in Seq(Statement),
           NEW p \in Pids, FlushItemCacheSet(p)
    PROVE  cache' \in CacheState /\ set' \in SetState /\ main' \in Seq(Statement)
<1>1. set' \in SetState  BY DEF FlushItemCacheSet, SetState
<1>2. CASE set[p] = "with"
  <2>1. Enqueue(FlushQuery(cache)) /\ cache' = NoCache
    BY <1>2 DEF FlushItemCacheSet
  <2> QED  BY <1>1, <2>1, NoCacheType, FlushQueryType, EnqueueType
<1>3. CASE set[p] # "with"
  BY <1>1, <1>3 DEF FlushItemCacheSet
<1> QED  BY <1>2, <1>3
-----------------------------------------------------------------------------
(* Type correctness.                                                       *)

(* What the db takes from its connection is a packet.                      *)
LEMMA HeadOfToDb ==
    ASSUME TypeOK, NEW op, Packet(op)
    PROVE  /\ Head(toDb) \in Request /\ Head(toDb).op = op
           /\ Head(toDb) \in Message(RequestOp)
           /\ Tail(toDb) \in Seq(Request)
  BY HeadTailProperties DEF TypeOK, Packet, Request

(* What the db hears from SQL is an answer of SQL.                         *)
LEMMA HeadOfResults ==
    ASSUME TypeOK, results # <<>>
    PROVE  /\ Head(results) \in Message(QueryOp) /\ Head(results).p \in Pids
           /\ Tail(results) \in Seq(SqlAnswer)
  BY HeadTailProperties DEF TypeOK, SqlOK, SqlAnswer

(* What the game hears from the db is a reply.                             *)
LEMMA HeadOfToGame ==
    ASSUME TypeOK, toGame # <<>>
    PROVE  /\ Head(toGame) \in Message(AnswerOp) /\ Head(toGame).p \in Pids
           /\ Tail(toGame) \in Seq(Reply)
  BY HeadTailProperties DEF TypeOK, Reply

(* A query about a player is a statement, and a reply to one a reply.      *)
LEMMA QueryType ==
    ASSUME NEW op \in QueryOp, NEW p \in Pids, NEW s \in Nat,
           NEW x \in Data \cup {NoItem}
    PROVE  /\ M(op, p, s, x) \in Message(QueryOp \cup WriteOp)
           /\ M(op, p, s, x) \in Statement
  BY DEF M, Message, Statement

LEMMA ReplyType ==
    ASSUME NEW op \in AnswerOp, NEW p \in Pids, NEW s \in Nat,
           NEW x \in Data \cup {NoItem}
    PROVE  M(op, p, s, x) \in Reply
  BY DEF M, Message, Reply

LEMMA TypeInit == Init => TypeOK
<1> USE ItemAssumption
<1> SUFFICES ASSUME Init PROVE TypeOK  OBVIOUS
<1>1. <<>> \in Seq(Request) /\ <<>> \in Seq(Reply)
      /\ <<>> \in Seq(Statement) /\ <<>> \in Seq(SqlAnswer)
  BY EmptySeq
<1>2. 1 \in Pids /\ Nobody \in Pids \cup {Nobody}  BY DEF Pids
<1>3. row \in Data \cup {NoItem} /\ saved \in Data \cup {NoItem}
  BY <1>2 DEF Init, InInv, InBox, Data
<1>4. item \in ItemState /\ st \in [Pids -> {"off", "asked", "loading", "play"}]
  BY <1>2 DEF Init, InitOnline, InitOffline, Item, ItemState
<1>5. cache \in CacheState /\ set \in SetState
  BY <1>2, NoCacheType DEF Init, InitOnline, InitOffline, CacheState, SetState, NoCache
<1>6. sess \in [Pids -> Nat \ {0}]
  BY DEF Init, Pids
<1>7. /\ delayed \in BOOLEAN /\ box \in [Pids -> {"closed", "asked", "open"}]
      /\ pcache \subseteq Pids /\ timer \subseteq Pids /\ up \in BOOLEAN
      /\ async \in Nat /\ nSess \in Nat
      /\ excuses \subseteq {"raced", "reordered", "crashed", "unwritten", "expired"}
  BY DEF Init
<1>8. toDb = <<>> /\ toGame = <<>> /\ main = <<>> /\ results = <<>>
  BY DEF Init
<1> QED
  BY <1>1, <1>3, <1>4, <1>5, <1>6, <1>7, <1>8 DEF TypeOK, GameOK, DbOK, SqlOK, HistOK

(* A packet to the db keeps the types.                                     *)
LEMMA TypeDbPacket == TypeOK /\ DbPacket => TypeOK'
<1> USE ItemAssumption
<1> SUFFICES ASSUME TypeOK, DbPacket PROVE TypeOK'  OBVIOUS
<1> USE DEF TypeOK
<1>1. CASE QUERY_ITEM_SAVE
  <2> DEFINE x == Head(toDb).x
  <2>1. x \in Data /\ toDb' = Tail(toDb) /\ Tail(toDb) \in Seq(Request)
    BY <1>1, HeadOfToDb DEF QUERY_ITEM_SAVE, Request, Consume
  <2>2. HistOK'
    BY <1>1, <2>1 DEF QUERY_ITEM_SAVE, Saving, HistOK
  <2>3. cache' \in CacheState /\ set' \in SetState /\ main' \in Seq(Statement)
    <3>1. CASE x.win = "box"
      <4>1. set' = Unlinked(set) /\ cache' = NoCache /\ Enqueue(<<Write(x)>>)
        BY <1>1, <3>1 DEF QUERY_ITEM_SAVE
      <4>2. <<Write(x)>> \in Seq(Statement)
        BY <2>1, WriteType, Sequences1
      <4> QED
        BY <4>1, <4>2, UnlinkedType, NoCacheType, EnqueueType DEF DbOK, SqlOK
    <3>2. CASE x.win # "box"
      <4>1. PutItemCache(x, FALSE, set)
        BY <1>1, <3>2 DEF QUERY_ITEM_SAVE
      <4> QED  BY <2>1, <4>1, PutItemCacheType DEF DbOK, SqlOK
    <3> QED  BY <3>1, <3>2
  <2> QED
    BY <1>1, <2>1, <2>2, <2>3
    DEF QUERY_ITEM_SAVE, GameOK, DbOK, SqlOK, game, count
<1>2. CASE QUERY_ITEM_DESTROY
  <2>1. toDb' = Tail(toDb) /\ Tail(toDb) \in Seq(Request)
    BY <1>2, HeadOfToDb DEF QUERY_ITEM_DESTROY, Consume
  <2>2. HistOK'
    BY <1>2 DEF QUERY_ITEM_DESTROY, Saving, HistOK
  <2>3. <<>> \in Seq(Statement) /\ <<Write(NoItem)>> \in Seq(Statement)
    BY WriteType, Sequences1
  <2>4. cache' \in CacheState
    BY <1>2 DEF QUERY_ITEM_DESTROY, CacheState, DbOK
  <2>5. main' \in Seq(Statement) /\ async' \in Nat
    <3>1. CASE UNCHANGED main /\ async' = async + 1
      BY <3>1 DEF SqlOK
    <3>2. CASE /\ UNCHANGED async
               /\ Enqueue(<<>>) \/ Enqueue(<<Write(NoItem)>>)
      BY <2>3, <3>2, EnqueueType DEF SqlOK
    <3> QED  BY <1>2, <3>1, <3>2 DEF QUERY_ITEM_DESTROY
  <2> QED
    BY <1>2, <2>1, <2>2, <2>4, <2>5
    DEF QUERY_ITEM_DESTROY, GameOK, DbOK, SqlOK, game, count
<1>3. CASE QUERY_ITEM_FLUSH
  <2>1. toDb' = Tail(toDb) /\ Tail(toDb) \in Seq(Request)
    BY <1>3, HeadOfToDb DEF QUERY_ITEM_FLUSH, Consume
  <2>2. cache' \in CacheState /\ main' \in Seq(Statement)
    <3>1. CASE Flush  BY <3>1, FlushType DEF DbOK, SqlOK
    <3> QED  BY <1>3, <3>1 DEF QUERY_ITEM_FLUSH, DbOK, SqlOK
  <2> QED
    BY <1>3, <2>1, <2>2
    DEF QUERY_ITEM_FLUSH, GameOK, DbOK, SqlOK, HistOK, game, hist, count
<1>4. CASE QUERY_PLAYER_LOAD
  <2> DEFINE m == Head(toDb)
             ok == M("PLAYER_LOAD_SUCCESS", m.p, m.s, NoItem)
             load == M("ITEM_LOAD", m.p, m.s, ItemsInSet(m.p))
             ask == M("PLAYER", m.p, m.s, NoItem)
             items == M("ITEM", m.p, m.s, NoItem)
  <2>1. /\ m.p \in Pids /\ m.s \in Nat
        /\ toDb' = Tail(toDb) /\ Tail(toDb) \in Seq(Request)
    <3>1. Packet("PLAYER_LOAD") /\ Consume  BY <1>4 DEF QUERY_PLAYER_LOAD
    <3> QED  BY <3>1, HeadOfToDb DEF Consume, Request, Message
  <2>2. ItemsInSet(m.p) \in Data \cup {NoItem}
    BY CachedType DEF ItemsInSet, DbOK
  <2>3. ok \in Reply /\ load \in Reply
    BY <2>1, <2>2, ReplyType DEF AnswerOp
  <2>4. ask \in Statement /\ items \in Statement
    BY <2>1, QueryType DEF QueryOp
  <2>5. toGame' \in Seq(Reply)
    <3>1. <<ok, load>> \in Seq(Reply)  BY <2>3, Sequences1
    <3>2. toGame \o <<ok, load>> \in Seq(Reply) /\ Append(toGame, ok) \in Seq(Reply)
      BY <2>3, <3>1, ConcatProperties, AppendProperties
    <3> QED  BY <1>4, <3>2 DEF QUERY_PLAYER_LOAD, Answer
  <2>6. main' \in Seq(Statement)
    <3>1. <<ask>> \o <<items>> \in Seq(Statement)
          /\ <<>> \o <<items>> \in Seq(Statement)
      BY <2>4, Sequences1, ConcatProperties
    <3>2. \/ UNCHANGED main
          \/ Enqueue(<<ask>> \o <<items>>)
          \/ Enqueue(<<>> \o <<items>>)
      BY <1>4 DEF QUERY_PLAYER_LOAD
    <3> QED  BY <3>1, <3>2, EnqueueType DEF SqlOK
  <2>7. excuses' \subseteq {"raced", "reordered", "crashed", "unwritten", "expired"}
    BY <1>4 DEF QUERY_PLAYER_LOAD, HistOK
  <2>8. timer' \subseteq Pids
    BY <1>4 DEF QUERY_PLAYER_LOAD, DbOK
  <2> QED
    BY <1>4, <2>1, <2>5, <2>6, <2>7, <2>8
    DEF QUERY_PLAYER_LOAD, GameOK, DbOK, SqlOK, HistOK, game, count
<1>5. CASE QUERY_PLAYER_SAVE
  <2>1. /\ Head(toDb).p \in Pids
        /\ toDb' = Tail(toDb) /\ Tail(toDb) \in Seq(Request)
    BY <1>5, HeadOfToDb DEF QUERY_PLAYER_SAVE, Consume, Request
  <2> QED
    BY <1>5, <2>1
    DEF QUERY_PLAYER_SAVE, GameOK, DbOK, SqlOK, HistOK, game, sql, hist, count
<1>6. CASE QUERY_LOGOUT
  <2>1. /\ Head(toDb).p \in Pids
        /\ toDb' = Tail(toDb) /\ Tail(toDb) \in Seq(Request)
    BY <1>6, HeadOfToDb DEF QUERY_LOGOUT, Consume, Request
  <2> QED
    BY <1>6, <2>1
    DEF QUERY_LOGOUT, GameOK, DbOK, SqlOK, HistOK, game, sql, hist, count
<1>7. CASE QUERY_SAFEBOX_LOAD
  <2> DEFINE m == Head(toDb)
  <2>1. /\ m.p \in Pids /\ m.s \in Nat
        /\ toDb' = Tail(toDb) /\ Tail(toDb) \in Seq(Request)
    BY <1>7, HeadOfToDb DEF QUERY_SAFEBOX_LOAD, Consume, Request, Message
  <2>2. <<M("SAFEBOX", m.p, m.s, NoItem)>> \in Seq(Statement)
    BY <2>1, QueryType, Sequences1 DEF QueryOp
  <2>3. main' \in Seq(Statement)
    BY <1>7, <2>2, EnqueueType DEF QUERY_SAFEBOX_LOAD, SqlOK
  <2> QED
    BY <1>7, <2>1, <2>3
    DEF QUERY_SAFEBOX_LOAD, GameOK, DbOK, SqlOK, HistOK, game, dbVars, hist, count
<1>8. CASE QUERY_FLUSH_CACHE
  <2>1. /\ Head(toDb).p \in Pids
        /\ toDb' = Tail(toDb) /\ Tail(toDb) \in Seq(Request)
    BY <1>8, HeadOfToDb DEF QUERY_FLUSH_CACHE, Consume, Request
  <2>2. /\ cache' \in CacheState /\ set' \in SetState /\ pcache' \subseteq Pids
        /\ main' \in Seq(Statement)
    <3>1. CASE FlushItemCacheSet(Head(toDb).p)
      BY <1>8, <2>1, <3>1, FlushItemCacheSetType DEF QUERY_FLUSH_CACHE, DbOK, SqlOK
    <3> QED  BY <1>8, <3>1 DEF QUERY_FLUSH_CACHE, DbOK, SqlOK
  <2> QED
    BY <1>8, <2>1, <2>2
    DEF QUERY_FLUSH_CACHE, GameOK, DbOK, SqlOK, HistOK, game, hist, count
<1> QED
  BY <1>1, <1>2, <1>3, <1>4, <1>5, <1>6, <1>7, <1>8 DEF DbPacket

(* An answer of SQL keeps the types.                                       *)
LEMMA TypeDbResult == TypeOK /\ DbResult => TypeOK'
<1> USE ItemAssumption
<1> SUFFICES ASSUME TypeOK, DbResult PROVE TypeOK'  OBVIOUS
<1> DEFINE m == Head(results)
<1>1. results # <<>>
  BY DEF DbResult, ResultWithoutPeer, RESULT_PLAYER_LOAD, RESULT_ITEM_LOAD,
         RESULT_SAFEBOX_LOAD, Result
<1>2. /\ m \in Message(QueryOp) /\ m.p \in Pids /\ m.s \in Nat
      /\ m.x \in Data \cup {NoItem}
      /\ Tail(results) \in Seq(SqlAnswer)
  BY <1>1, HeadOfResults DEF Message
<1>3. \A op \in AnswerOp : [m EXCEPT !.op = op] \in Reply
  BY <1>2 DEF Message, Reply
<1>4. \A op \in AnswerOp : Append(toGame, [m EXCEPT !.op = op]) \in Seq(Reply)
  BY <1>3, AppendProperties DEF TypeOK
<1> USE DEF TypeOK
<1>5. CASE ResultWithoutPeer
  BY <1>2, <1>5
  DEF ResultWithoutPeer, PopResult, GameOK, DbOK, SqlOK, HistOK, game, dbVars, hist, count
<1>6. CASE RESULT_PLAYER_LOAD
  <2>1. toGame' \in Seq(Reply)
    BY <1>4, <1>6 DEF RESULT_PLAYER_LOAD, Answer, AnswerOp
  <2> QED
    BY <1>2, <1>6, <2>1
    DEF RESULT_PLAYER_LOAD, PopResult, GameOK, DbOK, SqlOK, HistOK, game, dbVars,
        hist, count
<1>7. CASE RESULT_ITEM_LOAD
  <2> DEFINE sets == [set EXCEPT ![m.p] = IF @ = "none" THEN "without" ELSE @]
  <2>1. toGame' \in Seq(Reply)
    BY <1>4, <1>7 DEF RESULT_ITEM_LOAD, Answer, AnswerOp
  <2>2. sets \in SetState
    BY <1>2 DEF DbOK, SetState
  <2>3. cache' \in CacheState /\ set' \in SetState /\ main' \in Seq(Statement)
    <3>1. CASE m.x = NoItem
      BY <1>7, <2>2, <3>1 DEF RESULT_ITEM_LOAD, DbOK, SqlOK
    <3>2. CASE m.x # NoItem
      <4>1. PutItemCache(m.x, TRUE, sets)  BY <1>7, <3>2 DEF RESULT_ITEM_LOAD
      <4>2. m.x \in Data  BY <1>2, <3>2
      <4> HIDE DEF sets
      <4> QED  BY <2>2, <4>1, <4>2, PutItemCacheType DEF DbOK, SqlOK
    <3> QED  BY <3>1, <3>2
  <2> QED
    BY <1>2, <1>7, <2>1, <2>3
    DEF RESULT_ITEM_LOAD, PopResult, GameOK, DbOK, SqlOK, HistOK, game, hist, count
<1>8. CASE RESULT_SAFEBOX_LOAD
  <2> DEFINE ask == [m EXCEPT !.op = "SAFEBOX_ITEM"]
  <2>1. toGame' \in Seq(Reply)
    BY <1>4, <1>8 DEF RESULT_SAFEBOX_LOAD, Answer, AnswerOp
  <2>2. ask \in Statement
    BY <1>2 DEF Message, Statement, QueryOp
  <2>3. main' \in Seq(Statement)
    <3>1. <<ask>> \in Seq(Statement)  BY <2>2, Sequences1
    <3>2. UNCHANGED main \/ Enqueue(<<ask>>)
      BY <1>8 DEF RESULT_SAFEBOX_LOAD
    <3> QED  BY <3>1, <3>2, EnqueueType DEF SqlOK
  <2> QED
    BY <1>2, <1>8, <2>1, <2>3
    DEF RESULT_SAFEBOX_LOAD, PopResult, GameOK, DbOK, SqlOK, HistOK, game, dbVars,
        hist, count
<1> QED
  BY <1>5, <1>6, <1>7, <1>8 DEF DbResult

(* The db's timers and its shutdown keep the types.                        *)
LEMMA TypeDbTimer == TypeOK /\ (DbTimer \/ Shutdown) => TypeOK'
<1> USE ItemAssumption
<1> SUFFICES ASSUME TypeOK, DbTimer \/ Shutdown PROVE TypeOK'  OBVIOUS
<1> USE DEF TypeOK
<1>1. CASE UpdateItemCache
  <2>1. cache' \in CacheState /\ main' \in Seq(Statement)
    BY <1>1, FlushType DEF UpdateItemCache, DbOK, SqlOK
  <2> QED
    BY <1>1, <2>1 DEF UpdateItemCache, GameOK, DbOK, SqlOK, HistOK, game, hist, count
<1>2. ASSUME NEW p \in Pids, UpdatePlayerCache(p) PROVE TypeOK'
  <2>1. cache' \in CacheState /\ main' \in Seq(Statement)
    BY <1>2, FlushType DEF UpdatePlayerCache, DbOK, SqlOK
  <2> QED
    BY <1>2, <2>1 DEF UpdatePlayerCache, GameOK, DbOK, SqlOK, HistOK, game, hist, count
<1>3. ASSUME NEW p \in Pids, UpdateLogoutPlayer(p) PROVE TypeOK'
  <2>1. cache' \in CacheState /\ set' \in SetState /\ main' \in Seq(Statement)
    BY <1>3, FlushItemCacheSetType DEF UpdateLogoutPlayer, DbOK, SqlOK
  <2>2. HistOK'
    BY <1>3 DEF UpdateLogoutPlayer, HistOK
  <2> QED
    BY <1>3, <2>1, <2>2 DEF UpdateLogoutPlayer, GameOK, DbOK, SqlOK, game, count
<1>4. CASE Shutdown
  <2>1. main' \in Seq(Statement)
    BY <1>4, FlushQueryType, EnqueueType DEF Shutdown, DbOK, SqlOK
  <2> QED
    BY <1>4, <2>1, NoCacheType
    DEF Shutdown, GameOK, DbOK, SqlOK, HistOK, game, hist, count
<1> QED
  BY <1>1, <1>2, <1>3, <1>4 DEF DbTimer

(* The SQL connections keep the types.                                     *)
LEMMA TypeSql == TypeOK /\ (MainExecutes \/ AsyncExecutes) => TypeOK'
<1> USE ItemAssumption
<1> SUFFICES ASSUME TypeOK, MainExecutes \/ AsyncExecutes PROVE TypeOK'  OBVIOUS
<1> USE DEF TypeOK
<1>1. CASE MainExecutes
  <2> DEFINE q == Head(main)
  <2>1. q \in Statement /\ main' = Tail(main) /\ Tail(main) \in Seq(Statement)
    BY <1>1, HeadTailProperties DEF MainExecutes, SqlOK
  <2>2. q \in Message(QueryOp \cup WriteOp) /\ q.x \in Data \cup {NoItem}
    BY <2>1 DEF Statement, Message
  <2>3. row' \in Data \cup {NoItem} /\ results' \in Seq(SqlAnswer)
    <3>1. CASE q.op \in WriteOp
      BY <1>1, <2>2, <3>1 DEF MainExecutes, SqlOK, WriteOp
    <3>2. CASE q.op \notin WriteOp
      <4> DEFINE x == CASE q.op = "ITEM" -> Matches(row, q.p, "inv")
                        [] q.op = "SAFEBOX_ITEM" -> Matches(row, q.p, "box")
                        [] OTHER -> NoItem
      <4>1. x \in Data \cup {NoItem}
        BY DEF Matches, SqlOK
      <4>2. q.op \in QueryOp /\ q.p \in Pids
        BY <2>1, <2>2, <3>2 DEF Statement, Message
      <4> HIDE DEF x
      <4>3. [q EXCEPT !.x = x] \in SqlAnswer
        BY <2>2, <4>1, <4>2 DEF Message, SqlAnswer
      <4>4. Selected(q) = [q EXCEPT !.x = x]  BY DEF Selected, x
      <4>5. results' = Append(results, Selected(q)) /\ UNCHANGED row
        BY <1>1, <3>2 DEF MainExecutes, WriteOp
      <4>6. Append(results, Selected(q)) \in Seq(SqlAnswer)
        BY <4>3, <4>4, AppendProperties DEF SqlOK
      <4> QED  BY <4>5, <4>6 DEF SqlOK
    <3> QED  BY <3>1, <3>2
  <2>4. HistOK'
    BY <1>1 DEF MainExecutes, HistOK
  <2> QED
    BY <1>1, <2>1, <2>3, <2>4 DEF MainExecutes, GameOK, DbOK, SqlOK, game, dbVars, count
<1>2. CASE AsyncExecutes
  <2>1. async' \in Nat /\ HistOK'
    BY <1>2 DEF AsyncExecutes, SqlOK, HistOK
  <2> QED
    BY <1>2, <2>1 DEF AsyncExecutes, GameOK, DbOK, SqlOK, game, dbVars, count
<1> QED
  BY <1>1, <1>2

(* What the game sends are packets.                                        *)
LEMMA SendType ==
    ASSUME toDb \in Seq(Request), NEW q \in Seq(Request), Send(q)
    PROVE  toDb' \in Seq(Request)
  BY ConcatProperties DEF Send

LEMMA RequestType ==
    ASSUME NEW op \in RequestOp \ {"ITEM_SAVE"}, NEW p \in Pids, NEW s \in Nat
    PROVE  M(op, p, s, NoItem) \in Request
  BY DEF M, Message, Request

LEMMA SaveSingleItemType == \A i \in ItemState : SaveSingleItem(i) \in Seq(Request)
<1> SUFFICES ASSUME NEW i \in ItemState PROVE SaveSingleItem(i) \in Seq(Request)
  OBVIOUS
<1>1. i.ver \in Nat /\ i.last \in Pids \cup {Nobody}  BY DEF ItemState
<1>2. \A x \in Data : M("ITEM_SAVE", Nobody, 0, x) \in Request
  BY DEF M, Message, Request, RequestOp
<1>3. CASE i.at \in {"inv", "box"}
  <2>1. i.by \in Pids  BY <1>3 DEF ItemState
  <2>2. InInv(i.by, i.ver) \in Data /\ InBox(i.by, i.ver) \in Data
    BY <1>1, <2>1 DEF InInv, InBox, Data
  <2>3. /\ <<M("ITEM_SAVE", Nobody, 0, InInv(i.by, i.ver))>> \in Seq(Request)
        /\ <<M("ITEM_SAVE", Nobody, 0, InBox(i.by, i.ver))>> \in Seq(Request)
    BY <1>2, <2>2, Sequences1
  <2> QED  BY <1>3, <2>3 DEF SaveSingleItem
<1>4. CASE i.at \notin {"inv", "box"}
  <2>1. M("ITEM_DESTROY", i.last, 0, NoItem) \in Request
    BY <1>1 DEF M, Message, Request, RequestOp
  <2>2. <<M("ITEM_DESTROY", i.last, 0, NoItem)>> \in Seq(Request)
    BY <2>1, Sequences1
  <2> QED  BY <1>4, <2>2 DEF SaveSingleItem
<1> QED  BY <1>3, <1>4

(* What happens to the item in the game keeps the types.                   *)
LEMMA TypeGameItem == TypeOK /\ (GameItem \/ ItemManagerUpdate) => TypeOK'
<1> USE ItemAssumption
<1> SUFFICES ASSUME TypeOK, GameItem \/ ItemManagerUpdate PROVE TypeOK'  OBVIOUS
<1>1. /\ item \in ItemState /\ item.ver \in Nat /\ item.by \in Pids \cup {Nobody}
      /\ item.last \in Pids \cup {Nobody}
      /\ toDb \in Seq(Request)
  BY DEF TypeOK, GameOK, ItemState
<1>2. /\ \A i \in ItemState : Change(i) => item' \in ItemState /\ toDb' \in Seq(Request)
                                        /\ delayed' \in BOOLEAN
      /\ \A i \in ItemState : ChangeAndFlush(i) => item' \in ItemState
                                        /\ toDb' \in Seq(Request) /\ delayed' \in BOOLEAN
  <2>1. \A i \in ItemState : Send(SaveSingleItem(i)) => toDb' \in Seq(Request)
    BY <1>1, SaveSingleItemType, SendType
  <2> QED  BY <1>1, <2>1 DEF Change, ChangeAndFlush
<1>3. \A p \in Pids : \A v \in Nat : \A l \in Pids \cup {Nobody} :
         Item("inv", p, v, l) \in ItemState
  BY DEF Item, ItemState
<1>4. /\ Item("ground", Nobody, 0, Nobody) \in ItemState
      /\ Item("none", Nobody, 0, Nobody) \in ItemState
  BY DEF Item, ItemState
<1>5. CASE GameItem
  <2>1. item' \in ItemState /\ toDb' \in Seq(Request) /\ delayed' \in BOOLEAN
    <3>1. CASE CreateItem
      BY <1>2, <1>3, <1>4, <3>1 DEF CreateItem
    <3>2. CASE ModifyItem
      <4>1. [item EXCEPT !.ver = @ + 1] \in ItemState  BY <1>1 DEF ItemState
      <4> QED  BY <1>2, <3>2, <4>1 DEF ModifyItem
    <3>3. CASE DropItem
      <4>1. [item EXCEPT !.at = "ground", !.by = Nobody] \in ItemState
        BY <1>1 DEF ItemState
      <4> QED  BY <1>2, <3>3, <4>1 DEF DropItem
    <3>4. CASE DestroyItem
      <4>1. M("ITEM_DESTROY", item.last, 0, NoItem) \in Request
        BY <1>1 DEF M, Message, Request, RequestOp
      <4>2. <<M("ITEM_DESTROY", item.last, 0, NoItem)>> \in Seq(Request)
        BY <4>1, Sequences1
      <4> QED  BY <1>1, <1>4, <3>4, <4>2, SendType DEF DestroyItem
    <3>5. CASE SafeboxCheckin
      <4>1. [item EXCEPT !.at = "box"] \in ItemState
        BY <1>1, <3>5 DEF ItemState, SafeboxCheckin
      <4> QED  BY <1>2, <3>5, <4>1 DEF SafeboxCheckin
    <3>6. CASE SafeboxCheckout
      <4>1. item.by \in Pids  BY <1>1, <3>6 DEF SafeboxCheckout, ItemState
      <4>2. item' \in ItemState /\ delayed' \in BOOLEAN
        BY <1>1, <1>3, <3>6, <4>1 DEF SafeboxCheckout
      <4>3. M("ITEM_FLUSH", Nobody, 0, NoItem) \in Request
        BY DEF M, Message, Request, RequestOp
      <4>4. SaveSingleItem(item') \o <<M("ITEM_FLUSH", Nobody, 0, NoItem)>>
               \in Seq(Request)
        BY <4>2, <4>3, SaveSingleItemType, Sequences1, ConcatProperties
      <4> QED  BY <1>1, <3>6, <4>2, <4>4, SendType DEF SafeboxCheckout
    <3>7. ASSUME NEW p \in Pids, PickupItem(p)
          PROVE  item' \in ItemState /\ toDb' \in Seq(Request) /\ delayed' \in BOOLEAN
      BY <1>1, <1>2, <1>3, <3>7 DEF PickupItem
    <3>8. ASSUME NEW p \in Pids, ExchangeItem(p)
          PROVE  item' \in ItemState /\ toDb' \in Seq(Request) /\ delayed' \in BOOLEAN
      BY <1>1, <1>2, <1>3, <3>8 DEF ExchangeItem
    <3> QED
      BY <1>5, <3>1, <3>2, <3>3, <3>4, <3>5, <3>6, <3>7, <3>8 DEF GameItem
  <2>2. UNCHANGED <<st, sess, box, toGame, dbVars, sql, hist, nSess>>
    BY <1>5 DEF GameItem, CreateItem, ModifyItem, DropItem, DestroyItem,
                SafeboxCheckin, SafeboxCheckout, PickupItem, ExchangeItem, ItemOp
  <2> QED
    BY <2>1, <2>2 DEF TypeOK, GameOK, DbOK, SqlOK, HistOK, dbVars, sql, hist
<1>6. CASE ItemManagerUpdate
  <2>1. toDb' \in Seq(Request)
    BY <1>1, <1>6, SaveSingleItemType, SendType DEF ItemManagerUpdate
  <2> QED
    BY <1>6, <2>1
    DEF ItemManagerUpdate, TypeOK, GameOK, DbOK, SqlOK, HistOK, dbVars, sql, hist, count
<1> QED
  BY <1>5, <1>6

LEMMA PendingOfType ==
    ASSUME GameOK, NEW p \in Pids
    PROVE  PendingOf(p) \in Seq(Request) /\ Gone(p) \in ItemState
  BY SaveSingleItemType, Sequences1 DEF PendingOf, Gone, GameOK, Item, ItemState

(* Sessions and safebox windows keep the types.                            *)
LEMMA TypeGameSession == TypeOK /\ GameSession => TypeOK'
<1> USE ItemAssumption
<1> SUFFICES ASSUME TypeOK, GameSession PROVE TypeOK'  OBVIOUS
<1> PICK p \in Pids : \/ CharacterSelect(p) \/ SavePlayer(p) \/ Disconnect(p)
                      \/ ReqSafeboxLoad(p) \/ CloseSafebox(p) \/ FlushCommand(p)
  BY DEF GameSession
<1>1. \A op \in RequestOp \ {"ITEM_SAVE"} : \A s \in Nat :
         <<M(op, p, s, NoItem)>> \in Seq(Request)
  BY RequestType, Sequences1
<1>2. PendingOf(p) \in Seq(Request) /\ Gone(p) \in ItemState
  BY PendingOfType DEF TypeOK
<1> USE DEF TypeOK
<1>3. CASE CharacterSelect(p)
  <2>1. NPlayers + nSess + 1 \in Nat \ {0} /\ nSess' \in Nat
    BY <1>3 DEF CharacterSelect
  <2>2. sess' \in [Pids -> Nat \ {0}] /\ sess'[p] = NPlayers + nSess + 1
    BY <1>3, <2>1 DEF CharacterSelect, GameOK
  <2>3. st' \in [Pids -> {"off", "asked", "loading", "play"}]
    BY <1>3 DEF CharacterSelect, GameOK
  <2>4. toDb' \in Seq(Request)
    BY <1>1, <1>3, <2>1, <2>2, SendType DEF CharacterSelect, RequestOp
  <2> QED
    BY <1>3, <2>1, <2>2, <2>3, <2>4
    DEF CharacterSelect, GameOK, DbOK, SqlOK, HistOK, dbVars, sql, hist
<1>4. CASE SavePlayer(p)
  <2>1. toDb' \in Seq(Request)
    BY <1>1, <1>4, SendType DEF SavePlayer, RequestOp
  <2> QED
    BY <1>4, <2>1
    DEF SavePlayer, GameOK, DbOK, SqlOK, HistOK, game, dbVars, sql, hist, count
<1>5. CASE Disconnect(p)
  <2> DEFINE save == IF InGame(p) THEN <<M("PLAYER_SAVE", p, 0, NoItem)>> ELSE <<>>
             bye == <<M("LOGOUT", p, 0, NoItem)>>
  <2>1. save \in Seq(Request) /\ bye \in Seq(Request)
    BY <1>1, EmptySeq DEF RequestOp
  <2>2. save \o PendingOf(p) \o bye \in Seq(Request)
    <3> HIDE DEF save, bye
    <3>1. save \o PendingOf(p) \in Seq(Request)  BY <1>2, <2>1, ConcatProperties
    <3> QED  BY <2>1, <3>1, ConcatProperties
  <2>3. toDb' \in Seq(Request)
    BY <1>5, <2>2, SendType DEF Disconnect
  <2>4. /\ item' \in ItemState /\ delayed' \in BOOLEAN
        /\ st' \in [Pids -> {"off", "asked", "loading", "play"}]
        /\ box' \in [Pids -> {"closed", "asked", "open"}]
    BY <1>2, <1>5 DEF Disconnect, GameOK
  <2> QED
    BY <1>5, <2>3, <2>4
    DEF Disconnect, GameOK, DbOK, SqlOK, HistOK, dbVars, sql, hist, count
<1>6. CASE ReqSafeboxLoad(p)
  <2>1. sess[p] \in Nat  BY DEF GameOK
  <2>2. toDb' \in Seq(Request)
    BY <1>1, <1>6, <2>1, SendType DEF ReqSafeboxLoad, RequestOp
  <2>3. box' \in [Pids -> {"closed", "asked", "open"}]
    BY <1>6 DEF ReqSafeboxLoad, GameOK
  <2> QED
    BY <1>6, <2>2, <2>3
    DEF ReqSafeboxLoad, GameOK, DbOK, SqlOK, HistOK, dbVars, sql, hist
<1>7. CASE CloseSafebox(p)
  <2>1. /\ item' \in ItemState /\ delayed' \in BOOLEAN /\ toDb' \in Seq(Request)
        /\ box' \in [Pids -> {"closed", "asked", "open"}]
    BY <1>2, <1>7, SendType DEF CloseSafebox, GameOK
  <2> QED
    BY <1>7, <2>1
    DEF CloseSafebox, GameOK, DbOK, SqlOK, HistOK, dbVars, sql, hist, count
<1>8. CASE FlushCommand(p)
  <2>1. toDb' \in Seq(Request)
    BY <1>1, <1>8, SendType DEF FlushCommand, RequestOp
  <2> QED
    BY <1>8, <2>1
    DEF FlushCommand, GameOK, DbOK, SqlOK, HistOK, game, dbVars, sql, hist
<1> QED
  BY <1>3, <1>4, <1>5, <1>6, <1>7, <1>8

(* The game's reading of an answer keeps the types.                        *)
LEMMA TypeGameAnswer == TypeOK /\ GameAnswer => TypeOK'
<1> USE ItemAssumption
<1> SUFFICES ASSUME TypeOK, GameAnswer PROVE TypeOK'  OBVIOUS
<1> DEFINE x == Head(toGame).x
<1>1. toGame # <<>>
  BY DEF GameAnswer, AnswerIgnored, PlayerLoad, ItemLoad, SafeboxLoad,
         SafeboxWrongPassword, AnswerIs
<1>2. Tail(toGame) \in Seq(Reply) /\ x.ver \in Nat
  BY <1>1, HeadOfToGame DEF Message, Data, NoItem
<1>3. \A p \in Pids : \A a \in {"inv", "box"} : \A l \in Pids \cup {Nobody} :
         Item(a, p, x.ver, l) \in ItemState
  BY <1>2 DEF Item, ItemState
<1> USE DEF TypeOK
<1>4. CASE AnswerIgnored
  BY <1>2, <1>4
  DEF AnswerIgnored, Received, GameOK, DbOK, SqlOK, HistOK, game, dbVars, sql, hist, count
<1>5. ASSUME NEW p \in Pids, PlayerLoad(p) PROVE TypeOK'
  BY <1>2, <1>5
  DEF PlayerLoad, Received, GameOK, DbOK, SqlOK, HistOK, dbVars, sql, hist, count
<1>6. ASSUME NEW p \in Pids, ItemLoad(p) PROVE TypeOK'
  <2>1. item' \in ItemState
    BY <1>3, <1>6 DEF ItemLoad, GameOK
  <2> QED
    BY <1>2, <1>6, <2>1
    DEF ItemLoad, Received, GameOK, DbOK, SqlOK, HistOK, dbVars, sql, hist, count
<1>7. ASSUME NEW p \in Pids, SafeboxLoad(p) PROVE TypeOK'
  <2>1. item' \in ItemState
    BY <1>3, <1>7 DEF SafeboxLoad, GameOK
  <2>2. box' \in [Pids -> {"closed", "asked", "open"}]
    BY <1>7 DEF SafeboxLoad, GameOK
  <2> QED
    BY <1>2, <1>7, <2>1, <2>2
    DEF SafeboxLoad, Received, GameOK, DbOK, SqlOK, HistOK, dbVars, sql, hist, count
<1>8. ASSUME NEW p \in Pids, SafeboxWrongPassword(p) PROVE TypeOK'
  BY <1>2, <1>8
  DEF SafeboxWrongPassword, Received, GameOK, DbOK, SqlOK, HistOK, dbVars, sql, hist,
      count
<1> QED
  BY <1>4, <1>5, <1>6, <1>7, <1>8 DEF GameAnswer

(* A sequence whose elements lose their session is one of the same kind.   *)
LEMMA ForgetSessions ==
    ASSUME NEW S, NEW seq \in Seq(S), \A m \in S : [m EXCEPT !.s = 0] \in S
    PROVE  [i \in DOMAIN seq |-> [seq[i] EXCEPT !.s = 0]] \in Seq(S)
<1>1. /\ DOMAIN seq = 1..Len(seq) /\ Len(seq) \in Nat
      /\ \A i \in 1..Len(seq) : seq[i] \in S
  BY LenProperties, ElementOfSeq
<1>2. [i \in DOMAIN seq |-> [seq[i] EXCEPT !.s = 0]] \in [1..Len(seq) -> S]
  BY <1>1
<1> QED  BY <1>1, <1>2, SeqDef

(* A crash of the game keeps the types.                                    *)
LEMMA TypeGameCrash == TypeOK /\ GameCrash => TypeOK'
<1> USE ItemAssumption
<1> SUFFICES ASSUME TypeOK, GameCrash PROVE TypeOK'  OBVIOUS
<1>1. /\ \A q \in Statement : [q EXCEPT !.s = 0] \in Statement
      /\ \A q \in SqlAnswer : [q EXCEPT !.s = 0] \in SqlAnswer
  BY DEF Statement, SqlAnswer, Message
<1>2. main' \in Seq(Statement) /\ results' \in Seq(SqlAnswer)
  BY <1>1, ForgetSessions DEF GameCrash, TypeOK, SqlOK
<1>3. toDb' \in Seq(Request) /\ toGame' \in Seq(Reply)
  BY EmptySeq DEF GameCrash
<1>4. item' \in ItemState
  BY DEF GameCrash, TypeOK, GameOK, Item, ItemState
<1> QED
  BY <1>2, <1>3, <1>4 DEF GameCrash, TypeOK, GameOK, DbOK, SqlOK, HistOK, dbVars

LEMMA TypeStep == TypeOK /\ [Next]_vars => TypeOK'
<1> SUFFICES ASSUME TypeOK, [Next]_vars PROVE TypeOK'  OBVIOUS
<1>1. CASE UNCHANGED vars
  BY <1>1 DEF TypeOK, GameOK, DbOK, SqlOK, HistOK, vars, game, dbVars, sql, hist, count
<1> QED
  BY <1>1, TypeDbPacket, TypeDbResult, TypeDbTimer, TypeSql, TypeGameItem,
     TypeGameSession, TypeGameAnswer, TypeGameCrash DEF Next

(* Every packet, statement and answer is well formed: it names a player    *)
(* where the handler uses one, a save always carries an owner (the game    *)
(* turns the others into ITEM_DESTROY), a cache object in the map belongs  *)
(* to a player.  This is what the db's handlers take for granted.          *)
THEOREM ItemTypeCorrect == Spec => []TypeOK
<1>1. Init => TypeOK  BY TypeInit
<1>2. TypeOK /\ [Next]_vars => TypeOK'  BY TypeStep
<1> QED  BY <1>1, <1>2, PTL DEF Spec
-----------------------------------------------------------------------------
(* The item cache and the item cache sets.                                 *)

(* An item's pointer leaves the set of an owner it no longer has.          *)
LEMMA UnlinkedFrees ==
    ASSUME cache \in CacheState, NEW sets \in SetState, Consistent(cache, sets)
    PROVE  \A p \in Pids : /\ Unlinked(sets)[p] # "with"
                           /\ Unlinked(sets)[p] = "none" <=> sets[p] = "none"
  BY DEF Unlinked, Consistent, CacheState, SetState

LEMMA PutItemCacheConsistent ==
    ASSUME cache \in CacheState, NEW sets \in SetState, Consistent(cache, sets),
           NEW x \in Data, NEW skip \in BOOLEAN, PutItemCache(x, skip, sets)
    PROVE  Consistent(cache', set')
<1> DEFINE s == IF cache.owner # x.owner THEN Unlinked(sets) ELSE sets
           c == [in |-> TRUE, owner |-> x.owner, ver |-> x.ver, dead |-> FALSE,
                 dirty |-> cache.dirty \/ ~skip]
<1>1. x.owner \in Pids /\ s \in SetState
  BY UnlinkedType DEF Data
<1>2. \A p \in Pids : s[p] = "with" => p = x.owner
  <2>1. CASE cache.owner # x.owner  BY <2>1, UnlinkedFrees
  <2>2. CASE cache.owner = x.owner  BY <2>2 DEF Consistent
  <2> QED  BY <2>1, <2>2
<1>3. CASE s[x.owner] # "none"
  <2>1. set' = [s EXCEPT ![x.owner] = "with"] /\ cache' = c
    BY <1>3 DEF PutItemCache
  <2> HIDE DEF s
  <2>2. /\ set'[x.owner] = "with"
        /\ \A p \in Pids : set'[p] = "with" => p = x.owner
    BY <1>1, <1>2, <2>1 DEF SetState
  <2>3. cache'.in /\ ~cache'.dead /\ cache'.owner = x.owner
    BY <2>1
  <2> QED  BY <2>2, <2>3 DEF Consistent
<1>4. CASE s[x.owner] = "none"
  <2>1. set' = s /\ cache' = [c EXCEPT !.dirty = FALSE]
    BY <1>4 DEF PutItemCache
  <2>2. \A p \in Pids : set'[p] # "with"
    BY <1>2, <1>4, <2>1
  <2>3. ~cache'.dirty
    BY <2>1
  <2> QED  BY <2>2, <2>3 DEF Consistent
<1> QED  BY <1>3, <1>4

LEMMA FlushItemCacheSetConsistent ==
    ASSUME cache \in CacheState, set \in SetState, Consistent(cache, set),
           NEW p \in Pids, FlushItemCacheSet(p)
    PROVE  Consistent(cache', set')
<1>1. set' = [set EXCEPT ![p] = "none"]
  BY DEF FlushItemCacheSet
<1>2. CASE set[p] = "with"
  <2>1. cache' = NoCache  BY <1>2 DEF FlushItemCacheSet
  <2>2. \A q \in Pids : set'[q] # "with"
    BY <1>1, <1>2 DEF Consistent, SetState
  <2> QED  BY <2>1, <2>2 DEF Consistent, NoCache
<1>3. CASE set[p] # "with"
  <2>1. cache' = cache  BY <1>3 DEF FlushItemCacheSet
  <2>2. \A q \in Pids : set'[q] = "with" <=> set[q] = "with"
    BY <1>1, <1>3 DEF SetState
  <2>3. cache.dirty => set'[cache.owner] = "with"
    <3>1. cache.dirty => cache.owner \in Pids /\ set[cache.owner] = "with"
      BY DEF Consistent, CacheState
    <3> QED  BY <2>2, <3>1
  <2> QED  BY <2>1, <2>2, <2>3 DEF Consistent
<1> QED  BY <1>2, <1>3

LEMMA FlushConsistent ==
    ASSUME cache \in CacheState, Consistent(cache, set), set' = set, Flush
    PROVE  Consistent(cache', set')
<1>1. cache' = [cache EXCEPT !.dirty = FALSE]  BY DEF Flush
<1>2. ~cache'.dirty /\ cache'.in = cache.in /\ cache'.owner = cache.owner
  BY <1>1 DEF CacheState
<1> QED  BY <1>2 DEF Consistent

LEMMA CacheInit == Init => CacheSets
<1> USE ItemAssumption
<1> SUFFICES ASSUME Init PROVE Consistent(cache, set)  BY DEF CacheSets
<1>1. CASE Online
  <2>1. InitOnline  BY <1>1 DEF Init
  <2>2. \/ cache = NoCache /\ set = [p \in Pids |-> "without"]
        \/ /\ cache = [NoCache EXCEPT !.in = TRUE, !.owner = 1]
           /\ set = [p \in Pids |-> IF p = 1 THEN "with" ELSE "without"]
    BY <2>1 DEF InitOnline
  <2>3. CASE cache = NoCache /\ set = [p \in Pids |-> "without"]
    BY <2>3 DEF Consistent, NoCache
  <2>4. CASE /\ cache = [NoCache EXCEPT !.in = TRUE, !.owner = 1]
             /\ set = [p \in Pids |-> IF p = 1 THEN "with" ELSE "without"]
    <3>1. cache.in /\ cache.owner = 1 /\ ~cache.dirty  BY <2>4 DEF NoCache
    <3>2. \A p \in Pids : set[p] = "with" => p = 1  BY <2>4
    <3> QED  BY <3>1, <3>2 DEF Consistent
  <2> QED  BY <2>2, <2>3, <2>4
<1>2. CASE ~Online
  <2>1. cache = NoCache /\ set = [p \in Pids |-> "none"]
    BY <1>2 DEF Init, InitOffline
  <2> QED  BY <2>1 DEF Consistent, NoCache
<1> QED  BY <1>1, <1>2

(* One case for every handler that touches the cache or the sets.          *)
LEMMA CacheStep == TypeOK /\ CacheSets /\ [Next]_vars => CacheSets'
<1> USE ItemAssumption
<1> SUFFICES ASSUME TypeOK, CacheSets, [Next]_vars, up'
             PROVE  Consistent(cache', set')
  BY DEF CacheSets
<1>1. cache \in CacheState /\ set \in SetState  BY DEF TypeOK, DbOK
<1>2. ASSUME UNCHANGED <<cache, set, up>> PROVE Consistent(cache', set')
  BY <1>2 DEF CacheSets
<1>3. CASE QUERY_ITEM_SAVE
  <2> DEFINE x == Head(toDb).x
  <2>1. up /\ x \in Data
    BY <1>3, HeadOfToDb DEF QUERY_ITEM_SAVE, Request, Packet
  <2>2. CASE x.win = "box"
    <3>1. set' = Unlinked(set) /\ cache' = NoCache
      BY <1>3, <2>2 DEF QUERY_ITEM_SAVE
    <3>2. \A p \in Pids : set'[p] # "with"
      BY <1>1, <2>1, <3>1, UnlinkedFrees DEF CacheSets
    <3> QED  BY <3>1, <3>2 DEF Consistent, NoCache
  <2>3. CASE x.win # "box"
    <3>1. PutItemCache(x, FALSE, set)  BY <1>3, <2>3 DEF QUERY_ITEM_SAVE
    <3> QED  BY <1>1, <2>1, <3>1, PutItemCacheConsistent DEF CacheSets
  <2> QED  BY <2>2, <2>3
<1>4. CASE QUERY_ITEM_DESTROY
  <2>1. up /\ set' = set /\ cache' \in {cache, [cache EXCEPT !.dead = TRUE, !.dirty = FALSE]}
    BY <1>4 DEF QUERY_ITEM_DESTROY, Packet
  <2> QED  BY <1>1, <2>1 DEF CacheSets, Consistent, CacheState
<1>5. CASE QUERY_ITEM_FLUSH
  <2>1. up /\ set' = set /\ (Flush \/ UNCHANGED cache)
    BY <1>5 DEF QUERY_ITEM_FLUSH, Packet
  <2> QED  BY <1>1, <2>1, FlushConsistent DEF CacheSets
<1>6. CASE QUERY_PLAYER_LOAD  BY <1>2, <1>6 DEF QUERY_PLAYER_LOAD
<1>7. CASE QUERY_PLAYER_SAVE  BY <1>2, <1>7 DEF QUERY_PLAYER_SAVE
<1>8. CASE QUERY_LOGOUT  BY <1>2, <1>8 DEF QUERY_LOGOUT
<1>9. CASE QUERY_SAFEBOX_LOAD  BY <1>2, <1>9 DEF QUERY_SAFEBOX_LOAD, dbVars
<1>10. CASE QUERY_FLUSH_CACHE
  <2>1. up /\ Head(toDb).p \in Pids
    BY <1>10, HeadOfToDb DEF QUERY_FLUSH_CACHE, Packet, Request
  <2>2. FlushItemCacheSet(Head(toDb).p) \/ UNCHANGED <<cache, set>>
    BY <1>10 DEF QUERY_FLUSH_CACHE
  <2> QED  BY <1>1, <2>1, <2>2, FlushItemCacheSetConsistent DEF CacheSets
<1>11. CASE DbResult
  <2>1. CASE RESULT_ITEM_LOAD
    <3> DEFINE m == Head(results)
               sets == [set EXCEPT ![m.p] = IF @ = "none" THEN "without" ELSE @]
    <3>1. /\ up /\ m.p \in Pids
          /\ m.x = NoItem \/ m.x \in Data
      BY <2>1, HeadOfResults DEF RESULT_ITEM_LOAD, Result, Message
    <3>2. sets \in SetState /\ Consistent(cache, sets)
      BY <1>1, <3>1 DEF CacheSets, Consistent, CacheState, SetState
    <3>3. CASE m.x = NoItem
      <4>1. set' = sets /\ cache' = cache  BY <2>1, <3>3 DEF RESULT_ITEM_LOAD
      <4> QED  BY <3>2, <4>1
    <3>4. CASE m.x # NoItem
      <4>1. PutItemCache(m.x, TRUE, sets)  BY <2>1, <3>4 DEF RESULT_ITEM_LOAD
      <4> HIDE DEF sets
      <4> QED  BY <1>1, <3>1, <3>2, <3>4, <4>1, PutItemCacheConsistent
    <3> QED  BY <3>3, <3>4
  <2>2. CASE ResultWithoutPeer \/ RESULT_PLAYER_LOAD \/ RESULT_SAFEBOX_LOAD
    BY <1>2, <2>2 DEF ResultWithoutPeer, RESULT_PLAYER_LOAD, RESULT_SAFEBOX_LOAD, dbVars
  <2> QED  BY <1>11, <2>1, <2>2 DEF DbResult
<1>12. CASE DbTimer
  <2>1. ASSUME up, set' = set, Flush PROVE Consistent(cache', set')
    BY <1>1, <2>1, FlushConsistent DEF CacheSets
  <2>2. CASE UpdateItemCache  BY <2>1, <2>2 DEF UpdateItemCache
  <2>3. ASSUME NEW p \in Pids, UpdatePlayerCache(p) PROVE Consistent(cache', set')
    BY <2>1, <2>3 DEF UpdatePlayerCache
  <2>4. ASSUME NEW p \in Pids, UpdateLogoutPlayer(p) PROVE Consistent(cache', set')
    BY <1>1, <2>4, FlushItemCacheSetConsistent DEF UpdateLogoutPlayer, CacheSets
  <2> QED  BY <1>12, <2>2, <2>3, <2>4 DEF DbTimer
<1>13. CASE Shutdown  BY <1>13 DEF Shutdown
<1>14. CASE MainExecutes \/ AsyncExecutes
  BY <1>2, <1>14 DEF MainExecutes, AsyncExecutes, dbVars
<1>15. CASE GameItem \/ ItemManagerUpdate
  BY <1>2, <1>15
  DEF GameItem, CreateItem, ModifyItem, DropItem, DestroyItem, SafeboxCheckin,
      SafeboxCheckout, PickupItem, ExchangeItem, ItemOp, ItemManagerUpdate, dbVars
<1>16. CASE GameSession
  BY <1>2, <1>16
  DEF GameSession, CharacterSelect, SavePlayer, Disconnect, ReqSafeboxLoad,
      CloseSafebox, FlushCommand, dbVars
<1>17. CASE GameAnswer
  BY <1>2, <1>17
  DEF GameAnswer, AnswerIgnored, PlayerLoad, ItemLoad, SafeboxLoad,
      SafeboxWrongPassword, dbVars
<1>18. CASE GameCrash  BY <1>2, <1>18 DEF GameCrash, dbVars
<1>19. CASE UNCHANGED vars  BY <1>2, <1>19 DEF vars, dbVars
<1> QED
  BY <1>3, <1>4, <1>5, <1>6, <1>7, <1>8, <1>9, <1>10, <1>11, <1>12, <1>13, <1>14,
     <1>15, <1>16, <1>17, <1>18, <1>19 DEF Next, DbPacket

(* Whatever the game sends, whenever the timers fire and the SQL answers   *)
(* arrive, also across crashes: FlushItemCacheSet never follows a pointer  *)
(* to a freed cache object, and data the db has not written is in a set    *)
(* that a load of its owner or a flush of its owner's set will find.       *)
THEOREM CacheConsistent == Spec => []CacheSets
<1>1. Init => TypeOK /\ CacheSets  BY TypeInit, CacheInit
<1>2. TypeOK /\ CacheSets /\ [Next]_vars => (TypeOK /\ CacheSets)'
  BY TypeStep, CacheStep
<1> QED  BY <1>1, <1>2, PTL DEF Spec
-----------------------------------------------------------------------------
(* The last save is not lost: sequences.                                   *)

(* The sequence with one more message, and without its first.              *)
LEMMA AppendIs ==
    ASSUME NEW T, NEW q \in Seq(T), NEW m \in T
    PROVE  /\ Append(q, m) \in Seq(T) /\ Len(q) \in Nat
           /\ DOMAIN q = 1..Len(q) /\ DOMAIN Append(q, m) = 1..(Len(q) + 1)
           /\ \A i \in 1..Len(q) : Append(q, m)[i] = q[i]
           /\ Append(q, m)[Len(q) + 1] = m
<1>1. Append(q, m) \in Seq(T) /\ Len(Append(q, m)) = Len(q) + 1
  BY AppendProperties
<1>2. DOMAIN Append(q, m) = 1..(Len(q) + 1)
  BY <1>1, LenProperties
<1> QED  BY <1>1, <1>2, AppendProperties, LenProperties

LEMMA TailIs ==
    ASSUME NEW T, NEW q \in Seq(T), q # <<>>
    PROVE  /\ Tail(q) \in Seq(T) /\ Head(q) \in T /\ Head(q) = q[1]
           /\ Len(q) \in Nat \ {0} /\ 1 \in DOMAIN q
           /\ DOMAIN q = 1..Len(q) /\ DOMAIN Tail(q) = 1..(Len(q) - 1)
           /\ \A i \in 1..(Len(q) - 1) : Tail(q)[i] = q[i + 1]
<1>1. /\ Tail(q) \in Seq(T) /\ Head(q) \in T /\ Len(Tail(q)) = Len(q) - 1
      /\ \A i \in 1..Len(Tail(q)) : Tail(q)[i] = q[i + 1]
  BY HeadTailProperties
<1>2. DOMAIN Tail(q) = 1..(Len(q) - 1) /\ DOMAIN q = 1..Len(q)
  BY <1>1, LenProperties
<1>3. Len(q) \in Nat \ {0}
  <2>1. Len(q) \in Nat  BY LenProperties
  <2>2. Len(q) # 0  BY EmptySeq
  <2> QED  BY <2>1, <2>2
<1>4. Head(q) = q[1]  OBVIOUS
<1> QED  BY <1>1, <1>2, <1>3, <1>4

LEMMA HasAppend ==
    ASSUME NEW T, NEW q \in Seq(T), NEW m \in T, NEW A
    PROVE  Has(Append(q, m), A) <=> Has(q, A) \/ m \in A
<1>1. \A i \in 1..Len(q) : i \in 1..(Len(q) + 1)
  BY AppendIs
<1>2. Len(q) + 1 \in 1..(Len(q) + 1)
  BY AppendIs
<1>3. \A i \in 1..(Len(q) + 1) : i \in 1..Len(q) \/ i = Len(q) + 1
  BY AppendIs
<1> QED  BY <1>1, <1>2, <1>3, AppendIs DEF Has

LEMMA HasTail ==
    ASSUME NEW T, NEW q \in Seq(T), q # <<>>, NEW A
    PROVE  Has(q, A) <=> Has(Tail(q), A) \/ Head(q) \in A
<1>1. \A i \in 1..(Len(q) - 1) : i + 1 \in 1..Len(q)
  BY TailIs
<1>2. \A i \in 1..Len(q) : i = 1 \/ (i - 1 \in 1..(Len(q) - 1) /\ i - 1 + 1 = i)
  BY TailIs
<1>3. Has(Tail(q), A) => Has(q, A)
  BY <1>1, TailIs DEF Has
<1>4. Head(q) \in A => Has(q, A)
  BY TailIs DEF Has
<1>5. ASSUME NEW i \in 1..Len(q), q[i] \in A, Head(q) \notin A
      PROVE  Has(Tail(q), A)
  <2>1. i # 1  BY <1>5, TailIs
  <2>2. i - 1 \in 1..(Len(q) - 1) /\ Tail(q)[i - 1] = q[i - 1 + 1]
    BY <1>2, <2>1, TailIs
  <2>3. Tail(q)[i - 1] \in A  BY <1>2, <1>5, <2>1, <2>2
  <2> QED  BY <2>2, <2>3, TailIs DEF Has
<1> QED  BY <1>3, <1>4, <1>5, TailIs DEF Has

LEMMA SaysAppendBefore ==
    ASSUME NEW T, NEW q \in Seq(T), NEW m \in T, NEW ops, NEW r, NEW v,
           NEW k \in 1..(Len(q) + 1), Says(Append(q, m), ops, r, k, v)
    PROVE  Says(q, ops, r, k, v)
<1>1. Len(q) \in Nat /\ k \in Nat /\ k <= Len(q) + 1
  BY AppendIs
<1>2. \A i \in 1..Len(q) : i \in 1..(Len(q) + 1)
  BY <1>1
<1>3. \A i \in 1..(Len(q) + 1) : i < k => i \in 1..Len(q)
  BY <1>1
<1> QED  BY <1>2, <1>3, AppendIs DEF Says

LEMMA SaysAppendNew ==
    ASSUME NEW T, NEW q \in Seq(T), NEW m \in T, NEW ops, NEW r, NEW v,
           Says(Append(q, m), ops, r, Len(q) + 2, v)
    PROVE  IF m.op \in ops THEN v = m.x ELSE Says(q, ops, r, Len(q) + 1, v)
<1>1. Len(q) \in Nat
  BY AppendIs
<1> DEFINE n == Len(q)
           a == Append(q, m)
<1>2. /\ DOMAIN q = 1..n /\ DOMAIN a = 1..(n + 1)
      /\ \A i \in 1..n : a[i] = q[i]
      /\ a[n + 1] = m
  BY AppendIs
<1>3. Says(a, ops, r, n + 2, v)  OBVIOUS
<1> HIDE DEF n, a
<1>4. n \in Nat  BY <1>1 DEF n
<1>5. /\ \A i \in 1..(n + 1) : i < n + 2 /\ (i \in 1..n \/ i = n + 1)
      /\ \A i \in 1..n : i < n + 1 /\ i \in 1..(n + 1)
      /\ n + 1 \in 1..(n + 1)
  BY <1>4
<1>6. CASE m.op \in ops
  <2>1. ASSUME NEW i \in 1..n, \A j \in 1..(n + 1) : i < j => a[j].op \notin ops
        PROVE  FALSE
    BY <1>2, <1>4, <1>5, <1>6, <2>1
  <2> QED  BY <1>2, <1>3, <1>5, <1>6, <2>1 DEF Says
<1>7. CASE m.op \notin ops
  <2>1. CASE v = r /\ \A i \in 1..(n + 1) : i < n + 2 => a[i].op \notin ops
    <3>1. \A i \in 1..n : q[i].op \notin ops  BY <1>2, <1>5, <2>1
    <3> QED  BY <1>2, <1>7, <2>1, <3>1 DEF Says, n
  <2>2. ASSUME NEW i \in 1..(n + 1), a[i].op \in ops, v = a[i].x,
               \A j \in 1..(n + 1) : i < j /\ j < n + 2 => a[j].op \notin ops
        PROVE  Says(q, ops, r, Len(q) + 1, v)
    <3>1. i \in 1..n /\ q[i].op \in ops /\ v = q[i].x /\ i < n + 1
      BY <1>2, <1>5, <1>7, <2>2
    <3>2. \A j \in 1..n : i < j => q[j].op \notin ops
      BY <1>2, <1>5, <2>2
    <3> QED  BY <1>2, <3>1, <3>2 DEF Says, n
  <2> QED  BY <1>2, <1>3, <1>7, <2>1, <2>2 DEF Says
<1> QED  BY <1>6, <1>7

LEMMA SaysTail ==
    ASSUME NEW T, NEW q \in Seq(T), q # <<>>, NEW ops, NEW r, NEW v, NEW k \in Nat \ {0},
           Says(Tail(q), ops, IF Head(q).op \in ops THEN Head(q).x ELSE r, k, v)
    PROVE  Says(q, ops, r, k + 1, v)
<1> DEFINE n == Len(q)
           t == Tail(q)
           h == Head(q)
           z == IF h.op \in ops THEN h.x ELSE r
<1>1. /\ n \in Nat \ {0} /\ DOMAIN q = 1..n /\ DOMAIN t = 1..(n - 1)
      /\ \A i \in 1..(n - 1) : t[i] = q[i + 1]
      /\ h = q[1]
  BY TailIs
<1>2. Says(t, ops, z, k, v)  OBVIOUS
<1> HIDE DEF n, t, h
<1>3. /\ \A i \in 1..n : i = 1 \/ (i - 1 \in 1..(n - 1) /\ i - 1 + 1 = i)
      /\ \A i \in 1..(n - 1) : i + 1 \in 1..n
      /\ 1 \in 1..n /\ 1 < k + 1
  BY <1>1
<1>4. CASE v = z /\ \A i \in 1..(n - 1) : i < k => t[i].op \notin ops
  <2>1. \A i \in 1..n : 1 < i /\ i < k + 1 => q[i].op \notin ops
    <3> SUFFICES ASSUME NEW i \in 1..n, 1 < i, i < k + 1 PROVE q[i].op \notin ops
      OBVIOUS
    <3>1. i - 1 \in 1..(n - 1) /\ i - 1 < k /\ i - 1 + 1 = i  BY <1>1, <1>3
    <3> QED  BY <1>1, <1>4, <3>1
  <2>2. CASE h.op \in ops  BY <1>1, <1>3, <1>4, <2>1, <2>2 DEF Says
  <2>3. CASE h.op \notin ops
    <3>1. \A i \in 1..n : i < k + 1 => q[i].op \notin ops
      BY <1>1, <1>3, <2>1, <2>3
    <3> QED  BY <1>1, <1>4, <2>3, <3>1 DEF Says
  <2> QED  BY <2>2, <2>3
<1>5. ASSUME NEW i \in 1..(n - 1), i < k, t[i].op \in ops, v = t[i].x,
             \A j \in 1..(n - 1) : i < j /\ j < k => t[j].op \notin ops
      PROVE  Says(q, ops, r, k + 1, v)
  <2>1. i + 1 \in 1..n /\ i + 1 < k + 1 /\ q[i + 1].op \in ops /\ v = q[i + 1].x
    BY <1>1, <1>3, <1>5
  <2>2. \A j \in 1..n : i + 1 < j /\ j < k + 1 => q[j].op \notin ops
    <3> SUFFICES ASSUME NEW j \in 1..n, i + 1 < j, j < k + 1 PROVE q[j].op \notin ops
      OBVIOUS
    <3>1. j - 1 \in 1..(n - 1) /\ i < j - 1 /\ j - 1 < k /\ j - 1 + 1 = j
      BY <1>1, <1>3
    <3> QED  BY <1>1, <1>5, <3>1
  <2> QED  BY <1>1, <2>1, <2>2 DEF Says
<1> QED  BY <1>1, <1>2, <1>4, <1>5 DEF Says

(* A queue whose messages of these kinds all say v says v.                 *)
LEMMA SaysSame ==
    ASSUME NEW q, NEW ops, NEW r, NEW k, NEW v,
           \A i \in DOMAIN q : q[i].op \in ops => q[i].x = r,
           Says(q, ops, r, k, v)
    PROVE  v = r
  BY DEF Says

(* The last of a queue's messages of these kinds is what LastOf looks at.  *)
LEMMA LastOfSays ==
    ASSUME NEW T, NEW q \in Seq(T), NEW ops, NEW r
    PROVE  Says(q, ops, r, Len(q) + 1, LastOf(q, ops, r))
<1> DEFINE n == Len(q)
           ks == {k \in DOMAIN q : q[k].op \in ops}
<1>1. n \in Nat /\ DOMAIN q = 1..n
  BY LenProperties
<1>2. ks \subseteq 1..n /\ \A i \in 1..n : i < n + 1
  BY <1>1
<1>3. CASE ks = {}
  BY <1>1, <1>3 DEF Says, LastOf
<1>4. CASE ks # {}
  <2>1. \E k \in ks : \A i \in ks : k >= i
    <3> DEFINE us == {u \in 0..n : n - u \in ks}
    <3>1. us \subseteq Nat /\ us # {}
      <4>1. PICK k \in ks : TRUE  BY <1>4
      <4>2. k \in 1..n  BY <1>2
      <4>3. n - k \in 0..n /\ n - (n - k) = k  BY <1>1, <4>2
      <4> QED  BY <4>1, <4>3
    <3> HIDE DEF us
    <3>2. PICK u \in us : \A w \in us : ~(<<w, u>> \in OpToRel(<, Nat))
      BY <3>1, WFMin, NatLessThanWellFounded
    <3>3. \A w \in us : ~(w < u)
      BY <3>1, <3>2 DEF OpToRel
    <3>4. n - u \in ks /\ u \in 0..n  BY DEF us
    <3>5. ASSUME NEW i \in ks PROVE n - u >= i
      <4>1. i \in 1..n  BY <1>2
      <4>2. n - i \in 0..n /\ n - (n - i) = i  BY <1>1, <4>1
      <4>3. n - i \in us  BY <4>2 DEF us
      <4>4. ~(n - i < u)  BY <3>3, <4>3
      <4> QED  BY <1>1, <3>4, <4>1, <4>4
    <3> QED  BY <3>4, <3>5
  <2>2. Max(ks) \in ks /\ \A i \in ks : Max(ks) >= i
    BY <2>1 DEF Max
  <2> DEFINE k == Max(ks)
  <2>3. LastOf(q, ops, r) = q[k].x  BY <1>4 DEF LastOf
  <2> HIDE DEF k
  <2>4. k \in ks /\ \A i \in ks : k >= i  BY <2>2 DEF k
  <2>5. k \in 1..n /\ k < n + 1 /\ q[k].op \in ops  BY <1>1, <1>2, <2>4
  <2>6. \A j \in 1..n : k < j => q[j].op \notin ops
    <3> SUFFICES ASSUME NEW j \in 1..n, k < j, q[j].op \in ops PROVE FALSE
      OBVIOUS
    <3>1. j \in ks  BY <1>1
    <3>2. k >= j  BY <2>4, <3>1
    <3> QED  BY <2>5, <3>2
  <2> QED  BY <1>1, <2>3, <2>5, <2>6 DEF Says
<1> QED  BY <1>3, <1>4
-----------------------------------------------------------------------------
(* The packets of a player's sessions.                                     *)

LEMMA Kinds ==
    ASSUME NEW p
    PROVE  /\ Loads(p) \cap Logouts(p) = {} /\ Loads(p) \cap Plays(p) = {}
           /\ Loads(p) \cap Puts(p) = {} /\ Plays(p) \cap Puts(p) = {}
           /\ Plays(p) \cap Logouts(p) = {} /\ Puts(p) \cap Logouts(p) = {}
  BY DEF Loads, Plays, Puts, Logouts

LEMMA LineTail ==
    ASSUME NEW q \in Seq(Request), q # <<>>, NEW p, NEW s, Line(q, p, s)
    PROVE  Line(Tail(q), p, s)
<1> DEFINE t == Tail(q)
           n == Len(q)
<1>1. /\ n \in Nat \ {0} /\ DOMAIN q = 1..n /\ DOMAIN t = 1..(n - 1)
      /\ \A i \in 1..(n - 1) : t[i] = q[i + 1]
  BY TailIs
<1>2. \A A : Has(t, A) => Has(q, A)
  BY HasTail
<1> HIDE DEF t, n
<1>3. /\ \A i \in 1..n : i = 1 \/ (i - 1 \in 1..(n - 1) /\ i - 1 + 1 = i)
      /\ \A i \in 1..(n - 1) : i + 1 \in 1..n
      /\ \A i, j \in 1..(n - 1) : i < j <=> i + 1 < j + 1
      /\ \A i, j \in 1..(n - 1) : i + 1 = j + 1 => i = j
  BY <1>1
<1>4. ASSUME NEW A, NEW B, Followed(q, A, B) PROVE Followed(t, A, B)
  <2> SUFFICES ASSUME NEW i \in 1..(n - 1), t[i] \in A
               PROVE  \E j \in 1..(n - 1) : i < j /\ t[j] \in B
    BY <1>1 DEF Followed
  <2>1. PICK j \in 1..n : i + 1 < j /\ q[j] \in B
    BY <1>1, <1>3, <1>4 DEF Followed
  <2>2. j - 1 \in 1..(n - 1) /\ j - 1 + 1 = j /\ i < j - 1
    BY <1>1, <2>1
  <2>3. t[j - 1] \in B  BY <1>1, <2>1, <2>2
  <2> QED  BY <2>2, <2>3
<1>5. ASSUME NEW A, NEW B, NoneAfter(q, A, B) PROVE NoneAfter(t, A, B)
  <2> SUFFICES ASSUME NEW i \in 1..(n - 1), NEW j \in 1..(n - 1), t[i] \in A, i < j
               PROVE  t[j] \notin B
    BY <1>1 DEF NoneAfter
  <2>1. /\ i + 1 \in 1..n /\ j + 1 \in 1..n /\ i + 1 < j + 1
        /\ t[i] = q[i + 1] /\ t[j] = q[j + 1]
    BY <1>1, <1>3
  <2> QED  BY <1>1, <1>5, <2>1 DEF NoneAfter
<1>6. \A A : Once(q, A) => Once(t, A)
  BY <1>1, <1>3 DEF Once
<1> QED  BY <1>2, <1>4, <1>5, <1>6 DEF Line, t

(* The sequence relations with one more message.                           *)
LEMMA RelationsAppend ==
    ASSUME NEW T, NEW q \in Seq(T), NEW m \in T, NEW A, NEW B
    PROVE  /\ Followed(q, A, B) /\ m \notin A => Followed(Append(q, m), A, B)
           /\ m \in B /\ m \notin A => Followed(Append(q, m), A, B)
           /\ NoneAfter(q, A, B) /\ (m \in B => ~Has(q, A))
              => NoneAfter(Append(q, m), A, B)
           /\ Once(q, A) /\ (m \in A => ~Has(q, A)) => Once(Append(q, m), A)
<1> DEFINE n == Len(q)
           a == Append(q, m)
<1>1. /\ n \in Nat /\ DOMAIN q = 1..n /\ DOMAIN a = 1..(n + 1)
      /\ \A i \in 1..n : a[i] = q[i]
      /\ a[n + 1] = m
  BY AppendIs
<1> HIDE DEF n, a
<1>2. /\ \A i \in 1..(n + 1) : i \in 1..n \/ i = n + 1
      /\ \A i \in 1..n : i \in 1..(n + 1) /\ i < n + 1 /\ ~(n + 1 < i)
      /\ n + 1 \in 1..(n + 1) /\ ~(n + 1 < n + 1)
  BY <1>1
<1>3. Followed(q, A, B) /\ m \notin A => Followed(a, A, B)
  BY <1>1, <1>2 DEF Followed
<1>4. m \in B /\ m \notin A => Followed(a, A, B)
  BY <1>1, <1>2 DEF Followed
<1>5. NoneAfter(q, A, B) /\ (m \in B => ~Has(q, A)) => NoneAfter(a, A, B)
  BY <1>1, <1>2 DEF NoneAfter, Has
<1>6. Once(q, A) /\ (m \in A => ~Has(q, A)) => Once(a, A)
  BY <1>1, <1>2 DEF Once, Has
<1> QED  BY <1>3, <1>4, <1>5, <1>6 DEF a

LEMMA LineOther ==
    ASSUME NEW q \in Seq(Request), NEW m \in Request, NEW p, NEW s,
           Line(q, p, s), m \notin Uses(p) \cup Logouts(p)
    PROVE  Line(Append(q, m), p, s)
<1>1. \A A : Has(Append(q, m), A) <=> Has(q, A) \/ m \in A
  BY HasAppend
<1>2. m \notin Loads(p) /\ m \notin Plays(p) \cup Puts(p) /\ m \notin Logouts(p)
  BY DEF Uses
<1> QED  BY <1>1, <1>2, RelationsAppend DEF Line

(* A save of a player who is in the game and whose load the db has read.   *)
LEMMA LineSave ==
    ASSUME NEW q \in Seq(Request), NEW p, NEW m \in Plays(p) \cup Puts(p), NEW s,
           Line(q, p, s), s # "off", ~Has(q, Loads(p))
    PROVE  /\ Append(q, m) \in Seq(Request) /\ Line(Append(q, m), p, s)
           /\ ~Has(Append(q, m), Loads(p))
<1>0. m \in Request  BY DEF Plays, Puts
<1>1. \A A : Has(Append(q, m), A) <=> Has(q, A) \/ m \in A
  BY <1>0, HasAppend
<1>2. m \notin Loads(p) /\ m \notin Logouts(p)
  BY Kinds
<1>3. ~Has(q, Logouts(p))  BY DEF Line
<1> QED  BY <1>0, <1>1, <1>2, <1>3, RelationsAppend, AppendProperties DEF Line

LEMMA LineLogout ==
    ASSUME NEW q \in Seq(Request), NEW p, NEW m \in Logouts(p), NEW s,
           Line(q, p, s), s # "off"
    PROVE  Line(Append(q, m), p, "off")
<1>0. m \in Request  BY DEF Logouts
<1>1. \A A : Has(Append(q, m), A) <=> Has(q, A) \/ m \in A
  BY <1>0, HasAppend
<1>2. m \notin Loads(p) /\ m \notin Plays(p) \cup Puts(p) /\ m \notin Uses(p)
  BY Kinds DEF Uses
<1> QED  BY <1>0, <1>1, <1>2, RelationsAppend DEF Line

LEMMA LineLoad ==
    ASSUME NEW q \in Seq(Request), NEW p, NEW m \in Loads(p),
           Line(q, p, "off"), ~Has(q, Logouts(p))
    PROVE  ~Has(q, Uses(p)) /\ Line(Append(q, m), p, "asked")
<1>0. m \in Request  BY DEF Loads
<1>1. \A A : Has(Append(q, m), A) <=> Has(q, A) \/ m \in A
  BY <1>0, HasAppend
<1>2. ~Has(q, Uses(p))
  BY DEF Line, Followed, Has
<1>3. ~Has(q, Loads(p)) /\ ~Has(q, Plays(p) \cup Puts(p))
  BY <1>2 DEF Uses, Has
<1>4. m \notin Logouts(p) /\ m \notin Plays(p) \cup Puts(p)
  BY Kinds
<1> QED  BY <1>0, <1>1, <1>2, <1>3, <1>4, RelationsAppend DEF Line

LEMMA BackedTail ==
    ASSUME NEW q \in Seq(Request), q # <<>>, NEW p, NEW c, NEW d,
           Backed(q, p, c), Head(q) \in Plays(p) => p \in d
    PROVE  Backed(Tail(q), p, d)
<1> DEFINE t == Tail(q)
           n == Len(q)
<1>1. /\ n \in Nat \ {0} /\ DOMAIN q = 1..n /\ DOMAIN t = 1..(n - 1)
      /\ \A i \in 1..(n - 1) : t[i] = q[i + 1]
      /\ Head(q) = q[1]
  BY TailIs
<1> HIDE DEF t, n
<1> SUFFICES ASSUME NEW k \in 1..(n - 1), t[k] \in Puts(p)
             PROVE  \/ \E j \in 1..(n - 1) : k < j /\ t[j] \in Plays(p)
                    \/ k > 1 /\ t[k - 1] \in Plays(p)
                    \/ k = 1 /\ p \in d
  BY <1>1 DEF Backed, t
<1> DEFINE l == k + 1
<1>2. l \in 1..n /\ q[l] \in Puts(p) /\ l - 1 = k /\ l # 1 /\ l = k + 1
  BY <1>1
<1> HIDE DEF l
<1>3. CASE \E j \in 1..n : l < j /\ q[j] \in Plays(p)
  <2>1. PICK j \in 1..n : l < j /\ q[j] \in Plays(p)  BY <1>3
  <2>2. j - 1 \in 1..(n - 1) /\ j - 1 + 1 = j /\ k < j - 1  BY <1>1, <1>2, <2>1
  <2>3. t[j - 1] \in Plays(p)  BY <1>1, <2>1, <2>2
  <2> QED  BY <2>2, <2>3
<1>4. CASE q[k] \in Plays(p)
  <2>1. CASE k = 1  BY <1>1, <1>4, <2>1
  <2>2. CASE k # 1
    <3>1. k > 1 /\ k - 1 \in 1..(n - 1) /\ k - 1 + 1 = k  BY <1>1, <2>2
    <3> QED  BY <1>1, <1>4, <3>1
  <2> QED  BY <2>1, <2>2
<1>5. \/ \E j \in 1..n : l < j /\ q[j] \in Plays(p)
      \/ q[l - 1] \in Plays(p)
  BY <1>1, <1>2 DEF Backed
<1> QED  BY <1>2, <1>3, <1>4, <1>5

LEMMA BackedAppend ==
    ASSUME NEW q \in Seq(Request), NEW m \in Request, NEW p, NEW c,
           \/ Backed(q, p, c) /\ m \notin Puts(p)
           \/ m \in Plays(p)
           \/ /\ m \in Puts(p) /\ Backed(q, p, c)
              /\ \E r \in Seq(Request) : \E s \in Plays(p) : q = Append(r, s)
    PROVE  Backed(Append(q, m), p, c)
<1> DEFINE n == Len(q)
           a == Append(q, m)
<1>1. /\ n \in Nat /\ DOMAIN q = 1..n /\ DOMAIN a = 1..(n + 1)
      /\ \A i \in 1..n : a[i] = q[i]
      /\ a[n + 1] = m
  BY AppendIs
<1>2. ASSUME NEW r \in Seq(Request), NEW s \in Plays(p), q = Append(r, s)
      PROVE  n > 0 /\ q[n] \in Plays(p)
  <2>1. s \in Request  BY DEF Plays
  <2> QED  BY <1>2, <2>1, AppendProperties, LenProperties
<1> HIDE DEF n, a
<1>3. /\ \A i \in 1..(n + 1) : i \in 1..n \/ i = n + 1
      /\ \A i \in 1..n : i \in 1..(n + 1) /\ i < n + 1
      /\ \A i \in 1..n : i > 1 => i - 1 \in 1..n
      /\ n + 1 - 1 = n /\ n + 1 \in 1..(n + 1)
  BY <1>1
<1> SUFFICES ASSUME NEW k \in 1..(n + 1), a[k] \in Puts(p)
             PROVE  \/ \E j \in 1..(n + 1) : k < j /\ a[j] \in Plays(p)
                    \/ k > 1 /\ a[k - 1] \in Plays(p)
                    \/ k = 1 /\ p \in c
  BY <1>1 DEF Backed, a
<1>4. CASE Backed(q, p, c) /\ k # n + 1
  <2>1. k \in 1..n /\ q[k] \in Puts(p)  BY <1>1, <1>3, <1>4
  <2>2. CASE \E j \in 1..n : k < j /\ q[j] \in Plays(p)
    BY <1>1, <1>3, <2>2
  <2>3. CASE k > 1 /\ q[k - 1] \in Plays(p)
    BY <1>1, <1>3, <2>1, <2>3
  <2> QED  BY <1>1, <1>4, <2>1, <2>2, <2>3 DEF Backed
<1>5. CASE k = n + 1 /\ m \notin Plays(p)
  <2>1. m \in Puts(p)  BY <1>1, <1>5
  <2>2. n > 0 /\ q[n] \in Plays(p)  BY <1>2, <1>5, <2>1
  <2>3. n \in 1..n  BY <1>1, <2>2
  <2> QED  BY <1>1, <1>3, <1>5, <2>2, <2>3
<1>6. CASE m \in Plays(p)
  <2>1. k # n + 1  BY <1>1, <1>6, Kinds
  <2> QED  BY <1>1, <1>3, <1>6, <2>1
<1> QED  BY <1>4, <1>5, <1>6

LEMMA BackedNone ==
    ASSUME NEW q, NEW p, NEW c, ~Has(q, Plays(p) \cup Puts(p))
    PROVE  Backed(q, p, c)
  BY DEF Has, Backed
-----------------------------------------------------------------------------
(* What the db, its SQL connections and the table say about the item.      *)

LEMMA PendingAppend ==
    ASSUME NEW T, NEW q \in Seq(T), NEW m \in T, NEW p
    PROVE  Pending(Append(q, m), p) <=>
               Pending(q, p) \/ (m.op = "ITEM" /\ m.p = p /\ m.s # 0)
<1>1. \A i \in 1..(Len(q) + 1) : i \in 1..Len(q) \/ i = Len(q) + 1
  BY AppendIs
<1>2. Len(q) + 1 \in 1..(Len(q) + 1) /\ \A i \in 1..Len(q) : i \in 1..(Len(q) + 1)
  BY AppendIs
<1> QED  BY <1>1, <1>2, AppendIs DEF Pending

LEMMA PendingTail ==
    ASSUME NEW T, NEW q \in Seq(T), q # <<>>, NEW p, ~Pending(q, p)
    PROVE  ~Pending(Tail(q), p) /\ ~(Head(q).op = "ITEM" /\ Head(q).p = p /\ Head(q).s # 0)
<1>1. \A i \in 1..(Len(q) - 1) : i + 1 \in 1..Len(q)
  BY TailIs
<1> QED  BY <1>1, TailIs DEF Pending

LEMMA EndsAppend ==
    ASSUME NEW q \in Seq(Statement), NEW m \in Statement, NEW r, NEW z
    PROVE  /\ m.op \in WriteOp => Ends(Append(q, m), r, m.x)
           /\ m.op \notin WriteOp /\ Ends(q, r, z) => Ends(Append(q, m), r, z)
<1>1. Len(Append(q, m)) + 1 = Len(q) + 2
  BY AppendProperties, LenProperties
<1>2. \A v \in Saved : Says(Append(q, m), WriteOp, r, Len(q) + 2, v) =>
          IF m.op \in WriteOp THEN v = m.x ELSE Says(q, WriteOp, r, Len(q) + 1, v)
  BY SaysAppendNew
<1> QED  BY <1>1, <1>2 DEF Ends

LEMMA EndsTail ==
    ASSUME NEW q \in Seq(Statement), q # <<>>, NEW r, NEW z, Ends(q, r, z)
    PROVE  Ends(Tail(q), IF Head(q).op \in WriteOp THEN Head(q).x ELSE r, z)
<1>1. Len(Tail(q)) + 1 = Len(q) /\ Len(q) \in Nat \ {0}
  BY TailIs, HeadTailProperties
<1>2. \A v \in Saved :
         Says(Tail(q), WriteOp, IF Head(q).op \in WriteOp THEN Head(q).x ELSE r, Len(q), v)
         => Says(q, WriteOp, r, Len(q) + 1, v)
  BY <1>1, SaysTail
<1> QED  BY <1>1, <1>2 DEF Ends

LEMMA ViewsAppend ==
    ASSUME NEW q \in Seq(Statement), NEW m \in Statement, NEW r, NEW z,
           Views(q, r, z), m.op = "ITEM" => Ends(q, r, z)
    PROVE  Views(Append(q, m), r, z)
<1> DEFINE n == Len(q)
           a == Append(q, m)
<1>1. /\ n \in Nat /\ DOMAIN q = 1..n /\ DOMAIN a = 1..(n + 1)
      /\ \A i \in 1..n : a[i] = q[i]
      /\ a[n + 1] = m
  BY AppendIs
<1>2. \A v \in Saved : \A k \in 1..(n + 1) :
          Says(a, WriteOp, r, k, v) => Says(q, WriteOp, r, k, v)
  BY SaysAppendBefore
<1> HIDE DEF n, a
<1> SUFFICES ASSUME NEW k \in 1..(n + 1), a[k].op = "ITEM", a[k].s # 0,
                    NEW v \in Saved, Says(a, WriteOp, r, k, v)
             PROVE  Matches(v, a[k].p, "inv") = Matches(z, a[k].p, "inv")
  BY <1>1 DEF Views, a
<1>3. Says(q, WriteOp, r, k, v)  BY <1>2
<1>4. CASE k = n + 1
  <2>1. Ends(q, r, z)  BY <1>1, <1>4
  <2>2. v = z  BY <1>3, <1>4, <2>1 DEF Ends, n
  <2> QED  BY <2>2
<1>5. CASE k # n + 1
  <2>1. k \in 1..n  BY <1>1, <1>5
  <2> QED  BY <1>1, <1>3, <2>1 DEF Views
<1> QED  BY <1>4, <1>5

LEMMA ViewsTail ==
    ASSUME NEW q \in Seq(Statement), q # <<>>, NEW r, NEW z, Views(q, r, z)
    PROVE  Views(Tail(q), IF Head(q).op \in WriteOp THEN Head(q).x ELSE r, z)
<1> DEFINE n == Len(q)
           t == Tail(q)
           y == IF Head(q).op \in WriteOp THEN Head(q).x ELSE r
<1>1. /\ n \in Nat \ {0} /\ DOMAIN q = 1..n /\ DOMAIN t = 1..(n - 1)
      /\ \A i \in 1..(n - 1) : t[i] = q[i + 1]
  BY TailIs
<1>2. \A v \in Saved : \A k \in Nat \ {0} :
          Says(t, WriteOp, y, k, v) => Says(q, WriteOp, r, k + 1, v)
  BY SaysTail
<1> HIDE DEF n, t, y
<1> SUFFICES ASSUME NEW k \in 1..(n - 1), t[k].op = "ITEM", t[k].s # 0,
                    NEW v \in Saved, Says(t, WriteOp, y, k, v)
             PROVE  Matches(v, t[k].p, "inv") = Matches(z, t[k].p, "inv")
  BY <1>1 DEF Views, t, y
<1>3. k \in Nat \ {0} /\ k + 1 \in 1..n /\ t[k] = q[k + 1]  BY <1>1
<1>4. Says(q, WriteOp, r, k + 1, v)  BY <1>2, <1>3
<1> QED  BY <1>1, <1>3, <1>4 DEF Views

(* A change of the last save that no SELECT can see.                       *)
LEMMA ViewsUnseen ==
    ASSUME NEW q, NEW r, NEW y, NEW z, Views(q, r, y),
           \A p \in Carrier(y) \cup Carrier(z) : ~Pending(q, p)
    PROVE  Views(q, r, z)
<1> SUFFICES ASSUME NEW k \in DOMAIN q, q[k].op = "ITEM", q[k].s # 0
             PROVE  Matches(y, q[k].p, "inv") = Matches(z, q[k].p, "inv")
  BY DEF Views
<1>1. q[k].p \notin Carrier(y) /\ q[k].p \notin Carrier(z)
  BY DEF Pending
<1> QED  BY <1>1 DEF Carrier, Matches

LEMMA AnsweredUnseen ==
    ASSUME NEW q, NEW y, NEW z, Answered(q, y),
           \A p \in Carrier(y) \cup Carrier(z) : ~Pending(q, p)
    PROVE  Answered(q, z)
<1> SUFFICES ASSUME NEW k \in DOMAIN q, q[k].op = "ITEM", q[k].s # 0
             PROVE  Matches(y, q[k].p, "inv") = Matches(z, q[k].p, "inv")
  BY DEF Answered
<1>1. q[k].p \notin Carrier(y) /\ q[k].p \notin Carrier(z)
  BY DEF Pending
<1> QED  BY <1>1 DEF Carrier, Matches

LEMMA WellWrittenAppend ==
    ASSUME NEW q \in Seq(Statement), NEW m \in Statement, WellWritten(q),
           m.op \in WriteOp => (m.op = "DELETE" <=> m.x = NoItem)
    PROVE  WellWritten(Append(q, m))
<1>1. \A i \in 1..(Len(q) + 1) : i \in 1..Len(q) \/ i = Len(q) + 1
  BY AppendIs
<1> QED  BY <1>1, AppendIs DEF WellWritten

LEMMA WellWrittenTail ==
    ASSUME NEW q \in Seq(Statement), q # <<>>, WellWritten(q)
    PROVE  WellWritten(Tail(q))
<1>1. \A i \in 1..(Len(q) - 1) : i + 1 \in 1..Len(q)
  BY TailIs
<1> QED  BY <1>1, TailIs DEF WellWritten

LEMMA AnsweredAppend ==
    ASSUME NEW q \in Seq(SqlAnswer), NEW m \in SqlAnswer, NEW z, Answered(q, z),
           m.op = "ITEM" /\ m.s # 0 => m.x = Matches(z, m.p, "inv")
    PROVE  Answered(Append(q, m), z)
<1>1. \A i \in 1..(Len(q) + 1) : i \in 1..Len(q) \/ i = Len(q) + 1
  BY AppendIs
<1> QED  BY <1>1, AppendIs DEF Answered

LEMMA AnsweredTail ==
    ASSUME NEW q \in Seq(SqlAnswer), q # <<>>, NEW z, Answered(q, z)
    PROVE  Answered(Tail(q), z)
<1>1. \A i \in 1..(Len(q) - 1) : i + 1 \in 1..Len(q)
  BY TailIs
<1> QED  BY <1>1, TailIs DEF Answered
-----------------------------------------------------------------------------
(* What the db's steps do to the store.                                    *)

LEMMA UnseenKeeps ==
    ASSUME NEW q, NEW as, NEW y, NEW z, Unseen(q, as, y, z)
    PROVE  /\ Answered(as, y) => Answered(as, z)
           /\ \A r : Views(q, r, y) => Views(q, r, z)
  BY ViewsUnseen, AnsweredUnseen DEF Unseen

LEMMA WriteSays ==
    ASSUME NEW z \in Saved
    PROVE  /\ Write(z) \in Statement /\ Write(z).x = z /\ Write(z).op \in WriteOp
           /\ Write(z).op = "DELETE" <=> z = NoItem
           /\ Write(z).op # "REPLACE" <=> z = NoItem
           /\ Write(z).op # "ITEM"
  BY WriteType DEF Write, M, WriteOp, Saved

(* A query is queued.  A SELECT of items while unwritten data waits would  *)
(* miss it.                                                                *)
LEMMA StoreAsk ==
    ASSUME NEW q \in Seq(Statement), NEW m \in Statement, m.op \in QueryOp,
           NEW c, NEW a, NEW r, NEW z, NEW as,
           Store(c, q, a, r, z, as), m.op = "ITEM" => ~c.dirty
    PROVE  Append(q, m) \in Seq(Statement) /\ Store(c, Append(q, m), a, r, z, as)
<1>1. m.op \notin WriteOp  BY DEF QueryOp, WriteOp
<1>2. c.dirty => ~Pending(Append(q, m), c.owner)
  BY PendingAppend DEF Store
<1>3. ~c.dirty /\ a = 0 => Ends(Append(q, m), r, z)
  BY <1>1, EndsAppend DEF Store
<1>4. (\A k \in DOMAIN Append(q, m) : Append(q, m)[k].op # "REPLACE")
      => \A k \in DOMAIN q : q[k].op # "REPLACE"
  <2>1. \A i \in 1..Len(q) : i \in 1..(Len(q) + 1)  BY AppendIs
  <2> QED  BY <2>1, AppendIs
<1>5. a = 0 => Views(Append(q, m), r, z)
  BY ViewsAppend DEF Store
<1>6. WellWritten(Append(q, m))
  BY <1>1, WellWrittenAppend DEF Store
<1> QED  BY <1>2, <1>3, <1>4, <1>5, <1>6, AppendProperties DEF Store

(* An answer is taken.                                                     *)
LEMMA StorePop ==
    ASSUME NEW as \in Seq(SqlAnswer), as # <<>>,
           NEW c, NEW q, NEW a, NEW r, NEW z, Store(c, q, a, r, z, as)
    PROVE  Store(c, q, a, r, z, Tail(as))
<1>1. c.dirty => ~Pending(Tail(as), c.owner)
  BY PendingTail DEF Store
<1>2. Answered(Tail(as), z)
  BY AnsweredTail DEF Store
<1> QED  BY <1>1, <1>2 DEF Store

(* The last save is written.                                               *)
LEMMA StoreWrite ==
    ASSUME NEW q \in Seq(Statement), NEW y, NEW z \in Saved, NEW b, NEW c,
           NEW a, NEW r, NEW as,
           Store(b, q, a, r, y, as), Unseen(q, as, y, z),
           ~c.dirty, c.dead => z = NoItem
    PROVE  Store(c, Append(q, Write(z)), a, r, z, as)
<1> DEFINE w == Write(z)
<1>1. /\ w \in Statement /\ w.x = z /\ w.op \in WriteOp /\ w.op # "ITEM"
      /\ w.op = "DELETE" <=> z = NoItem
      /\ w.op # "REPLACE" <=> z = NoItem
  BY WriteSays
<1> HIDE DEF w
<1>2. Ends(Append(q, w), r, z)
  BY <1>1, EndsAppend
<1>3. (\A k \in DOMAIN Append(q, w) : Append(q, w)[k].op # "REPLACE") => z = NoItem
  <2>1. Len(q) + 1 \in 1..(Len(q) + 1)  BY <1>1, AppendIs
  <2> QED  BY <1>1, <2>1, AppendIs
<1>4. a = 0 => Views(Append(q, w), r, z)
  BY <1>1, UnseenKeeps, ViewsAppend DEF Store
<1>5. WellWritten(Append(q, w))
  BY <1>1, WellWrittenAppend DEF Store
<1>6. Answered(as, z)
  BY UnseenKeeps DEF Store
<1> QED  BY <1>2, <1>3, <1>4, <1>5, <1>6 DEF Store, w

(* The last save waits in the cache.                                       *)
LEMMA StoreDirty ==
    ASSUME NEW q, NEW y, NEW z, NEW b, NEW c, NEW a, NEW r, NEW as,
           Store(b, q, a, r, y, as), Unseen(q, as, y, z),
           c.dirty, ~c.dead, Cached(c) = z,
           ~Pending(q, c.owner), ~Pending(as, c.owner)
    PROVE  Store(c, q, a, r, z, as)
  BY UnseenKeeps DEF Store

(* A cache object without unwritten data changes.                          *)
LEMMA StoreClean ==
    ASSUME NEW q, NEW z, NEW b, NEW c, NEW a, NEW r, NEW as,
           Store(b, q, a, r, z, as), ~b.dirty, ~c.dirty, c.dead => z = NoItem
    PROVE  Store(c, q, a, r, z, as)
  BY DEF Store

(* The cache is flushed.                                                   *)
LEMMA StoreFlush ==
    ASSUME NEW q \in Seq(Statement), NEW z \in Saved, NEW b, NEW c,
           NEW a, NEW r, NEW as,
           Store(b, q, a, r, z, as), ~c.dirty, c.dead => b.dead
    PROVE  Store(c, q \o FlushQuery(b), a, r, z, as)
<1>0. c.dead => z = NoItem  BY DEF Store
<1>1. CASE b.dirty
  <2>1. FlushQuery(b) = <<Write(z)>>  BY <1>1 DEF FlushQuery, Store
  <2>2. q \o <<Write(z)>> = Append(q, Write(z))
    BY WriteSays, AppendIsConcat
  <2>3. Unseen(q, as, z, z)  BY DEF Unseen
  <2>4. Store(c, Append(q, Write(z)), a, r, z, as)
    BY <1>0, <2>3, StoreWrite
  <2> QED  BY <2>1, <2>2, <2>4
<1>2. CASE ~b.dirty
  <2>1. FlushQuery(b) = <<>>  BY <1>2 DEF FlushQuery
  <2>2. q \o <<>> = q  BY ConcatEmptySeq
  <2>3. Store(c, q, a, r, z, as)  BY <1>0, <1>2, StoreClean
  <2> QED  BY <2>1, <2>2, <2>3
<1> QED  BY <1>1, <1>2

(* The item is deleted on the other connection.                            *)
LEMMA StoreAsync ==
    ASSUME NEW q, NEW y, NEW c, NEW a \in Nat, NEW r, NEW as,
           Store(c, q, a, r, y, as), Unseen(q, as, y, NoItem), ~c.dirty
    PROVE  Store(c, q, a + 1, r, NoItem, as)
<1>1. a + 1 # 0  OBVIOUS
<1> QED  BY <1>1, UnseenKeeps DEF Store

(* The main connection executes a write, or a SELECT.                      *)
LEMMA StoreExecWrite ==
    ASSUME NEW q \in Seq(Statement), q # <<>>, Head(q).op \in WriteOp,
           NEW c, NEW r, NEW z, NEW as, Store(c, q, 0, r, z, as)
    PROVE  Store(c, Tail(q), 0, Head(q).x, z, as)
<1>1. c.dirty => ~Pending(Tail(q), c.owner)
  BY PendingTail DEF Store
<1>2. ~c.dirty => Ends(Tail(q), Head(q).x, z)
  BY EndsTail DEF Store
<1>3. Views(Tail(q), Head(q).x, z)
  BY ViewsTail DEF Store
<1>4. WellWritten(Tail(q))
  BY WellWrittenTail DEF Store
<1>5. /\ c.dirty => Cached(c) = z /\ ~Pending(as, c.owner)
      /\ c.dead => z = NoItem
      /\ Answered(as, z)
  BY DEF Store
<1>6. ~(0 > 0)  OBVIOUS
<1> QED  BY <1>1, <1>2, <1>3, <1>4, <1>5, <1>6 DEF Store

LEMMA StoreExecSelect ==
    ASSUME NEW q \in Seq(Statement), q # <<>>, Head(q).op \notin WriteOp,
           NEW c, NEW r \in Saved, NEW z, NEW as \in Seq(SqlAnswer),
           Store(c, q, 0, r, z, as),
           NEW m \in SqlAnswer, m.op = Head(q).op, m.p = Head(q).p, m.s = Head(q).s,
           m.op = "ITEM" => m.x = Matches(r, m.p, "inv")
    PROVE  Store(c, Tail(q), 0, r, z, Append(as, m))
<1>1. c.dirty => ~Pending(Tail(q), c.owner) /\ ~Pending(Append(as, m), c.owner)
  <2> SUFFICES ASSUME c.dirty
               PROVE  ~Pending(Tail(q), c.owner) /\ ~Pending(Append(as, m), c.owner)
    OBVIOUS
  <2>1. ~Pending(q, c.owner) /\ ~Pending(as, c.owner)  BY DEF Store
  <2>2. ~Pending(Tail(q), c.owner)
        /\ ~(Head(q).op = "ITEM" /\ Head(q).p = c.owner /\ Head(q).s # 0)
    BY <2>1, PendingTail
  <2>3. ~(m.op = "ITEM" /\ m.p = c.owner /\ m.s # 0)  BY <2>2
  <2>4. Pending(Append(as, m), c.owner) <=>
            Pending(as, c.owner) \/ (m.op = "ITEM" /\ m.p = c.owner /\ m.s # 0)
    BY PendingAppend
  <2> QED  BY <2>1, <2>2, <2>3, <2>4
<1>2. ~c.dirty => Ends(Tail(q), r, z)
  BY EndsTail DEF Store
<1>3. Views(Tail(q), r, z)
  BY ViewsTail DEF Store
<1>4. WellWritten(Tail(q))
  BY WellWrittenTail DEF Store
<1>5. Answered(Append(as, m), z)
  <2>1. ASSUME m.op = "ITEM", m.s # 0 PROVE m.x = Matches(z, m.p, "inv")
    <3>1. 1 \in DOMAIN q /\ q[1] = Head(q) /\ DOMAIN q = 1..Len(q)  BY TailIs
    <3>2. \A i \in DOMAIN q : ~(i < 1)  BY <3>1
    <3>3. Says(q, WriteOp, r, 1, r)  BY <3>2 DEF Says
    <3>4. Matches(r, q[1].p, "inv") = Matches(z, q[1].p, "inv")
      BY <2>1, <3>1, <3>3 DEF Store, Views
    <3> QED  BY <2>1, <3>1, <3>4
  <2> QED  BY <2>1, AnsweredAppend DEF Store
<1>6. /\ c.dirty => Cached(c) = z
      /\ c.dead => z = NoItem
  BY DEF Store
<1>7. ~(0 > 0)  OBVIOUS
<1> QED  BY <1>1, <1>2, <1>3, <1>4, <1>5, <1>6, <1>7 DEF Store

(* The other connection deletes the item, with no write in its way.        *)
LEMMA StoreExecAsync ==
    ASSUME NEW q \in Seq(Statement), NEW c, NEW a \in Nat, a > 0, NEW r, NEW z, NEW as,
           Store(c, q, a, r, z, as), \A k \in DOMAIN q : q[k].op # "REPLACE"
    PROVE  Store(c, q, a - 1, NoItem, z, as)
<1>1. \A i \in DOMAIN q : q[i].op \in WriteOp => q[i].x = NoItem
  BY DEF Store, WellWritten, WriteOp
<1>2. \A k, v : Says(q, WriteOp, NoItem, k, v) => v = NoItem
  BY <1>1, SaysSame
<1>3. ~c.dirty => z = NoItem
  BY DEF Store
<1>4. ~c.dirty => Ends(q, NoItem, z)
  BY <1>2, <1>3 DEF Ends
<1>5. Views(q, NoItem, z)
  <2> SUFFICES ASSUME NEW k \in DOMAIN q, q[k].op = "ITEM", q[k].s # 0
               PROVE  Matches(NoItem, q[k].p, "inv") = Matches(z, q[k].p, "inv")
    BY <1>2 DEF Views
  <2>1. CASE ~c.dirty  BY <1>3, <2>1
  <2>2. CASE c.dirty
    <3>1. z = Cached(c) /\ q[k].p # c.owner  BY <2>2 DEF Store, Pending
    <3> QED  BY <3>1 DEF Cached, Matches, InInv, NoItem
  <2> QED  BY <2>1, <2>2
<1> QED  BY <1>3, <1>4, <1>5 DEF Store
-----------------------------------------------------------------------------
(* The invariant.                                                          *)

(* What is excused stays excused.                                          *)
LEMMA ExcusesGrow == [Next]_vars => excuses \subseteq excuses'
<1> SUFFICES ASSUME [Next]_vars PROVE excuses \subseteq excuses'  OBVIOUS
<1>1. CASE DbPacket
  BY <1>1
  DEF DbPacket, QUERY_ITEM_SAVE, QUERY_ITEM_DESTROY, QUERY_ITEM_FLUSH,
      QUERY_PLAYER_LOAD, QUERY_PLAYER_SAVE, QUERY_LOGOUT, QUERY_SAFEBOX_LOAD,
      QUERY_FLUSH_CACHE, Saving, hist
<1>2. CASE DbResult
  BY <1>2
  DEF DbResult, ResultWithoutPeer, RESULT_PLAYER_LOAD, RESULT_ITEM_LOAD,
      RESULT_SAFEBOX_LOAD, hist
<1>3. CASE DbTimer \/ Shutdown
  BY <1>3 DEF DbTimer, UpdateItemCache, UpdatePlayerCache, UpdateLogoutPlayer, Shutdown, hist
<1>4. CASE MainExecutes \/ AsyncExecutes
  BY <1>4 DEF MainExecutes, AsyncExecutes
<1>5. CASE GameItem \/ ItemManagerUpdate
  BY <1>5
  DEF GameItem, CreateItem, ModifyItem, DropItem, DestroyItem, SafeboxCheckin,
      SafeboxCheckout, PickupItem, ExchangeItem, ItemOp, ItemManagerUpdate, hist
<1>6. CASE GameSession
  BY <1>6
  DEF GameSession, CharacterSelect, SavePlayer, Disconnect, ReqSafeboxLoad,
      CloseSafebox, FlushCommand, hist
<1>7. CASE GameAnswer
  BY <1>7
  DEF GameAnswer, AnswerIgnored, PlayerLoad, ItemLoad, SafeboxLoad,
      SafeboxWrongPassword, hist
<1>8. CASE GameCrash  BY <1>8 DEF GameCrash
<1>9. CASE UNCHANGED vars  BY <1>9 DEF vars, hist
<1> QED
  BY <1>1, <1>2, <1>3, <1>4, <1>5, <1>6, <1>7, <1>8, <1>9 DEF Next
-----------------------------------------------------------------------------
(* Session numbers.                                                        *)

LEMMA BoundedIs ==
    ASSUME NEW T, NEW q \in Seq(T), NEW n, Bounded(q, n)
    PROVE  /\ q # <<>> => Bounded(Tail(q), n) /\ Head(q).s <= n
           /\ \A r \in Seq(T) : Bounded(r, n) => Bounded(q \o r, n)
           /\ \A m \in T : m.s <= n => Bounded(Append(q, m), n)
<1>1. ASSUME q # <<>> PROVE Bounded(Tail(q), n) /\ Head(q).s <= n
  <2>1. \A i \in 1..(Len(q) - 1) : i + 1 \in 1..Len(q)  BY <1>1, TailIs
  <2> QED  BY <1>1, <2>1, TailIs DEF Bounded
<1>2. ASSUME NEW r \in Seq(T), Bounded(r, n) PROVE Bounded(q \o r, n)
  <2>1. /\ Len(q) \in Nat /\ Len(r) \in Nat
        /\ DOMAIN q = 1..Len(q) /\ DOMAIN r = 1..Len(r)
        /\ DOMAIN (q \o r) = 1..(Len(q) + Len(r))
        /\ \A i \in 1..(Len(q) + Len(r)) :
               (q \o r)[i] = IF i <= Len(q) THEN q[i] ELSE r[i - Len(q)]
    BY LenProperties, ConcatProperties
  <2>2. \A i \in 1..(Len(q) + Len(r)) :
            IF i <= Len(q) THEN i \in 1..Len(q) ELSE i - Len(q) \in 1..Len(r)
    BY <2>1
  <2> QED  BY <1>2, <2>1, <2>2 DEF Bounded
<1>3. ASSUME NEW m \in T, m.s <= n PROVE Bounded(Append(q, m), n)
  <2>1. \A i \in 1..(Len(q) + 1) : i \in 1..Len(q) \/ i = Len(q) + 1  BY AppendIs
  <2> QED  BY <1>3, <2>1, AppendIs DEF Bounded
<1> QED  BY <1>1, <1>2, <1>3

(* Short queues.                                                           *)
LEMMA BoundedShort ==
    ASSUME NEW n
    PROVE  /\ Bounded(<<>>, n)
           /\ \A m : m.s <= n => Bounded(<<m>>, n)
           /\ \A a, b : a.s <= n /\ b.s <= n => Bounded(<<a, b>>, n)
  BY DEF Bounded

LEMMA NumberedDbPacket ==
    ASSUME TypeOK, Numbered, DbPacket PROVE Numbered'
<1> USE ItemAssumption
<1> DEFINE n == NPlayers + nSess
           h == Head(toDb)
<1>1. toDb # <<>> /\ toDb' = Tail(toDb) /\ UNCHANGED <<sess, nSess, results>>
  BY DEF DbPacket, QUERY_ITEM_SAVE, QUERY_ITEM_DESTROY, QUERY_ITEM_FLUSH,
         QUERY_PLAYER_LOAD, QUERY_PLAYER_SAVE, QUERY_LOGOUT, QUERY_SAFEBOX_LOAD,
         QUERY_FLUSH_CACHE, Packet, Consume, game, count, sql
<1>2. n \in Nat /\ 0 <= n
  BY DEF TypeOK
<1>3. toDb \in Seq(Request) /\ main \in Seq(Statement) /\ toGame \in Seq(Reply)
  BY DEF TypeOK, SqlOK
<1>4. /\ h \in Request /\ h \in Message(RequestOp) /\ h.s \in Nat
      /\ h.x \in Data \cup {NoItem}
  BY <1>1, <1>3, HeadTailProperties DEF Request, Message
<1>5. /\ Bounded(toDb, n) /\ Bounded(main, n) /\ Bounded(toGame, n) /\ Bounded(results, n)
      /\ \A p \in Pids : sess[p] <= n
  BY DEF Numbered
<1>6. Bounded(Tail(toDb), n) /\ h.s <= n
  BY <1>1, <1>3, <1>5, BoundedIs
<1> HIDE DEF n
<1>7. \A q \in Seq(Statement) : Bounded(q, n) /\ Enqueue(q) => Bounded(main', n)
  BY <1>3, <1>5, BoundedIs DEF Enqueue
<1>8. \A x \in Data \cup {NoItem} :
         Bounded(<<Write(x)>>, n) /\ <<Write(x)>> \in Seq(Statement)
  <2>1. \A x : Write(x).s = 0  BY DEF Write, M
  <2> QED  BY <1>2, <2>1, BoundedShort, WriteType, Sequences1
<1>9. Bounded(<<>>, n) /\ <<>> \in Seq(Statement)
  BY BoundedShort, EmptySeq
<1>10. Bounded(FlushQuery(cache), n) /\ FlushQuery(cache) \in Seq(Statement)
  BY <1>8, <1>9, FlushQueryType, CachedType DEF FlushQuery, TypeOK, DbOK
<1>11. ASSUME Bounded(main', n), Bounded(toGame', n) PROVE Numbered'
  BY <1>1, <1>5, <1>6, <1>11 DEF Numbered, n
<1>12. CASE QUERY_ITEM_SAVE
  <2>1. toGame' = toGame /\ h.x \in Data
    BY <1>12, HeadOfToDb DEF QUERY_ITEM_SAVE, Request
  <2>2. Enqueue(<<>>) \/ Enqueue(<<Write(h.x)>>)
    BY <1>12 DEF QUERY_ITEM_SAVE, PutItemCache
  <2> QED  BY <1>4, <1>5, <1>7, <1>8, <1>9, <1>11, <2>1, <2>2
<1>13. CASE QUERY_ITEM_DESTROY
  <2>1. toGame' = toGame /\ (UNCHANGED main \/ Enqueue(<<>>) \/ Enqueue(<<Write(NoItem)>>))
    BY <1>13 DEF QUERY_ITEM_DESTROY
  <2> QED  BY <1>5, <1>7, <1>8, <1>9, <1>11, <2>1
<1>14. CASE QUERY_ITEM_FLUSH
  <2>1. toGame' = toGame /\ (UNCHANGED main \/ Enqueue(FlushQuery(cache)))
    BY <1>14 DEF QUERY_ITEM_FLUSH, Flush
  <2> QED  BY <1>5, <1>7, <1>10, <1>11, <2>1
<1>15. CASE QUERY_FLUSH_CACHE
  <2>1. toGame' = toGame /\ (UNCHANGED main \/ Enqueue(FlushQuery(cache)))
    BY <1>15 DEF QUERY_FLUSH_CACHE, FlushItemCacheSet
  <2> QED  BY <1>5, <1>7, <1>10, <1>11, <2>1
<1>16. CASE QUERY_PLAYER_SAVE \/ QUERY_LOGOUT
  <2>1. UNCHANGED <<toGame, main>>
    BY <1>16 DEF QUERY_PLAYER_SAVE, QUERY_LOGOUT, sql
  <2> QED  BY <1>5, <1>11, <2>1
<1>17. CASE QUERY_SAFEBOX_LOAD
  <2> DEFINE m == M("SAFEBOX", h.p, h.s, NoItem)
  <2>0. Packet("SAFEBOX_LOAD")  BY <1>17 DEF QUERY_SAFEBOX_LOAD
  <2>1. toGame' = toGame /\ Enqueue(<<m>>) /\ h.p \in Pids
    <3>1. h \in Request /\ h.op = "SAFEBOX_LOAD"  BY <2>0, HeadOfToDb
    <3>2. h.p \in Pids  BY <3>1 DEF Request
    <3> QED  BY <1>17, <3>2 DEF QUERY_SAFEBOX_LOAD
  <2>2. m \in Statement /\ m.s = h.s
    BY <1>4, <2>1, QueryType DEF M, QueryOp
  <2>3. Bounded(<<m>>, n) /\ <<m>> \in Seq(Statement)
    BY <1>6, <2>2, BoundedShort, Sequences1
  <2> QED  BY <1>5, <1>7, <1>11, <2>1, <2>3
<1>18. CASE QUERY_PLAYER_LOAD
  <2> DEFINE ask == M("PLAYER", h.p, h.s, NoItem)
             items == M("ITEM", h.p, h.s, NoItem)
             ok == M("PLAYER_LOAD_SUCCESS", h.p, h.s, NoItem)
             load == M("ITEM_LOAD", h.p, h.s, ItemsInSet(h.p))
  <2>0. Packet("PLAYER_LOAD")  BY <1>18 DEF QUERY_PLAYER_LOAD
  <2>1. h.p \in Pids
    <3>1. h \in Request /\ h.op = "PLAYER_LOAD"  BY <2>0, HeadOfToDb
    <3> QED  BY <3>1 DEF Request
  <2>2. ItemsInSet(h.p) \in Data \cup {NoItem}
    BY CachedType DEF ItemsInSet, TypeOK, DbOK
  <2>3. ask \in Statement /\ items \in Statement /\ ok \in Reply /\ load \in Reply
    BY <1>4, <2>1, <2>2, QueryType, ReplyType DEF QueryOp, AnswerOp
  <2>4. ask.s <= n /\ items.s <= n /\ ok.s <= n /\ load.s <= n
    BY <1>6 DEF M
  <2>5. UNCHANGED main \/ Enqueue(<<ask>> \o <<items>>) \/ Enqueue(<<>> \o <<items>>)
    BY <1>18 DEF QUERY_PLAYER_LOAD
  <2>6. UNCHANGED toGame \/ toGame' = toGame \o <<ok, load>> \/ toGame' = Append(toGame, ok)
    BY <1>18 DEF QUERY_PLAYER_LOAD, Answer
  <2> HIDE DEF ask, items, ok, load
  <2>7. /\ <<ask>> \in Seq(Statement) /\ <<items>> \in Seq(Statement)
        /\ Bounded(<<ask>>, n) /\ Bounded(<<items>>, n)
        /\ <<ok, load>> \in Seq(Reply) /\ Bounded(<<ok, load>>, n)
    BY <2>3, <2>4, BoundedShort, Sequences1
  <2>8. /\ <<ask>> \o <<items>> \in Seq(Statement) /\ Bounded(<<ask>> \o <<items>>, n)
        /\ <<>> \o <<items>> \in Seq(Statement) /\ Bounded(<<>> \o <<items>>, n)
    BY <1>9, <2>7, BoundedIs, ConcatProperties
  <2>9. Bounded(main', n)  BY <1>5, <1>7, <2>5, <2>8
  <2>10. Bounded(toGame', n)
    <3>1. Bounded(toGame \o <<ok, load>>, n)  BY <1>3, <1>5, <2>7, BoundedIs
    <3>2. Bounded(Append(toGame, ok), n)  BY <1>3, <1>5, <2>3, <2>4, BoundedIs
    <3> QED  BY <1>5, <2>6, <3>1, <3>2
  <2> QED  BY <1>11, <2>9, <2>10
<1> QED
  BY <1>12, <1>13, <1>14, <1>15, <1>16, <1>17, <1>18 DEF DbPacket

LEMMA NumberedDb ==
    ASSUME TypeOK, Numbered, DbResult \/ DbTimer \/ Shutdown \/ MainExecutes \/ AsyncExecutes
    PROVE  Numbered'
<1> USE ItemAssumption
<1> DEFINE n == NPlayers + nSess
<1>1. UNCHANGED <<sess, nSess, toDb>>
  BY DEF DbResult, ResultWithoutPeer, RESULT_PLAYER_LOAD, RESULT_ITEM_LOAD,
         RESULT_SAFEBOX_LOAD, DbTimer, UpdateItemCache, UpdatePlayerCache,
         UpdateLogoutPlayer, Shutdown, MainExecutes, AsyncExecutes, game, count
<1>2. n \in Nat /\ 0 <= n
  BY DEF TypeOK
<1>3. main \in Seq(Statement) /\ toGame \in Seq(Reply) /\ results \in Seq(SqlAnswer)
  BY DEF TypeOK, SqlOK
<1>5. /\ Bounded(toDb, n) /\ Bounded(main, n) /\ Bounded(toGame, n) /\ Bounded(results, n)
      /\ \A p \in Pids : sess[p] <= n
  BY DEF Numbered
<1> HIDE DEF n
<1>7. \A q \in Seq(Statement) : Bounded(q, n) /\ Enqueue(q) => Bounded(main', n)
  BY <1>3, <1>5, BoundedIs DEF Enqueue
<1>8. \A x \in Data \cup {NoItem} :
         Bounded(<<Write(x)>>, n) /\ <<Write(x)>> \in Seq(Statement)
  <2>1. \A x : Write(x).s = 0  BY DEF Write, M
  <2> QED  BY <1>2, <2>1, BoundedShort, WriteType, Sequences1
<1>9. Bounded(<<>>, n) /\ <<>> \in Seq(Statement)
  BY BoundedShort, EmptySeq
<1>10. Bounded(FlushQuery(cache), n) /\ FlushQuery(cache) \in Seq(Statement)
  BY <1>8, <1>9, FlushQueryType, CachedType DEF FlushQuery, TypeOK, DbOK
<1>11. ASSUME Bounded(main', n), Bounded(toGame', n), Bounded(results', n) PROVE Numbered'
  BY <1>1, <1>5, <1>11 DEF Numbered, n
<1>12. CASE DbTimer \/ Shutdown
  <2>1. UNCHANGED <<toGame, results>> /\ (UNCHANGED main \/ Enqueue(FlushQuery(cache)))
    BY <1>12 DEF DbTimer, UpdateItemCache, UpdatePlayerCache, UpdateLogoutPlayer,
                 Shutdown, Flush, FlushItemCacheSet
  <2> QED  BY <1>5, <1>7, <1>10, <1>11, <2>1
<1>13. CASE DbResult
  <2> DEFINE m == Head(results)
  <2>1. results # <<>> /\ results' = Tail(results)
    BY <1>13 DEF DbResult, ResultWithoutPeer, RESULT_PLAYER_LOAD, RESULT_ITEM_LOAD,
                 RESULT_SAFEBOX_LOAD, Result, PopResult
  <2>2. Bounded(results', n) /\ m.s <= n
    BY <1>3, <1>5, <2>1, BoundedIs
  <2>3. /\ m \in Message(QueryOp) /\ m.p \in Pids /\ m.x \in Data \cup {NoItem}
    BY <2>1, HeadOfResults DEF Message
  <2>4. \A op \in AnswerOp : [m EXCEPT !.op = op] \in Reply /\ [m EXCEPT !.op = op].s <= n
    BY <2>2, <2>3 DEF Message, Reply
  <2>5. Bounded(toGame', n)
    <3>1. UNCHANGED toGame \/ \E op \in AnswerOp : Answer([m EXCEPT !.op = op])
      BY <1>13 DEF DbResult, ResultWithoutPeer, RESULT_PLAYER_LOAD, RESULT_ITEM_LOAD,
                   RESULT_SAFEBOX_LOAD, AnswerOp
    <3>2. \A op \in AnswerOp : Bounded(Append(toGame, [m EXCEPT !.op = op]), n)
      BY <1>3, <1>5, <2>4, BoundedIs
    <3> QED  BY <1>5, <3>1, <3>2 DEF Answer
  <2>6. CASE ResultWithoutPeer \/ RESULT_PLAYER_LOAD
    BY <1>5, <1>11, <2>2, <2>5, <2>6 DEF ResultWithoutPeer, RESULT_PLAYER_LOAD
  <2>7. CASE RESULT_ITEM_LOAD
    <3>1. UNCHANGED main \/ Enqueue(<<>>) \/ (m.x # NoItem /\ Enqueue(<<Write(m.x)>>))
      BY <2>7 DEF RESULT_ITEM_LOAD, PutItemCache
    <3> QED  BY <1>5, <1>7, <1>8, <1>9, <1>11, <2>2, <2>3, <2>5, <3>1
  <2>8. CASE RESULT_SAFEBOX_LOAD
    <3> DEFINE ask == [m EXCEPT !.op = "SAFEBOX_ITEM"]
    <3>1. UNCHANGED main \/ Enqueue(<<ask>>)
      BY <2>8 DEF RESULT_SAFEBOX_LOAD
    <3>2. ask \in Statement /\ ask.s <= n
      BY <2>2, <2>3 DEF Message, Statement, QueryOp
    <3>3. Bounded(<<ask>>, n) /\ <<ask>> \in Seq(Statement)
      BY <3>2, BoundedShort, Sequences1
    <3> QED  BY <1>5, <1>7, <1>11, <2>2, <2>5, <3>1, <3>3
  <2> QED  BY <1>13, <2>6, <2>7, <2>8 DEF DbResult
<1>14. CASE MainExecutes
  <2> DEFINE q == Head(main)
  <2>1. main # <<>> /\ main' = Tail(main) /\ UNCHANGED toGame
        /\ (UNCHANGED results \/ (q.op \notin WriteOp /\ results' = Append(results, Selected(q))))
    BY <1>14 DEF MainExecutes, WriteOp
  <2>2. Bounded(main', n) /\ q.s <= n
    BY <1>3, <1>5, <2>1, BoundedIs
  <2>3. TypeOK'  BY <1>14, TypeSql
  <2>4. ASSUME results' = Append(results, Selected(q)) PROVE Bounded(results', n)
    <3> DEFINE s == Selected(q)
    <3>1. q \in Statement  BY <1>3, <2>1, HeadTailProperties
    <3>2. s.s = q.s  BY <3>1 DEF Selected, Statement, Message
    <3>3. results' \in Seq(SqlAnswer)  BY <2>3 DEF TypeOK, SqlOK
    <3>4. Len(results') = Len(results) + 1 /\ results'[Len(results) + 1] = s
          /\ \A i \in 1..Len(results) : results'[i] = results[i]
      BY <1>3, <2>4
    <3> HIDE DEF s
    <3>5. DOMAIN results' = 1..(Len(results) + 1) /\ DOMAIN results = 1..Len(results)
          /\ Len(results) \in Nat
      BY <1>3, <3>3, <3>4, LenProperties
    <3>6. \A i \in 1..(Len(results) + 1) : i \in 1..Len(results) \/ i = Len(results) + 1
      BY <3>5
    <3> QED  BY <1>5, <2>2, <3>2, <3>4, <3>5, <3>6 DEF Bounded
  <2> QED  BY <1>5, <1>11, <2>1, <2>2, <2>4
<1>15. CASE AsyncExecutes
  BY <1>5, <1>11, <1>15 DEF AsyncExecutes
<1> QED
  BY <1>12, <1>13, <1>14, <1>15

(* What the game sends about the item names no session.                    *)
LEMMA SaveSays ==
    ASSUME NEW i \in ItemState
    PROVE  \E m \in Request : /\ SaveSingleItem(i) = <<m>> /\ m.s = 0
                              /\ IF i.at \in {"inv", "box"}
                                 THEN m \in Puts(i.by) /\ m.op = "ITEM_SAVE"
                                 ELSE m.op = "ITEM_DESTROY"
<1>1. i.ver \in Nat /\ i.last \in Pids \cup {Nobody}  BY DEF ItemState
<1>2. \A x \in Data : M("ITEM_SAVE", Nobody, 0, x) \in Request
  BY DEF M, Message, Request, RequestOp
<1>3. CASE i.at \in {"inv", "box"}
  <2>1. PICK x \in Data : /\ x.owner = i.by
                          /\ SaveSingleItem(i) = <<M("ITEM_SAVE", Nobody, 0, x)>>
    <3>1. i.by \in Pids  BY <1>3 DEF ItemState
    <3>2. InInv(i.by, i.ver) \in Data /\ InBox(i.by, i.ver) \in Data
          /\ InInv(i.by, i.ver).owner = i.by /\ InBox(i.by, i.ver).owner = i.by
      BY <1>1, <3>1 DEF InInv, InBox, Data
    <3> QED  BY <1>3, <3>2 DEF SaveSingleItem
  <2>2. M("ITEM_SAVE", Nobody, 0, x) \in Puts(i.by)
        /\ M("ITEM_SAVE", Nobody, 0, x).s = 0
        /\ M("ITEM_SAVE", Nobody, 0, x).op = "ITEM_SAVE"
    BY <1>2, <2>1 DEF Puts, M
  <2> QED  BY <1>2, <1>3, <2>1, <2>2
<1>4. CASE i.at \notin {"inv", "box"}
  <2>1. SaveSingleItem(i) = <<M("ITEM_DESTROY", i.last, 0, NoItem)>>
    BY <1>4 DEF SaveSingleItem
  <2>2. M("ITEM_DESTROY", i.last, 0, NoItem) \in Request
        /\ M("ITEM_DESTROY", i.last, 0, NoItem).s = 0
        /\ M("ITEM_DESTROY", i.last, 0, NoItem).op = "ITEM_DESTROY"
    BY <1>1 DEF M, Message, Request, RequestOp
  <2> QED  BY <1>4, <2>1, <2>2
<1> QED  BY <1>3, <1>4
LEMMA SaveSingleItemBounded ==
    ASSUME NEW i \in ItemState, NEW n \in Nat
    PROVE  SaveSingleItem(i) \in Seq(Request) /\ Bounded(SaveSingleItem(i), n)
<1>1. PICK m \in Request : SaveSingleItem(i) = <<m>> /\ m.s = 0
  BY SaveSays
<1>2. m.s <= n  BY <1>1
<1> QED  BY <1>1, <1>2, BoundedShort, SaveSingleItemType

LEMMA NumberedGame ==
    ASSUME TypeOK, Numbered,
           GameItem \/ ItemManagerUpdate \/ GameSession \/ GameAnswer
    PROVE  Numbered'
<1> USE ItemAssumption
<1> DEFINE n == NPlayers + nSess
           n1 == NPlayers + nSess'
<1>1. UNCHANGED <<main, results>>
  BY DEF GameItem, CreateItem, ModifyItem, DropItem, DestroyItem, SafeboxCheckin,
         SafeboxCheckout, PickupItem, ExchangeItem, ItemOp, ItemManagerUpdate,
         GameSession, CharacterSelect, SavePlayer, Disconnect, ReqSafeboxLoad,
         CloseSafebox, FlushCommand, GameAnswer, AnswerIgnored, PlayerLoad, ItemLoad,
         SafeboxLoad, SafeboxWrongPassword, sql
<1>2. n \in Nat /\ 0 <= n /\ nSess \in Nat
  BY DEF TypeOK
<1>3. /\ toDb \in Seq(Request) /\ toGame \in Seq(Reply) /\ item \in ItemState
      /\ main \in Seq(Statement) /\ results \in Seq(SqlAnswer)
      /\ sess \in [Pids -> Nat \ {0}]
  BY DEF TypeOK, GameOK, SqlOK
<1>4. /\ Bounded(toDb, n) /\ Bounded(main, n) /\ Bounded(toGame, n) /\ Bounded(results, n)
      /\ \A p \in Pids : sess[p] <= n
  BY DEF Numbered
<1>5. \A q \in Seq(Request) : Bounded(q, n) /\ Send(q) => Bounded(toDb', n)
  <2> HIDE DEF n
  <2> QED  BY <1>3, <1>4, BoundedIs DEF Send
<1>6. ASSUME Bounded(toDb', n), Bounded(toGame', n), UNCHANGED <<sess, nSess>>
      PROVE  Numbered'
  BY <1>1, <1>4, <1>6 DEF Numbered
<1>7. \A i \in ItemState :
         SaveSingleItem(i) \in Seq(Request) /\ Bounded(SaveSingleItem(i), n)
  BY <1>2, SaveSingleItemBounded
<1>8. \A op \in RequestOp \ {"ITEM_SAVE"} : \A p \in Pids : \A s \in Nat :
         s <= n => <<M(op, p, s, NoItem)>> \in Seq(Request) /\ Bounded(<<M(op, p, s, NoItem)>>, n)
  <2> HIDE DEF n
  <2>1. \A op, p, s : M(op, p, s, NoItem).s = s  BY DEF M
  <2> QED  BY <2>1, RequestType, Sequences1, BoundedShort
<1>9. CASE GameItem \/ ItemManagerUpdate
  <2>1. UNCHANGED <<sess, nSess, toGame>>
    BY <1>9 DEF GameItem, CreateItem, ModifyItem, DropItem, DestroyItem, SafeboxCheckin,
         SafeboxCheckout, PickupItem, ExchangeItem, ItemOp, ItemManagerUpdate, count
  <2>2. TypeOK'  BY <1>9, TypeGameItem
  <2>3. item' \in ItemState  BY <2>2 DEF TypeOK, GameOK
  <2> DEFINE flush == M("ITEM_FLUSH", Nobody, 0, NoItem)
  <2>4. \/ UNCHANGED toDb
        \/ Send(SaveSingleItem(item')) \/ Send(SaveSingleItem(item))
        \/ Send(<<M("ITEM_DESTROY", item.last, 0, NoItem)>>)
        \/ Send(SaveSingleItem(item') \o <<flush>>)
    <3>1. CASE GameItem
      BY <3>1 DEF GameItem, CreateItem, ModifyItem, DropItem, DestroyItem, SafeboxCheckin,
         SafeboxCheckout, PickupItem, ExchangeItem, Change, ChangeAndFlush
    <3>2. CASE ItemManagerUpdate  BY <3>2 DEF ItemManagerUpdate
    <3> QED  BY <1>9, <3>1, <3>2
  <2>5. /\ <<M("ITEM_DESTROY", item.last, 0, NoItem)>> \in Seq(Request)
        /\ Bounded(<<M("ITEM_DESTROY", item.last, 0, NoItem)>>, n)
    <3>1. item.last \in Pids \cup {Nobody}  BY <1>3 DEF ItemState
    <3>2. M("ITEM_DESTROY", item.last, 0, NoItem) \in Request
      BY <3>1 DEF M, Message, Request, RequestOp
    <3>3. M("ITEM_DESTROY", item.last, 0, NoItem).s <= n
      BY <1>2 DEF M
    <3> HIDE DEF n
    <3> QED  BY <3>2, <3>3, BoundedShort, Sequences1
  <2>6. /\ SaveSingleItem(item') \o <<flush>> \in Seq(Request)
        /\ Bounded(SaveSingleItem(item') \o <<flush>>, n)
    <3>1. flush \in Request
      BY DEF M, Message, Request, RequestOp
    <3>2. flush.s <= n  BY <1>2 DEF M
    <3> HIDE DEF n, flush
    <3>3. <<flush>> \in Seq(Request) /\ Bounded(<<flush>>, n)
      BY <3>1, <3>2, BoundedShort, Sequences1
    <3> QED  BY <1>7, <2>3, <3>3, BoundedIs, ConcatProperties
  <2>7. Bounded(toDb', n)
    <3> HIDE DEF n, flush
    <3> QED  BY <1>3, <1>4, <1>5, <1>7, <2>3, <2>4, <2>5, <2>6
  <2> QED  BY <1>4, <1>6, <2>1, <2>7
<1>10. CASE GameAnswer
  <2>1. /\ UNCHANGED <<sess, nSess, toDb>>
        /\ toGame # <<>> /\ toGame' = Tail(toGame)
    BY <1>10 DEF GameAnswer, AnswerIgnored, PlayerLoad, ItemLoad,
         SafeboxLoad, SafeboxWrongPassword, AnswerIs, Received, game, count
  <2>2. Bounded(toGame', n)
    <3> HIDE DEF n
    <3> QED  BY <1>3, <1>4, <2>1, BoundedIs
  <2> QED  BY <1>4, <1>6, <2>1, <2>2
<1>11. CASE GameSession
  <2> PICK p \in Pids : \/ CharacterSelect(p) \/ SavePlayer(p) \/ Disconnect(p)
                        \/ ReqSafeboxLoad(p) \/ CloseSafebox(p) \/ FlushCommand(p)
    BY <1>11 DEF GameSession
  <2>1. UNCHANGED toGame
    BY DEF CharacterSelect, SavePlayer, Disconnect, ReqSafeboxLoad,
         CloseSafebox, FlushCommand, game
  <2>2. CASE CharacterSelect(p)
    <3> DEFINE m == M("PLAYER_LOAD", p, n1, NoItem)
    <3>1. nSess' = nSess + 1 /\ n1 = n + 1 /\ n1 \in Nat /\ n <= n1
      BY <1>2, <2>2 DEF CharacterSelect
    <3>2. sess' = [sess EXCEPT ![p] = n1] /\ toDb' = toDb \o <<m>>
      <4>1. sess' = [sess EXCEPT ![p] = n1]
        <5>1. n1 = NPlayers + nSess + 1  BY <1>2, <3>1
        <5> HIDE DEF n1
        <5> QED  BY <2>2, <5>1 DEF CharacterSelect
      <4>2. sess'[p] = n1  BY <1>3, <4>1
      <4> QED  BY <2>2, <4>1, <4>2 DEF CharacterSelect, Send
    <3>3. \A q, T : q \in Seq(T) /\ (\A x \in T : x.s \in Nat) /\ Bounded(q, n)
                    => Bounded(q, n1)
      <4> SUFFICES ASSUME NEW T, NEW q \in Seq(T), \A x \in T : x.s \in Nat, Bounded(q, n)
                   PROVE  Bounded(q, n1)
        OBVIOUS
      <4>1. \A i \in DOMAIN q : q[i].s \in Nat /\ q[i].s <= n
        BY LenProperties, ElementOfSeq DEF Bounded
      <4> QED  BY <1>2, <3>1, <4>1 DEF Bounded
    <3>4. /\ \A x \in Request : x.s \in Nat
          /\ \A x \in Reply : x.s \in Nat
          /\ \A x \in Statement : x.s \in Nat
          /\ \A x \in SqlAnswer : x.s \in Nat
      BY DEF Request, Reply, Statement, SqlAnswer, Message
    <3>5. Bounded(toDb, n1) /\ Bounded(toGame, n1) /\ Bounded(main, n1) /\ Bounded(results, n1)
      BY <1>3, <1>4, <3>3, <3>4
    <3>6. m \in Request /\ m.s = n1
      BY <3>1, RequestType DEF RequestOp, M
    <3>7. Bounded(toDb', n1)
      <4> HIDE DEF m, n1
      <4>1. n1 <= n1  BY <3>1
      <4>2. <<m>> \in Seq(Request) /\ Bounded(<<m>>, n1)
        BY <3>6, <4>1, BoundedShort, Sequences1
      <4> QED  BY <1>3, <3>2, <3>5, <4>2, BoundedIs
    <3>8. \A q \in Pids : sess'[q] <= n1
      BY <1>2, <1>3, <1>4, <3>1, <3>2
    <3> QED  BY <1>1, <2>1, <3>5, <3>7, <3>8 DEF Numbered
  <2>3. ASSUME UNCHANGED <<sess, nSess>>,
               \/ UNCHANGED toDb
               \/ \E q \in Seq(Request) : Bounded(q, n) /\ Send(q)
        PROVE  Numbered'
    <3>1. Bounded(toDb', n)  BY <1>4, <1>5, <2>3
    <3> QED  BY <1>4, <1>6, <2>1, <2>3, <3>1
  <2>4. CASE SavePlayer(p) \/ ReqSafeboxLoad(p) \/ FlushCommand(p)
    <3>1. sess[p] \in Nat /\ sess[p] <= n  BY <1>3, <1>4
    <3>2. UNCHANGED <<sess, nSess>>
      BY <2>4 DEF SavePlayer, ReqSafeboxLoad, FlushCommand, game, count
    <3>3. \/ Send(<<M("PLAYER_SAVE", p, 0, NoItem)>>)
          \/ Send(<<M("SAFEBOX_LOAD", p, sess[p], NoItem)>>)
          \/ Send(<<M("FLUSH_CACHE", p, 0, NoItem)>>)
      BY <2>4 DEF SavePlayer, ReqSafeboxLoad, FlushCommand
    <3>4. \E op \in RequestOp \ {"ITEM_SAVE"} : \E s \in Nat :
              s <= n /\ Send(<<M(op, p, s, NoItem)>>)
      BY <1>2, <3>1, <3>3 DEF RequestOp
    <3> HIDE DEF n
    <3> QED  BY <1>8, <2>3, <3>2, <3>4
  <2>5. PendingOf(p) \in Seq(Request) /\ Bounded(PendingOf(p), n)
    BY <1>3, <1>7, BoundedShort, EmptySeq DEF PendingOf
  <2>6. CASE CloseSafebox(p)
    BY <2>3, <2>5, <2>6 DEF CloseSafebox, count
  <2>7. CASE Disconnect(p)
    <3> DEFINE save == IF InGame(p) THEN <<M("PLAYER_SAVE", p, 0, NoItem)>> ELSE <<>>
               bye == <<M("LOGOUT", p, 0, NoItem)>>
    <3>1. /\ save \in Seq(Request) /\ Bounded(save, n)
          /\ bye \in Seq(Request) /\ Bounded(bye, n)
      BY <1>2, <1>8, BoundedShort, EmptySeq DEF RequestOp
    <3>2. Send(save \o PendingOf(p) \o bye) /\ UNCHANGED <<sess, nSess>>
      BY <2>7 DEF Disconnect, count
    <3> HIDE DEF save, bye, n
    <3>3. save \o PendingOf(p) \in Seq(Request) /\ Bounded(save \o PendingOf(p), n)
      BY <2>5, <3>1, BoundedIs, ConcatProperties
    <3>4. (save \o PendingOf(p)) \o bye \in Seq(Request)
          /\ Bounded((save \o PendingOf(p)) \o bye, n)
      BY <3>1, <3>3, BoundedIs, ConcatProperties
    <3> QED  BY <2>3, <3>2, <3>4
  <2> QED  BY <2>2, <2>4, <2>6, <2>7
<1> QED  BY <1>9, <1>10, <1>11

-----------------------------------------------------------------------------
(* Who has the item or looks at a safebox is in the game.                  *)

LEMMA CarriedStep ==
    ASSUME TypeOK, Carried, Next, ~GameCrash PROVE Carried'
<1> USE ItemAssumption
<1> USE DEF InGame
<1>1. /\ item \in ItemState /\ item.by \in Pids \cup {Nobody}
      /\ item.at \in {"inv", "box"} => item.by \in Pids
      /\ st \in [Pids -> {"off", "asked", "loading", "play"}]
      /\ box \in [Pids -> {"closed", "asked", "open"}]
  BY DEF TypeOK, GameOK, ItemState
<1>2. ASSUME UNCHANGED <<item, st, box>> PROVE Carried'
  BY <1>2 DEF Carried
<1>3. ASSUME UNCHANGED <<st, box>>, item'.at \in {"inv", "box"} => InGame(item'.by)
      PROVE  Carried'
  BY <1>3 DEF Carried
<1>4. CASE DbPacket \/ DbResult \/ DbTimer \/ Shutdown \/ MainExecutes \/ AsyncExecutes
  BY <1>2, <1>4
  DEF DbPacket, QUERY_ITEM_SAVE, QUERY_ITEM_DESTROY, QUERY_ITEM_FLUSH,
      QUERY_PLAYER_LOAD, QUERY_PLAYER_SAVE, QUERY_LOGOUT, QUERY_SAFEBOX_LOAD,
      QUERY_FLUSH_CACHE, DbResult, ResultWithoutPeer, RESULT_PLAYER_LOAD,
      RESULT_ITEM_LOAD, RESULT_SAFEBOX_LOAD, DbTimer, UpdateItemCache,
      UpdatePlayerCache, UpdateLogoutPlayer, Shutdown, MainExecutes, AsyncExecutes, game
<1>5. CASE GameItem
  <2>1. UNCHANGED <<st, box>>
    BY <1>5 DEF GameItem, CreateItem, ModifyItem, DropItem, DestroyItem, SafeboxCheckin,
         SafeboxCheckout, PickupItem, ExchangeItem, ItemOp
  <2>2. CASE \E p \in Pids : PickupItem(p) \/ ExchangeItem(p)
    BY <1>3, <2>1, <2>2 DEF PickupItem, ExchangeItem, Change, ChangeAndFlush, Item
  <2>3. CASE CreateItem
    BY <1>3, <2>1, <2>3 DEF CreateItem, Change, Item
  <2>4. CASE ModifyItem \/ DropItem \/ DestroyItem \/ SafeboxCheckin
    <3>1. item'.at \in {"inv", "box"} => item'.by = item.by /\ item.at \in {"inv", "box"}
      <4>1. CASE ModifyItem
        BY <1>1, <4>1 DEF ModifyItem, Change, ItemState
      <4>2. CASE DropItem
        BY <1>1, <4>2 DEF DropItem, ChangeAndFlush, ItemState
      <4>3. CASE DestroyItem
        BY <4>3 DEF DestroyItem, Item
      <4>4. CASE SafeboxCheckin
        BY <1>1, <4>4 DEF SafeboxCheckin, ChangeAndFlush, ItemState
      <4> QED  BY <2>4, <4>1, <4>2, <4>3, <4>4
    <3> QED  BY <1>3, <2>1, <3>1 DEF Carried
  <2>5. CASE SafeboxCheckout
    <3>1. item'.by = item.by /\ item.at = "box"
      BY <2>5 DEF SafeboxCheckout, Item
    <3> QED  BY <1>3, <2>1, <3>1 DEF Carried
  <2> QED  BY <1>5, <2>2, <2>3, <2>4, <2>5 DEF GameItem
<1>6. CASE ItemManagerUpdate  BY <1>2, <1>6 DEF ItemManagerUpdate
<1>7. CASE GameSession
  <2> PICK p \in Pids : \/ CharacterSelect(p) \/ SavePlayer(p) \/ Disconnect(p)
                        \/ ReqSafeboxLoad(p) \/ CloseSafebox(p) \/ FlushCommand(p)
    BY <1>7 DEF GameSession
  <2>1. CASE CharacterSelect(p)
    <3>1. ~InGame(p) /\ st' = [st EXCEPT ![p] = "asked"] /\ UNCHANGED <<item, box>>
      BY <2>1 DEF CharacterSelect
    <3>2. \A q \in Pids : InGame(q) => InGame(q)'
      BY <1>1, <3>1
    <3> QED  BY <1>1, <3>1, <3>2 DEF Carried
  <2>2. CASE SavePlayer(p) \/ FlushCommand(p)
    BY <1>2, <2>2 DEF SavePlayer, FlushCommand, game
  <2>3. CASE ReqSafeboxLoad(p)
    <3>1. InGame(p) /\ box' = [box EXCEPT ![p] = "asked"] /\ UNCHANGED <<item, st>>
      BY <2>3 DEF ReqSafeboxLoad
    <3> QED  BY <1>1, <3>1 DEF Carried
  <2>4. CASE CloseSafebox(p)
    <3>1. /\ box' = [box EXCEPT ![p] = "closed"] /\ UNCHANGED st
          /\ item' = item \/ item'.at = "none"
      BY <2>4 DEF CloseSafebox, Gone, Holds, Item
    <3> QED  BY <1>1, <3>1 DEF Carried
  <2>5. CASE Disconnect(p)
    <3>1. /\ box' = [box EXCEPT ![p] = "closed"] /\ st' = [st EXCEPT ![p] = "off"]
          /\ \/ item'.at = "none"
             \/ item' = item /\ (item.at \in {"inv", "box"} => item.by # p)
      BY <2>5 DEF Disconnect, Gone, Holds, Item
    <3>2. \A q \in Pids : q # p => st'[q] = st[q] /\ box'[q] = box[q]
      BY <1>1, <3>1
    <3>3. box'[p] = "closed"  BY <1>1, <3>1
    <3> QED  BY <1>1, <3>1, <3>2, <3>3 DEF Carried
  <2> QED  BY <2>1, <2>2, <2>3, <2>4, <2>5
<1>8. CASE GameAnswer
  <2>1. CASE AnswerIgnored  BY <1>2, <2>1 DEF AnswerIgnored, game
  <2>2. ASSUME NEW p \in Pids, PlayerLoad(p) PROVE Carried'
    <3>1. st' = [st EXCEPT ![p] = "loading"] /\ UNCHANGED <<item, box>>
      BY <2>2 DEF PlayerLoad
    <3>2. \A q \in Pids : InGame(q) => InGame(q)'
      BY <1>1, <3>1
    <3> QED  BY <1>1, <3>1, <3>2 DEF Carried
  <2>3. ASSUME NEW p \in Pids, ItemLoad(p) PROVE Carried'
    <3>1. /\ st' = [st EXCEPT ![p] = "play"] /\ UNCHANGED box
          /\ item' = item \/ item'.by = p
      BY <2>3 DEF ItemLoad, Item
    <3>2. \A q \in Pids : InGame(q) => InGame(q)'
      BY <1>1, <3>1
    <3>3. InGame(p)'  BY <1>1, <3>1
    <3> QED  BY <1>1, <3>1, <3>2, <3>3 DEF Carried
  <2>4. ASSUME NEW p \in Pids, SafeboxLoad(p) PROVE Carried'
    <3>1. /\ UNCHANGED st /\ box[p] = "asked"
          /\ \E b : box' = [box EXCEPT ![p] = b]
          /\ item' = item \/ item'.by = p
      BY <2>4 DEF SafeboxLoad, Item
    <3>2. InGame(p)  BY <3>1 DEF Carried
    <3> QED  BY <1>1, <3>1, <3>2 DEF Carried
  <2>5. ASSUME NEW p \in Pids, SafeboxWrongPassword(p) PROVE Carried'
    <3>1. UNCHANGED <<st, item>> /\ box' = [box EXCEPT ![p] = "closed"]
      BY <2>5 DEF SafeboxWrongPassword
    <3> QED  BY <1>1, <3>1 DEF Carried
  <2> QED  BY <1>8, <2>1, <2>2, <2>3, <2>4, <2>5 DEF GameAnswer
<1> QED
  BY <1>4, <1>5, <1>6, <1>7, <1>8 DEF Next
-----------------------------------------------------------------------------
(* What has begun for a session.                                           *)

LEMMA StartedIs ==
    ASSUME NEW T, NEW q \in Seq(T), NEW p, NEW n
    PROVE  /\ q # <<>> => /\ Started(Tail(q), p, n) => Started(q, p, n)
                          /\ Head(q).op \in BegunOp /\ Head(q).p = p /\ Head(q).s = n
                             => Started(q, p, n)
           /\ \A r \in Seq(T) : Started(q \o r, p, n) => Started(q, p, n) \/ Started(r, p, n)
           /\ \A m \in T : Started(Append(q, m), p, n) =>
                  Started(q, p, n) \/ (m.op \in BegunOp /\ m.p = p /\ m.s = n)
<1>1. ASSUME q # <<>> PROVE /\ Started(Tail(q), p, n) => Started(q, p, n)
                            /\ Head(q).op \in BegunOp /\ Head(q).p = p /\ Head(q).s = n
                               => Started(q, p, n)
  <2>1. \A i \in 1..(Len(q) - 1) : i + 1 \in 1..Len(q)  BY <1>1, TailIs
  <2> QED  BY <1>1, <2>1, TailIs DEF Started
<1>2. ASSUME NEW r \in Seq(T), Started(q \o r, p, n), ~Started(q, p, n)
      PROVE  Started(r, p, n)
  <2>1. /\ Len(q) \in Nat /\ Len(r) \in Nat
        /\ DOMAIN q = 1..Len(q) /\ DOMAIN r = 1..Len(r)
        /\ DOMAIN (q \o r) = 1..(Len(q) + Len(r))
        /\ \A i \in 1..(Len(q) + Len(r)) :
               (q \o r)[i] = IF i <= Len(q) THEN q[i] ELSE r[i - Len(q)]
    BY LenProperties, ConcatProperties
  <2>2. \A i \in 1..(Len(q) + Len(r)) :
            IF i <= Len(q) THEN i \in 1..Len(q) ELSE i - Len(q) \in 1..Len(r)
    BY <2>1
  <2> QED  BY <1>2, <2>1, <2>2 DEF Started
<1>3. ASSUME NEW m \in T, Started(Append(q, m), p, n)
      PROVE  Started(q, p, n) \/ (m.op \in BegunOp /\ m.p = p /\ m.s = n)
  <2>1. \A i \in 1..(Len(q) + 1) : i \in 1..Len(q) \/ i = Len(q) + 1  BY AppendIs
  <2> QED  BY <1>3, <2>1, AppendIs DEF Started
<1> QED  BY <1>1, <1>2, <1>3

LEMMA StartedShort ==
    ASSUME NEW p, NEW n
    PROVE  /\ ~Started(<<>>, p, n)
           /\ \A m : Started(<<m>>, p, n) => m.op \in BegunOp /\ m.p = p /\ m.s = n
           /\ \A a, b : Started(<<a, b>>, p, n) => \/ a.op \in BegunOp /\ a.p = p /\ a.s = n
                                                   \/ b.op \in BegunOp /\ b.p = p /\ b.s = n
  BY DEF Started

(* Only the db's reading of its load begins anything for a session.        *)
LEMMA BegunDbPacket ==
    ASSUME TypeOK, DbPacket, NEW p \in Pids, Begun(p)'
    PROVE  Begun(p) \/ Head(toDb) \in Loads(p)
<1> DEFINE h == Head(toDb)
           n == sess[p]
<1>1. UNCHANGED <<sess, results>>
  BY DEF DbPacket, QUERY_ITEM_SAVE, QUERY_ITEM_DESTROY, QUERY_ITEM_FLUSH,
         QUERY_PLAYER_LOAD, QUERY_PLAYER_SAVE, QUERY_LOGOUT, QUERY_SAFEBOX_LOAD,
         QUERY_FLUSH_CACHE, game, sql
<1>3. main \in Seq(Statement) /\ toGame \in Seq(Reply)
  BY DEF TypeOK, SqlOK
<1>4. ASSUME toGame' = toGame, NEW q \in Seq(Statement), ~Started(q, p, n), Enqueue(q)
      PROVE  Begun(p)
  <2>1. Started(main', p, n) => Started(main, p, n)
    BY <1>3, <1>4, StartedIs DEF Enqueue
  <2> QED  BY <1>1, <1>4, <2>1 DEF Begun
<1>5. ASSUME toGame' = toGame, main' = main PROVE Begun(p)
  BY <1>1, <1>5 DEF Begun
<1>6. \A x \in Data \cup {NoItem} :
         <<Write(x)>> \in Seq(Statement) /\ ~Started(<<Write(x)>>, p, n)
  <2>1. \A x : Write(x).op \notin BegunOp  BY DEF Write, M, BegunOp
  <2> QED  BY <2>1, StartedShort, WriteType, Sequences1
<1>7. <<>> \in Seq(Statement) /\ ~Started(<<>>, p, n)
  BY StartedShort, EmptySeq
<1>8. FlushQuery(cache) \in Seq(Statement) /\ ~Started(FlushQuery(cache), p, n)
  BY <1>6, <1>7, CachedType DEF FlushQuery, TypeOK, DbOK
<1> HIDE DEF n
<1>9. CASE QUERY_ITEM_SAVE
  <2>1. toGame' = toGame /\ h.x \in Data
    BY <1>9, HeadOfToDb DEF QUERY_ITEM_SAVE, Request
  <2>2. Enqueue(<<>>) \/ Enqueue(<<Write(h.x)>>)
    BY <1>9 DEF QUERY_ITEM_SAVE, PutItemCache
  <2> QED  BY <1>4, <1>6, <1>7, <2>1, <2>2
<1>10. CASE QUERY_ITEM_DESTROY
  <2>1. toGame' = toGame /\ (UNCHANGED main \/ Enqueue(<<>>) \/ Enqueue(<<Write(NoItem)>>))
    BY <1>10 DEF QUERY_ITEM_DESTROY
  <2> QED  BY <1>4, <1>5, <1>6, <1>7, <2>1
<1>11. CASE QUERY_ITEM_FLUSH
  <2>1. toGame' = toGame /\ (UNCHANGED main \/ Enqueue(FlushQuery(cache)))
    BY <1>11 DEF QUERY_ITEM_FLUSH, Flush
  <2> QED  BY <1>4, <1>5, <1>8, <2>1
<1>12. CASE QUERY_FLUSH_CACHE
  <2>1. toGame' = toGame /\ (UNCHANGED main \/ Enqueue(FlushQuery(cache)))
    BY <1>12 DEF QUERY_FLUSH_CACHE, FlushItemCacheSet
  <2> QED  BY <1>4, <1>5, <1>8, <2>1
<1>13. CASE QUERY_PLAYER_SAVE \/ QUERY_LOGOUT
  BY <1>5, <1>13 DEF QUERY_PLAYER_SAVE, QUERY_LOGOUT, sql
<1>14. CASE QUERY_SAFEBOX_LOAD
  <2> DEFINE m == M("SAFEBOX", h.p, h.s, NoItem)
  <2>0. Packet("SAFEBOX_LOAD")  BY <1>14 DEF QUERY_SAFEBOX_LOAD
  <2>1. h \in Request /\ h.op = "SAFEBOX_LOAD"  BY <2>0, HeadOfToDb
  <2>2. h.p \in Pids /\ h.s \in Nat  BY <2>1 DEF Request, Message
  <2>3. m \in Statement /\ m.op = "SAFEBOX"
    BY <2>2, QueryType DEF M, QueryOp
  <2>4. toGame' = toGame /\ Enqueue(<<m>>)
    BY <1>14 DEF QUERY_SAFEBOX_LOAD
  <2> HIDE DEF m
  <2>5. <<m>> \in Seq(Statement) /\ ~Started(<<m>>, p, n)
    BY <2>3, StartedShort, Sequences1 DEF BegunOp
  <2> QED  BY <1>4, <2>4, <2>5
<1>15. CASE QUERY_PLAYER_LOAD
  <2> DEFINE ask == M("PLAYER", h.p, h.s, NoItem)
             items == M("ITEM", h.p, h.s, NoItem)
             ok == M("PLAYER_LOAD_SUCCESS", h.p, h.s, NoItem)
             load == M("ITEM_LOAD", h.p, h.s, ItemsInSet(h.p))
  <2>0. Packet("PLAYER_LOAD")  BY <1>15 DEF QUERY_PLAYER_LOAD
  <2>1. h \in Request /\ h.op = "PLAYER_LOAD"  BY <2>0, HeadOfToDb
  <2>2. h.p \in Pids /\ h.s \in Nat  BY <2>1 DEF Request, Message
  <2> SUFFICES ASSUME h.p # p PROVE Begun(p)
    BY <2>1 DEF Loads
  <2>3. ItemsInSet(h.p) \in Data \cup {NoItem}
    BY CachedType DEF ItemsInSet, TypeOK, DbOK
  <2>4. ask \in Statement /\ items \in Statement /\ ok \in Reply /\ load \in Reply
    BY <2>2, <2>3, QueryType, ReplyType DEF QueryOp, AnswerOp
  <2>5. ask.p # p /\ items.p # p /\ ok.p # p /\ load.p # p
    BY DEF M
  <2>6. UNCHANGED main \/ Enqueue(<<ask>> \o <<items>>) \/ Enqueue(<<>> \o <<items>>)
    BY <1>15 DEF QUERY_PLAYER_LOAD
  <2>7. UNCHANGED toGame \/ toGame' = toGame \o <<ok, load>> \/ toGame' = Append(toGame, ok)
    BY <1>15 DEF QUERY_PLAYER_LOAD, Answer
  <2> HIDE DEF ask, items, ok, load
  <2>8. /\ <<ask>> \in Seq(Statement) /\ <<items>> \in Seq(Statement)
        /\ ~Started(<<ask>>, p, n) /\ ~Started(<<items>>, p, n)
        /\ <<ok, load>> \in Seq(Reply) /\ ~Started(<<ok, load>>, p, n)
    <3>1. ~Started(<<ask>>, p, n) /\ ~Started(<<items>>, p, n)
      BY <2>5, StartedShort
    <3>2. ~Started(<<ok, load>>, p, n)
      BY <2>5 DEF Started
    <3> QED  BY <2>4, <3>1, <3>2, Sequences1
  <2>9. /\ <<ask>> \o <<items>> \in Seq(Statement) /\ ~Started(<<ask>> \o <<items>>, p, n)
        /\ <<>> \o <<items>> \in Seq(Statement) /\ ~Started(<<>> \o <<items>>, p, n)
    BY <1>7, <2>8, StartedIs, ConcatProperties
  <2>10. Started(main', p, n) => Started(main, p, n)
    <3>1. \A q \in Seq(Statement) : Started(main \o q, p, n) =>
              Started(main, p, n) \/ Started(q, p, n)
      BY <1>3, StartedIs
    <3> QED  BY <2>6, <2>9, <3>1 DEF Enqueue
  <2>11. Started(toGame', p, n) => Started(toGame, p, n)
    <3>1. Started(toGame \o <<ok, load>>, p, n) => Started(toGame, p, n)
      BY <1>3, <2>8, StartedIs
    <3>2. Started(Append(toGame, ok), p, n) => Started(toGame, p, n)
      BY <1>3, <2>4, <2>5, StartedIs
    <3> QED  BY <2>7, <3>1, <3>2
  <2> QED  BY <1>1, <2>10, <2>11 DEF Begun, n
<1> QED
  BY <1>9, <1>10, <1>11, <1>12, <1>13, <1>14, <1>15 DEF DbPacket

LEMMA BegunDb ==
    ASSUME TypeOK, DbResult \/ DbTimer \/ Shutdown \/ MainExecutes \/ AsyncExecutes,
           NEW p \in Pids, Begun(p)'
    PROVE  Begun(p)
<1> DEFINE n == sess[p]
<1>1. UNCHANGED sess
  BY DEF DbResult, ResultWithoutPeer, RESULT_PLAYER_LOAD, RESULT_ITEM_LOAD,
         RESULT_SAFEBOX_LOAD, DbTimer, UpdateItemCache, UpdatePlayerCache,
         UpdateLogoutPlayer, Shutdown, MainExecutes, AsyncExecutes, game
<1>3. main \in Seq(Statement) /\ toGame \in Seq(Reply) /\ results \in Seq(SqlAnswer)
  BY DEF TypeOK, SqlOK
<1>4. Started(main', p, n) \/ Started(toGame', p, n) \/ Started(results', p, n)
  BY <1>1 DEF Begun
<1>5. (Started(main, p, n) \/ Started(toGame, p, n) \/ Started(results, p, n)) => Begun(p)
  BY DEF Begun
<1>6. \A x \in Data \cup {NoItem} :
         <<Write(x)>> \in Seq(Statement) /\ ~Started(<<Write(x)>>, p, n)
  <2>1. \A x : Write(x).op \notin BegunOp  BY DEF Write, M, BegunOp
  <2> QED  BY <2>1, StartedShort, WriteType, Sequences1
<1>7. <<>> \in Seq(Statement) /\ ~Started(<<>>, p, n)
  BY StartedShort, EmptySeq
<1>8. FlushQuery(cache) \in Seq(Statement) /\ ~Started(FlushQuery(cache), p, n)
  BY <1>6, <1>7, CachedType DEF FlushQuery, TypeOK, DbOK
<1> HIDE DEF n
<1>9. \A q \in Seq(Statement) :
          ~Started(q, p, n) /\ Enqueue(q) => (Started(main', p, n) => Started(main, p, n))
  BY <1>3, StartedIs DEF Enqueue
<1>10. CASE DbTimer \/ Shutdown
  <2>1. UNCHANGED <<toGame, results>> /\ (UNCHANGED main \/ Enqueue(FlushQuery(cache)))
    BY <1>10 DEF DbTimer, UpdateItemCache, UpdatePlayerCache, UpdateLogoutPlayer,
                 Shutdown, Flush, FlushItemCacheSet
  <2> QED  BY <1>4, <1>5, <1>8, <1>9, <2>1
<1>11. CASE AsyncExecutes
  BY <1>4, <1>5, <1>11 DEF AsyncExecutes
<1>12. CASE DbResult
  <2> DEFINE m == Head(results)
  <2>1. results # <<>> /\ results' = Tail(results)
    BY <1>12 DEF DbResult, ResultWithoutPeer, RESULT_PLAYER_LOAD, RESULT_ITEM_LOAD,
                 RESULT_SAFEBOX_LOAD, Result, PopResult
  <2>2. /\ Started(results', p, n) => Started(results, p, n)
        /\ m.op \in BegunOp /\ m.p = p /\ m.s = n => Started(results, p, n)
    BY <1>3, <2>1, StartedIs
  <2>3. /\ m \in Message(QueryOp) /\ m.p \in Pids /\ m.x \in Data \cup {NoItem}
    BY <2>1, HeadOfResults DEF Message
  <2>4. \A op \in AnswerOp : LET a == [m EXCEPT !.op = op]
                             IN  a \in Reply /\ a.op = op /\ a.p = m.p /\ a.s = m.s
    BY <2>3 DEF Message, Reply
  <2>5. ASSUME Started(toGame', p, n) PROVE Started(toGame, p, n) \/ Started(results, p, n)
    <3>1. \/ UNCHANGED toGame
          \/ /\ m.op \in BegunOp
             /\ \E op \in AnswerOp : toGame' = Append(toGame, [m EXCEPT !.op = op])
          \/ \E op \in AnswerOp \ BegunOp : toGame' = Append(toGame, [m EXCEPT !.op = op])
      BY <1>12 DEF DbResult, ResultWithoutPeer, RESULT_PLAYER_LOAD, RESULT_ITEM_LOAD,
                   RESULT_SAFEBOX_LOAD, AnswerOp, BegunOp, Answer, Result
    <3>2. \A op \in AnswerOp : Started(Append(toGame, [m EXCEPT !.op = op]), p, n) =>
              Started(toGame, p, n) \/ (op \in BegunOp /\ m.p = p /\ m.s = n)
      <4> SUFFICES ASSUME NEW op \in AnswerOp
                   PROVE  Started(Append(toGame, [m EXCEPT !.op = op]), p, n) =>
                              Started(toGame, p, n) \/ (op \in BegunOp /\ m.p = p /\ m.s = n)
        OBVIOUS
      <4> DEFINE a == [m EXCEPT !.op = op]
      <4>1. a \in Reply /\ a.op = op /\ a.p = m.p /\ a.s = m.s  BY <2>4
      <4> HIDE DEF a
      <4>2. Started(Append(toGame, a), p, n) =>
                Started(toGame, p, n) \/ (a.op \in BegunOp /\ a.p = p /\ a.s = n)
        BY <1>3, <4>1, StartedIs
      <4> QED  BY <4>1, <4>2 DEF a
    <3> QED  BY <2>2, <2>5, <3>1, <3>2
  <2>6. Started(main', p, n) => Started(main, p, n)
    <3>1. CASE ResultWithoutPeer \/ RESULT_PLAYER_LOAD
      BY <3>1 DEF ResultWithoutPeer, RESULT_PLAYER_LOAD
    <3>2. CASE RESULT_ITEM_LOAD
      <4>1. UNCHANGED main \/ Enqueue(<<>>) \/ Enqueue(<<Write(m.x)>>)
        BY <3>2 DEF RESULT_ITEM_LOAD, PutItemCache
      <4> QED  BY <1>6, <1>7, <1>9, <2>3, <4>1
    <3>3. CASE RESULT_SAFEBOX_LOAD
      <4> DEFINE ask == [m EXCEPT !.op = "SAFEBOX_ITEM"]
      <4>1. UNCHANGED main \/ Enqueue(<<ask>>)
        BY <3>3 DEF RESULT_SAFEBOX_LOAD
      <4>2. ask \in Statement /\ ask.op = "SAFEBOX_ITEM"
        BY <2>3 DEF Message, Statement, QueryOp
      <4> HIDE DEF ask
      <4>3. ~Started(<<ask>>, p, n) /\ <<ask>> \in Seq(Statement)
        BY <4>2, StartedShort, Sequences1 DEF BegunOp
      <4> QED  BY <1>9, <4>1, <4>3
    <3> QED  BY <1>12, <3>1, <3>2, <3>3 DEF DbResult
  <2> QED  BY <1>4, <1>5, <2>2, <2>5, <2>6
<1>13. CASE MainExecutes
  <2> DEFINE q == Head(main)
             s == Selected(q)
  <2>1. /\ main # <<>> /\ main' = Tail(main) /\ UNCHANGED toGame
        /\ UNCHANGED results \/ results' = Append(results, s)
    BY <1>13 DEF MainExecutes
  <2>2. /\ Started(main', p, n) => Started(main, p, n)
        /\ q.op \in BegunOp /\ q.p = p /\ q.s = n => Started(main, p, n)
    BY <1>3, <2>1, StartedIs
  <2>3. q \in Statement  BY <1>3, <2>1, HeadTailProperties
  <2>4. s.op = q.op /\ s.p = q.p /\ s.s = q.s  BY <2>3 DEF Selected, Statement, Message
  <2>5. TypeOK'  BY <1>13, TypeSql
  <2>6. ASSUME results' = Append(results, s), Started(results', p, n), ~Started(results, p, n)
        PROVE  q.op \in BegunOp /\ q.p = p /\ q.s = n
    <3> HIDE DEF s
    <3>1. results' \in Seq(SqlAnswer)  BY <2>5 DEF TypeOK, SqlOK
    <3>2. Len(results') = Len(results) + 1 /\ results'[Len(results) + 1] = s
          /\ \A i \in 1..Len(results) : results'[i] = results[i]
      BY <1>3, <2>6
    <3>3. DOMAIN results' = 1..(Len(results) + 1) /\ DOMAIN results = 1..Len(results)
          /\ Len(results) \in Nat
      BY <1>3, <3>1, <3>2, LenProperties
    <3>4. \A i \in 1..(Len(results) + 1) : i \in 1..Len(results) \/ i = Len(results) + 1
      BY <3>3
    <3> QED  BY <2>4, <2>6, <3>2, <3>3, <3>4 DEF Started
  <2> QED  BY <1>4, <1>5, <2>1, <2>2, <2>6
<1> QED
  BY <1>10, <1>11, <1>12, <1>13

LEMMA BegunGame ==
    ASSUME TypeOK, GameItem \/ ItemManagerUpdate \/ GameSession \/ GameAnswer,
           NEW p \in Pids, sess'[p] = sess[p], Begun(p)'
    PROVE  Begun(p)
<1>1. UNCHANGED <<main, results>>
  BY DEF GameItem, CreateItem, ModifyItem, DropItem, DestroyItem, SafeboxCheckin,
         SafeboxCheckout, PickupItem, ExchangeItem, ItemOp, ItemManagerUpdate,
         GameSession, CharacterSelect, SavePlayer, Disconnect, ReqSafeboxLoad,
         CloseSafebox, FlushCommand, GameAnswer, AnswerIgnored, PlayerLoad, ItemLoad,
         SafeboxLoad, SafeboxWrongPassword, sql
<1>2. UNCHANGED toGame \/ (toGame # <<>> /\ toGame' = Tail(toGame))
  BY DEF GameItem, CreateItem, ModifyItem, DropItem, DestroyItem, SafeboxCheckin,
         SafeboxCheckout, PickupItem, ExchangeItem, ItemOp, ItemManagerUpdate,
         GameSession, CharacterSelect, SavePlayer, Disconnect, ReqSafeboxLoad,
         CloseSafebox, FlushCommand, GameAnswer, AnswerIgnored, PlayerLoad, ItemLoad,
         SafeboxLoad, SafeboxWrongPassword, game, AnswerIs, Received
<1>3. toGame \in Seq(Reply)  BY DEF TypeOK
<1>4. Started(toGame', p, sess[p]) => Started(toGame, p, sess[p])
  BY <1>2, <1>3, StartedIs
<1> QED  BY <1>1, <1>4 DEF Begun
-----------------------------------------------------------------------------
(* The sessions.                                                           *)

(* The game sends something that is no session's, or a save for a player   *)
(* who is in the game.                                                     *)
LEMMA SessionSend ==
    ASSUME NEW q \in Seq(Request), NEW m \in Request, NEW p, Session(q, p),
           m \in Uses(p) \cup Logouts(p) => m \in Plays(p) \cup Puts(p) /\ InGame(p)
    PROVE  Append(q, m) \in Seq(Request) /\ Session(Append(q, m), p)
<1> DEFINE a == Append(q, m)
<1>1. a \in Seq(Request)  BY AppendProperties
<1>2. \A A : Has(a, A) <=> Has(q, A) \/ m \in A
  BY HasAppend
<1>3. CASE m \notin Uses(p) \cup Logouts(p)
  <2>1. m \notin Loads(p) /\ m \notin Plays(p) \cup Puts(p) /\ m \notin Puts(p)
    BY <1>3 DEF Uses
  <2>2. Line(a, p, st[p])  BY <1>3, LineOther DEF Session
  <2>3. Asking(a, p)  BY <1>2, <2>1 DEF Session, Asking
  <2>4. Timed(a, p)  BY <1>2, <2>1 DEF Session, Timed
  <2>5. Waiting(a, p)  BY <1>2, <2>1 DEF Session, Waiting
  <2>6. up /\ ~InGame(p) => Backed(a, p, pcache)
    BY <2>1, BackedAppend DEF Session
  <2> QED  BY <1>1, <2>2, <2>3, <2>4, <2>5, <2>6 DEF Session
<1>4. CASE m \in Plays(p) \cup Puts(p) /\ InGame(p)
  <2>1. st[p] # "off" /\ st[p] # "asked"  BY <1>4 DEF InGame
  <2>2. ~Has(q, Loads(p))  BY <2>1 DEF Session, Asking
  <2>3. p \notin timer  BY <2>1, <2>2 DEF Session, Timed
  <2>4. Line(a, p, st[p]) /\ ~Has(a, Loads(p))
    BY <1>4, <2>1, <2>2, LineSave DEF Session
  <2>5. Asking(a, p) /\ Timed(a, p)  BY <2>3, <2>4 DEF Asking, Timed
  <2>6. Waiting(a, p)  BY <1>4, <2>4 DEF Waiting
  <2> QED  BY <1>1, <1>4, <2>4, <2>5, <2>6 DEF Session
<1> QED  BY <1>3, <1>4

(* The db reads a packet.                                                  *)
LEMMA SessionConsume ==
    ASSUME toDb \in Seq(Request), toDb # <<>>, toDb' = Tail(toDb),
           UNCHANGED <<st, sess, up>>, NEW p \in Pids, Session(toDb, p),
           Begun(p)' => Begun(p) \/ Head(toDb) \in Loads(p),
           p \in timer' => \/ p \in timer /\ Head(toDb) \notin Loads(p)
                           \/ Head(toDb) \in Logouts(p),
           Head(toDb) \in Plays(p) => p \in pcache',
           Waiting(toDb, p)'
    PROVE  Session(toDb, p)'
<1> DEFINE h == Head(toDb)
           t == Tail(toDb)
<1>1. t \in Seq(Request)  BY HeadTailProperties
<1>2. \A A : Has(toDb, A) <=> Has(t, A) \/ h \in A
  BY HasTail
<1>3. Line(t, p, st[p])  BY LineTail DEF Session
<1>4. h \in Loads(p) => ~Has(t, Loads(p))
  <2> SUFFICES ASSUME h \in Loads(p), Has(t, Loads(p)) PROVE FALSE
    OBVIOUS
  <2>1. /\ 1 \in 1..Len(toDb) /\ toDb[1] = h /\ DOMAIN toDb = 1..Len(toDb)
        /\ DOMAIN t = 1..(Len(toDb) - 1) /\ Len(toDb) \in Nat
        /\ \A i \in 1..(Len(toDb) - 1) : t[i] = toDb[i + 1]
    BY TailIs
  <2>2. PICK i \in 1..(Len(toDb) - 1) : t[i] \in Loads(p)
    BY <2>1 DEF Has
  <2>3. i + 1 \in 1..Len(toDb) /\ i + 1 # 1 /\ toDb[i + 1] \in Loads(p)
    BY <2>1, <2>2
  <2> QED  BY <2>1, <2>3 DEF Session, Line, Once
<1>5. Asking(toDb, p)'
  <2> SUFFICES ASSUME Has(t, Loads(p)), st[p] # "off" PROVE st[p] = "asked" /\ ~Begun(p)'
    BY DEF Asking
  <2>1. h \notin Loads(p) /\ Has(toDb, Loads(p))  BY <1>2, <1>4
  <2> QED  BY <2>1 DEF Session, Asking
<1>6. Timed(toDb, p)'
  <2>1. CASE p \in timer /\ h \notin Loads(p)
    BY <1>2, <2>1 DEF Session, Timed
  <2>2. CASE h \in Logouts(p)
    <3>1. st[p] = "off"  BY <1>2, <2>2 DEF Session, Line
    <3>2. ~Has(t, Plays(p) \cup Puts(p))
      <4>1. /\ 1 \in 1..Len(toDb) /\ toDb[1] = h /\ DOMAIN toDb = 1..Len(toDb)
            /\ DOMAIN t = 1..(Len(toDb) - 1) /\ Len(toDb) \in Nat
            /\ \A i \in 1..(Len(toDb) - 1) : t[i] = toDb[i + 1]
        BY TailIs
      <4> SUFFICES ASSUME NEW i \in 1..(Len(toDb) - 1), t[i] \in Plays(p) \cup Puts(p)
                   PROVE  FALSE
        BY <4>1 DEF Has
      <4>2. i + 1 \in 1..Len(toDb) /\ 1 < i + 1 /\ toDb[i + 1] \in Uses(p)
        BY <4>1 DEF Uses
      <4> QED  BY <2>2, <4>1, <4>2 DEF Session, Line, NoneAfter
    <3> QED  BY <3>1, <3>2 DEF Timed
  <2>3. CASE p \notin timer'  BY <2>3 DEF Timed
  <2> QED  BY <2>1, <2>2, <2>3
<1>7. up' /\ ~InGame(p)' => Backed(t, p, pcache')
  BY BackedTail DEF Session, InGame
<1> QED  BY <1>3, <1>5, <1>6, <1>7 DEF Session

LEMMA WaitingConsume ==
    ASSUME toDb \in Seq(Request), toDb # <<>>, toDb' = Tail(toDb), st' = st,
           NEW p \in Pids, Waiting(toDb, p),
           cache'.dirty /\ cache'.owner = p => cache.dirty /\ cache.owner = p,
           p \notin pcache' => p \notin pcache /\ Head(toDb) \notin Plays(p)
    PROVE  Waiting(toDb, p)'
<1>1. \A A : Has(toDb, A) <=> Has(Tail(toDb), A) \/ Head(toDb) \in A
  BY HasTail
<1> QED  BY <1>1 DEF Waiting, InGame

LEMMA SessionsDbPacket ==
    ASSUME TypeOK, CacheSets, Sessions, DbPacket PROVE Sessions'
<1> DEFINE h == Head(toDb)
<1>1. /\ toDb # <<>> /\ toDb' = Tail(toDb) /\ UNCHANGED <<st, sess, up>> /\ up
  BY DEF DbPacket, QUERY_ITEM_SAVE, QUERY_ITEM_DESTROY, QUERY_ITEM_FLUSH,
         QUERY_PLAYER_LOAD, QUERY_PLAYER_SAVE, QUERY_LOGOUT, QUERY_SAFEBOX_LOAD,
         QUERY_FLUSH_CACHE, Packet, Consume, game, dbVars
<1>2. toDb \in Seq(Request) /\ cache \in CacheState  BY DEF TypeOK, DbOK
<1>3. h \in Request  BY <1>1, <1>2, HeadTailProperties
<1> SUFFICES ASSUME NEW p \in Pids PROVE Session(toDb, p)'
  BY DEF Sessions
<1>4. Session(toDb, p)  BY DEF Sessions
<1>5. Begun(p)' => Begun(p) \/ h \in Loads(p)  BY BegunDbPacket
<1>6. ASSUME p \in timer' => \/ p \in timer /\ h \notin Loads(p)
                             \/ h \in Logouts(p),
             h \in Plays(p) => p \in pcache', Waiting(toDb, p)'
      PROVE  Session(toDb, p)'
  BY <1>1, <1>2, <1>4, <1>5, <1>6, SessionConsume
<1>7. ASSUME cache'.dirty /\ cache'.owner = p => cache.dirty /\ cache.owner = p,
             p \notin pcache' => p \notin pcache /\ h \notin Plays(p)
      PROVE  Waiting(toDb, p)'
  BY <1>1, <1>2, <1>4, <1>7, WaitingConsume DEF Session
<1>8. h \in Loads(p) => h.op = "PLAYER_LOAD"
  BY DEF Loads
<1>9. h \in Plays(p) => h.op = "PLAYER_SAVE"
  BY DEF Plays
<1>10. CASE QUERY_ITEM_SAVE
  <2> DEFINE x == h.x
  <2>0. Packet("ITEM_SAVE")  BY <1>10 DEF QUERY_ITEM_SAVE
  <2>1. h.op = "ITEM_SAVE" /\ x \in Data
    BY <2>0, HeadOfToDb DEF Request
  <2>2. UNCHANGED <<timer, pcache>>  BY <1>10 DEF QUERY_ITEM_SAVE
  <2>3. Waiting(toDb, p)'
    <3> SUFFICES ASSUME cache'.dirty, cache'.owner = p, p \notin pcache
                 PROVE  (InGame(p) \/ Has(Tail(toDb), Plays(p))) /\ ~Has(Tail(toDb), Loads(p))
      BY <1>1, <2>2 DEF Waiting, InGame
    <3>1. x.owner = p
      <4>1. CASE x.win = "box"
        BY <1>10, <4>1 DEF QUERY_ITEM_SAVE, NoCache
      <4>2. CASE x.win # "box"
        <5>1. PutItemCache(x, FALSE, set)  BY <1>10, <4>2 DEF QUERY_ITEM_SAVE
        <5>2. cache'.owner = x.owner  BY <5>1 DEF PutItemCache
        <5> QED  BY <5>2
      <4> QED  BY <4>1, <4>2
    <3>2. h \in Puts(p)  BY <1>3, <2>1, <3>1 DEF Puts
    <3>3. /\ 1 \in 1..Len(toDb) /\ toDb[1] = h /\ DOMAIN toDb = 1..Len(toDb)
      BY <1>1, <1>2, TailIs
    <3>4. \A A : Has(toDb, A) <=> Has(Tail(toDb), A) \/ h \in A
      BY <1>1, <1>2, HasTail
    <3>5. ~Has(toDb, Loads(p))
      BY <1>4, <3>2, <3>3 DEF Session, Line, Has
    <3>6. InGame(p) \/ Has(toDb, Plays(p))
      BY <1>1, <1>4, <3>2, <3>3 DEF Session, Backed, Has
    <3>7. h \notin Plays(p)  BY <1>9, <2>1
    <3> QED  BY <3>4, <3>5, <3>6, <3>7
  <2> QED  BY <1>6, <1>8, <1>9, <2>1, <2>2, <2>3
<1>11. CASE QUERY_ITEM_DESTROY \/ QUERY_ITEM_FLUSH \/ QUERY_SAFEBOX_LOAD
  <2>1. Packet("ITEM_DESTROY") \/ Packet("ITEM_FLUSH") \/ Packet("SAFEBOX_LOAD")
    BY <1>11 DEF QUERY_ITEM_DESTROY, QUERY_ITEM_FLUSH, QUERY_SAFEBOX_LOAD
  <2>2. h \notin Loads(p) /\ h \notin Plays(p)
    BY <1>8, <1>9, <2>1 DEF Packet
  <2>3. UNCHANGED <<timer, pcache>>
    BY <1>11 DEF QUERY_ITEM_DESTROY, QUERY_ITEM_FLUSH, QUERY_SAFEBOX_LOAD, dbVars
  <2>4. cache'.dirty => cache.dirty /\ cache'.owner = cache.owner
    <3>1. cache' \in {cache, [cache EXCEPT !.dirty = FALSE],
                      [cache EXCEPT !.dead = TRUE, !.dirty = FALSE]}
      BY <1>11 DEF QUERY_ITEM_DESTROY, QUERY_ITEM_FLUSH, QUERY_SAFEBOX_LOAD, dbVars, Flush
    <3> QED  BY <1>2, <3>1 DEF CacheState
  <2> QED  BY <1>6, <1>7, <2>2, <2>3, <2>4
<1>12. CASE QUERY_PLAYER_LOAD
  <2>1. Packet("PLAYER_LOAD")  BY <1>12 DEF QUERY_PLAYER_LOAD
  <2>2. h.op = "PLAYER_LOAD" /\ h \notin Plays(p)  BY <1>9, <2>1 DEF Packet
  <2>3. timer' = timer \ {h.p} /\ UNCHANGED <<cache, pcache>>
    BY <1>12 DEF QUERY_PLAYER_LOAD
  <2>4. p \in timer' => p \in timer /\ h \notin Loads(p)
    BY <2>3 DEF Loads
  <2>5. Waiting(toDb, p)'  BY <1>7, <2>2, <2>3
  <2> QED  BY <1>6, <2>2, <2>4, <2>5
<1>13. CASE QUERY_PLAYER_SAVE
  <2>1. Packet("PLAYER_SAVE")  BY <1>13 DEF QUERY_PLAYER_SAVE
  <2>2. h.op = "PLAYER_SAVE" /\ h \notin Loads(p)  BY <1>8, <2>1 DEF Packet
  <2>3. UNCHANGED <<cache, timer>> /\ pcache' = pcache \cup {h.p}
    BY <1>13 DEF QUERY_PLAYER_SAVE
  <2>4. h \in Plays(p) => p \in pcache'  BY <2>3 DEF Plays
  <2>5. Waiting(toDb, p)'  BY <1>7, <2>3, <2>4
  <2> QED  BY <1>6, <2>2, <2>3, <2>4, <2>5
<1>14. CASE QUERY_LOGOUT
  <2>1. Packet("LOGOUT")  BY <1>14 DEF QUERY_LOGOUT
  <2>2. h.op = "LOGOUT" /\ h \notin Loads(p) /\ h \notin Plays(p)
    BY <1>8, <1>9, <2>1 DEF Packet
  <2>3. UNCHANGED <<cache, pcache>> /\ timer' = timer \cup {h.p}
    BY <1>14 DEF QUERY_LOGOUT
  <2>4. h.p = p => h \in Logouts(p)  BY <1>3, <2>2 DEF Logouts
  <2>5. Waiting(toDb, p)'  BY <1>7, <2>2, <2>3
  <2> QED  BY <1>6, <2>2, <2>3, <2>4, <2>5
<1>15. CASE QUERY_FLUSH_CACHE
  <2>1. Packet("FLUSH_CACHE")  BY <1>15 DEF QUERY_FLUSH_CACHE
  <2>2. h \notin Loads(p) /\ h \notin Plays(p)  BY <1>8, <1>9, <2>1 DEF Packet
  <2>3. UNCHANGED timer  BY <1>15 DEF QUERY_FLUSH_CACHE
  <2>4. Waiting(toDb, p)'
    <3>1. CASE h.p \in pcache
      <4>1. pcache' = pcache \ {h.p} /\ FlushItemCacheSet(h.p)
        BY <1>15, <3>1 DEF QUERY_FLUSH_CACHE
      <4>2. ~cache'.dirty \/ (cache' = cache /\ set[h.p] # "with")
        BY <4>1 DEF FlushItemCacheSet, NoCache
      <4>3. cache.dirty => set[cache.owner] = "with"
        BY <1>1 DEF CacheSets, Consistent
      <4>4. CASE p = h.p
        BY <4>2, <4>3, <4>4 DEF Waiting
      <4>5. CASE p # h.p
        BY <1>7, <2>2, <4>1, <4>2, <4>5
      <4> QED  BY <4>4, <4>5
    <3>2. CASE h.p \notin pcache
      <4>1. UNCHANGED <<cache, pcache>>  BY <1>15, <3>2 DEF QUERY_FLUSH_CACHE
      <4> QED  BY <1>7, <2>2, <4>1
    <3> QED  BY <3>1, <3>2
  <2> QED  BY <1>6, <2>2, <2>3, <2>4
<1> QED
  BY <1>10, <1>11, <1>12, <1>13, <1>14, <1>15 DEF DbPacket

(* The rest of the db: the connection does not change.                     *)
LEMMA SessionStays ==
    ASSUME UNCHANGED <<toDb, st, sess>>, up' => up, NEW p \in Pids, Session(toDb, p),
           Begun(p)' => Begun(p), timer' \subseteq timer,
           cache'.dirty /\ cache'.owner = p => cache.dirty /\ cache.owner = p,
           p \in pcache \ pcache' => /\ ~(cache'.dirty /\ cache'.owner = p)
                                     /\ p \in timer \/ ~up'
    PROVE  Session(toDb, p)'
<1>1. Asking(toDb, p)'  BY DEF Session, Asking
<1>2. Timed(toDb, p)'  BY DEF Session, Timed
<1>3. Waiting(toDb, p)'  BY DEF Session, Waiting, InGame
<1>4. up' /\ ~InGame(p)' => Backed(toDb, p, pcache')
  <2> SUFFICES ASSUME up', ~InGame(p) PROVE Backed(toDb, p, pcache')
    BY DEF InGame
  <2>1. CASE p \in timer  BY <2>1, BackedNone DEF Session, Timed
  <2>2. CASE p \in pcache => p \in pcache'  BY <2>2 DEF Session, Backed
  <2> QED  BY <2>1, <2>2
<1> QED  BY <1>1, <1>2, <1>3, <1>4 DEF Session

(* An item the db has selected is not in the cache unwritten.              *)
LEMMA LoadedIsSaved ==
    ASSUME TypeOK, Kept, results # <<>>, Head(results).op = "ITEM",
           Head(results).s # 0, Head(results).x # NoItem
    PROVE  /\ Head(results).x \in Data /\ Head(results).x.owner = Head(results).p
           /\ saved = Head(results).x /\ saved.win = "inv" /\ ~cache.dirty
<1> DEFINE m == Head(results)
<1>1. /\ 1 \in DOMAIN results /\ m = results[1]
      /\ m \in Message(QueryOp) /\ m.p \in Pids
  BY HeadOfResults, TailIs DEF TypeOK, SqlOK
<1>2. m.x = Matches(saved, m.p, "inv")
  BY <1>1 DEF Kept, Store, Answered
<1>3. saved = m.x /\ saved.owner = m.p /\ saved.win = "inv"
  BY <1>2 DEF Matches
<1>4. m.x \in Data  BY <1>1 DEF Message
<1>5. ASSUME cache.dirty PROVE FALSE
  <2>1. saved = Cached(cache) /\ ~Pending(results, cache.owner)
    BY <1>5 DEF Kept, Store
  <2>2. m.p # cache.owner  BY <1>1, <2>1 DEF Pending
  <2>3. saved.owner = cache.owner
    BY <1>3, <2>1 DEF Cached, InInv, NoItem
  <2> QED  BY <1>3, <2>2, <2>3
<1> QED  BY <1>3, <1>4, <1>5

LEMMA SessionsDb ==
    ASSUME TypeOK, CacheSets, Sessions, Kept,
           DbResult \/ DbTimer \/ Shutdown \/ MainExecutes \/ AsyncExecutes
    PROVE  Sessions'
<1>0. UNCHANGED <<toDb, st, sess>>
  <2>1. CASE DbResult
    BY <2>1 DEF DbResult, ResultWithoutPeer, RESULT_PLAYER_LOAD, RESULT_ITEM_LOAD,
                RESULT_SAFEBOX_LOAD, game
  <2>2. CASE DbTimer \/ Shutdown
    BY <2>2 DEF DbTimer, UpdateItemCache, UpdatePlayerCache, UpdateLogoutPlayer, Shutdown, game
  <2>3. CASE MainExecutes \/ AsyncExecutes
    BY <2>3 DEF MainExecutes, AsyncExecutes, game
  <2> QED  BY <2>1, <2>2, <2>3
<1>1. UNCHANGED <<toDb, st, sess>> /\ (up' => up)
  <2>1. CASE Shutdown  BY <1>0, <2>1 DEF Shutdown
  <2>2. CASE DbResult
    BY <1>0, <2>2 DEF DbResult, ResultWithoutPeer, RESULT_PLAYER_LOAD, RESULT_ITEM_LOAD,
                RESULT_SAFEBOX_LOAD, Result
  <2>3. CASE DbTimer
    BY <1>0, <2>3 DEF DbTimer, UpdateItemCache, UpdatePlayerCache, UpdateLogoutPlayer
  <2>4. CASE MainExecutes \/ AsyncExecutes
    BY <1>0, <2>4 DEF MainExecutes, AsyncExecutes, dbVars
  <2> QED  BY <2>1, <2>2, <2>3, <2>4
<1> SUFFICES ASSUME NEW p \in Pids PROVE Session(toDb, p)'
  BY DEF Sessions
<1>2. Session(toDb, p)  BY DEF Sessions
<1>3. Begun(p)' => Begun(p)  BY BegunDb
<1>4. ASSUME timer' \subseteq timer,
             cache'.dirty /\ cache'.owner = p => cache.dirty /\ cache.owner = p,
             p \in pcache \ pcache' => /\ ~(cache'.dirty /\ cache'.owner = p)
                                       /\ p \in timer \/ ~up'
      PROVE  Session(toDb, p)'
  BY <1>1, <1>2, <1>3, <1>4, SessionStays
<1>5. cache \in CacheState  BY DEF TypeOK, DbOK
<1>6. CASE ResultWithoutPeer \/ RESULT_PLAYER_LOAD \/ RESULT_SAFEBOX_LOAD
           \/ MainExecutes \/ AsyncExecutes
  BY <1>4, <1>6 DEF ResultWithoutPeer, RESULT_PLAYER_LOAD, RESULT_SAFEBOX_LOAD,
                    MainExecutes, AsyncExecutes, dbVars
<1>7. CASE RESULT_ITEM_LOAD
  <2> DEFINE m == Head(results)
             sets == [set EXCEPT ![m.p] = IF @ = "none" THEN "without" ELSE @]
  <2>1. /\ UNCHANGED <<pcache, timer>>
        /\ results # <<>> /\ m.op = "ITEM" /\ m.s # 0
    BY <1>7 DEF RESULT_ITEM_LOAD, Result
  <2>2. cache' = cache \/ ~cache'.dirty
    <3>1. CASE m.x = NoItem  BY <1>7, <3>1 DEF RESULT_ITEM_LOAD
    <3>2. CASE m.x # NoItem
      <4>1. ~cache.dirty  BY <2>1, <3>2, LoadedIsSaved
      <4>2. PutItemCache(m.x, TRUE, sets)  BY <1>7, <3>2 DEF RESULT_ITEM_LOAD
      <4>3. ~cache'.dirty
        <5> DEFINE x == m.x
                   s == IF cache.owner # x.owner THEN Unlinked(sets) ELSE sets
                   c == [in |-> TRUE, owner |-> x.owner, ver |-> x.ver, dead |-> FALSE,
                         dirty |-> cache.dirty \/ ~TRUE]
        <5>1. c.dirty = (cache.dirty \/ ~TRUE)  OBVIOUS
        <5>2. ~c.dirty  BY <4>1, <5>1
        <5>3. [c EXCEPT !.dirty = FALSE].dirty = FALSE  OBVIOUS
        <5>4. cache' = c \/ cache' = [c EXCEPT !.dirty = FALSE]
          <6> HIDE DEF sets
          <6> QED  BY <4>2 DEF PutItemCache
        <5> HIDE DEF c
        <5> QED  BY <5>2, <5>3, <5>4
      <4> QED  BY <4>3
    <3> QED  BY <3>1, <3>2
  <2> QED  BY <1>4, <2>1, <2>2
<1>8. CASE UpdateItemCache \/ \E q \in Pids : UpdatePlayerCache(q)
  <2>1. UNCHANGED <<timer, pcache>> /\ cache' = [cache EXCEPT !.dirty = FALSE]
    BY <1>8 DEF UpdateItemCache, UpdatePlayerCache, Flush
  <2>2. ~cache'.dirty  BY <1>5, <2>1 DEF CacheState
  <2> QED  BY <1>4, <2>1, <2>2
<1>9. ASSUME NEW q \in Pids, UpdateLogoutPlayer(q) PROVE Session(toDb, p)'
  <2>1. /\ up /\ q \in timer /\ timer' = timer \ {q} /\ pcache' = pcache \ {q}
        /\ FlushItemCacheSet(q)
    BY <1>9 DEF UpdateLogoutPlayer
  <2>2. ~cache'.dirty \/ (cache' = cache /\ set[q] # "with")
    BY <2>1 DEF FlushItemCacheSet, NoCache
  <2>3. cache.dirty => set[cache.owner] = "with"
    BY <2>1 DEF CacheSets, Consistent
  <2> QED  BY <1>4, <2>1, <2>2, <2>3
<1>10. CASE Shutdown
  <2>1. UNCHANGED timer /\ ~up' /\ ~cache'.dirty
    BY <1>10 DEF Shutdown, NoCache
  <2> QED  BY <1>4, <2>1
<1> QED
  BY <1>6, <1>7, <1>8, <1>9, <1>10 DEF DbResult, DbTimer

(* The game's steps: the connection becomes q.                             *)
LEMMA SessionMoves ==
    ASSUME UNCHANGED dbVars, NEW p \in Pids, st'[p] = st[p], Begun(p)' => Begun(p),
           NEW q, toDb' = q, Session(q, p)
    PROVE  Session(toDb, p)'
<1>0. UNCHANGED <<cache, pcache, timer, up>>  BY DEF dbVars
<1>1. Asking(toDb, p)'  BY DEF Session, Asking
<1>2. Timed(toDb, p)'  BY <1>0 DEF Session, Timed
<1>3. Waiting(toDb, p)'  BY <1>0 DEF Session, Waiting, InGame
<1>4. Line(toDb', p, st'[p])  BY DEF Session
<1>5. up' /\ ~InGame(p)' => Backed(toDb', p, pcache')  BY <1>0 DEF Session, InGame
<1> QED  BY <1>1, <1>2, <1>3, <1>4, <1>5 DEF Session

LEMMA SessionSave ==
    ASSUME NEW q \in Seq(Request), NEW p, Session(q, p), NEW i \in ItemState,
           i.at \in {"inv", "box"} => InGame(i.by)
    PROVE  /\ q \o SaveSingleItem(i) \in Seq(Request)
           /\ Session(q \o SaveSingleItem(i), p)
<1>1. PICK m \in Request : /\ SaveSingleItem(i) = <<m>>
                           /\ IF i.at \in {"inv", "box"}
                              THEN m \in Puts(i.by) /\ m.op = "ITEM_SAVE"
                              ELSE m.op = "ITEM_DESTROY"
  BY SaveSays
<1>2. q \o <<m>> = Append(q, m)  BY AppendIsConcat
<1>3. m \in Uses(p) \cup Logouts(p) => m \in Plays(p) \cup Puts(p) /\ InGame(p)
  BY <1>1 DEF Uses, Loads, Plays, Puts, Logouts
<1> QED  BY <1>1, <1>2, <1>3, SessionSend

LEMMA SessionPlain ==
    ASSUME NEW q \in Seq(Request), NEW p, Session(q, p), NEW m \in Request,
           m.op \in {"ITEM_DESTROY", "ITEM_FLUSH", "SAFEBOX_LOAD", "FLUSH_CACHE"}
    PROVE  q \o <<m>> \in Seq(Request) /\ Session(q \o <<m>>, p)
<1>1. q \o <<m>> = Append(q, m)  BY AppendIsConcat
<1>2. m \notin Uses(p) \cup Logouts(p)
  BY DEF Uses, Loads, Plays, Puts, Logouts
<1> QED  BY <1>1, <1>2, SessionSend

LEMMA SessionsItem ==
    ASSUME TypeOK, TypeOK', Carried, Carried', Sessions, GameItem \/ ItemManagerUpdate
    PROVE  Sessions'
<1>1. UNCHANGED <<st, sess>> /\ UNCHANGED dbVars
  BY DEF GameItem, CreateItem, ModifyItem, DropItem, DestroyItem, SafeboxCheckin,
         SafeboxCheckout, PickupItem, ExchangeItem, ItemOp, ItemManagerUpdate
<1>2. toDb \in Seq(Request) /\ item \in ItemState /\ item' \in ItemState
  BY DEF TypeOK, GameOK
<1>3. /\ item.at \in {"inv", "box"} => InGame(item.by)
      /\ item'.at \in {"inv", "box"} => InGame(item'.by)
  BY <1>1 DEF Carried, InGame
<1> SUFFICES ASSUME NEW p \in Pids PROVE Session(toDb, p)'
  BY DEF Sessions
<1>4. Session(toDb, p)  BY DEF Sessions
<1>5. Begun(p)' => Begun(p)  BY <1>1, BegunGame
<1>6. \A q : toDb' = q /\ Session(q, p) => Session(toDb, p)'
  BY <1>1, <1>5, SessionMoves
<1> DEFINE flush == M("ITEM_FLUSH", Nobody, 0, NoItem)
           gone == M("ITEM_DESTROY", item.last, 0, NoItem)
<1>7. \/ UNCHANGED toDb
      \/ Send(SaveSingleItem(item')) \/ Send(SaveSingleItem(item))
      \/ Send(<<gone>>)
      \/ Send(SaveSingleItem(item') \o <<flush>>)
  <2>1. CASE GameItem
    BY <2>1 DEF GameItem, CreateItem, ModifyItem, DropItem, DestroyItem, SafeboxCheckin,
         SafeboxCheckout, PickupItem, ExchangeItem, Change, ChangeAndFlush
  <2>2. CASE ItemManagerUpdate  BY <2>2 DEF ItemManagerUpdate
  <2> QED  BY <2>1, <2>2
<1>8. flush \in Request /\ flush.op = "ITEM_FLUSH"
  BY DEF M, Message, Request, RequestOp
<1>9. gone \in Request /\ gone.op = "ITEM_DESTROY"
  BY <1>2 DEF M, Message, Request, RequestOp, ItemState
<1> HIDE DEF flush, gone
<1>10. /\ \A i \in {item, item'} : /\ toDb \o SaveSingleItem(i) \in Seq(Request)
                                   /\ Session(toDb \o SaveSingleItem(i), p)
       /\ Session(toDb \o <<gone>>, p)
  BY <1>2, <1>3, <1>4, <1>9, SessionSave, SessionPlain
<1>11. Session((toDb \o SaveSingleItem(item')) \o <<flush>>, p)
  BY <1>8, <1>10, SessionPlain
<1>12. (toDb \o SaveSingleItem(item')) \o <<flush>> = toDb \o (SaveSingleItem(item') \o <<flush>>)
  <2>1. SaveSingleItem(item') \in Seq(Request)  BY <1>2, SaveSingleItemType
  <2>2. <<flush>> \in Seq(Request)  BY <1>8, Sequences1
  <2> QED  BY <1>2, <2>1, <2>2, ConcatAssociative
<1> QED  BY <1>4, <1>6, <1>7, <1>10, <1>11, <1>12 DEF Send

LEMMA SessionsSelect ==
    ASSUME TypeOK, Numbered, Sessions, NEW c \in Pids, CharacterSelect(c)
    PROVE  Sessions'
<1> USE ItemAssumption
<1> DEFINE n == NPlayers + nSess
           m == M("PLAYER_LOAD", c, n + 1, NoItem)
<1>0. /\ toDb \in Seq(Request) /\ st \in [Pids -> {"off", "asked", "loading", "play"}]
      /\ sess \in [Pids -> Nat \ {0}] /\ nSess \in Nat /\ n \in Nat
      /\ main \in Seq(Statement) /\ toGame \in Seq(Reply) /\ results \in Seq(SqlAnswer)
  BY DEF TypeOK, GameOK, SqlOK
<1>1. /\ st[c] = "off" /\ ~LogoutPending(c)
      /\ st' = [st EXCEPT ![c] = "asked"] /\ sess' = [sess EXCEPT ![c] = n + 1]
      /\ UNCHANGED dbVars /\ UNCHANGED <<toGame, main, results>>
  BY DEF CharacterSelect, sql
<1>2. toDb' = toDb \o <<m>>
  <2>1. sess'[c] = n + 1  BY <1>0, <1>1
  <2> QED  BY <2>1 DEF CharacterSelect, Send
<1>3. m \in Request /\ m.op = "PLAYER_LOAD" /\ m.p = c
  BY <1>0, RequestType DEF RequestOp, M
<1>4. /\ Bounded(toGame, n) /\ Bounded(main, n) /\ Bounded(results, n)
  BY DEF Numbered
<1> HIDE DEF m
<1>5. toDb' = Append(toDb, m)  BY <1>0, <1>2, <1>3, AppendIsConcat
<1> SUFFICES ASSUME NEW p \in Pids PROVE Session(toDb, p)'
  BY DEF Sessions
<1>6. Session(toDb, p)  BY DEF Sessions
<1>7. CASE p # c
  <2>1. st'[p] = st[p] /\ sess'[p] = sess[p]  BY <1>0, <1>1, <1>7
  <2>2. m \notin Uses(p) \cup Logouts(p)
    BY <1>3, <1>7 DEF Uses, Loads, Plays, Puts, Logouts
  <2>3. Session(Append(toDb, m), p)  BY <1>0, <1>3, <1>6, <2>2, SessionSend
  <2>4. Begun(p)' => Begun(p)
    BY <1>1, <2>1 DEF Begun
  <2> QED  BY <1>1, <1>5, <2>1, <2>3, <2>4, SessionMoves
<1>8. CASE p = c
  <2>1. m \in Loads(p)  BY <1>3, <1>8 DEF Loads
  <2>2. ~Has(toDb, Logouts(p))
    <3>1. \A i \in DOMAIN toDb : toDb[i] \in ToSet(toDb)  BY DEF ToSet
    <3> QED  BY <1>1, <1>8, <3>1 DEF Has, Logouts, LogoutPending
  <2>3. ~Has(toDb, Uses(p)) /\ Line(toDb', p, "asked")
    BY <1>0, <1>1, <1>5, <1>6, <1>8, <2>1, <2>2, LineLoad DEF Session
  <2>4. st'[p] = "asked" /\ sess'[p] = n + 1  BY <1>0, <1>1, <1>8
  <2>5. \A A : Has(toDb', A) <=> Has(toDb, A) \/ m \in A
    BY <1>0, <1>3, <1>5, HasAppend
  <2>6. ~Has(toDb', Plays(p) \cup Puts(p)) /\ Has(toDb', Loads(p))
    <3>1. ~Has(toDb, Plays(p) \cup Puts(p))  BY <2>3 DEF Has, Uses
    <3>2. m \notin Plays(p) \cup Puts(p)  BY <2>1, Kinds
    <3> QED  BY <2>1, <2>5, <3>1, <3>2
  <2>7. ~Begun(p)'
    <3>1. \A T : \A q \in Seq(T) : Bounded(q, n) => ~Started(q, p, n + 1)
      <4> SUFFICES ASSUME NEW T, NEW q \in Seq(T), Bounded(q, n), Started(q, p, n + 1)
                   PROVE  FALSE
        OBVIOUS
      <4>1. PICK i \in DOMAIN q : q[i].s = n + 1  BY DEF Started
      <4>2. n + 1 <= n  BY <4>1 DEF Bounded
      <4> QED  BY <1>0, <4>2
    <3>2. ~Started(main, p, n + 1) /\ ~Started(results, p, n + 1) /\ ~Started(toGame, p, n + 1)
      BY <1>0, <1>4, <3>1
    <3> QED  BY <1>1, <2>4, <3>2 DEF Begun
  <2>8. UNCHANGED <<cache, pcache, timer, up>>  BY <1>1 DEF dbVars
  <2>9. ~(cache.dirty /\ cache.owner = p /\ p \notin pcache)
    <3>1. ~InGame(p)  BY <1>1, <1>8 DEF InGame
    <3>2. ~Has(toDb, Plays(p))  BY <2>3 DEF Has, Uses
    <3> QED  BY <1>6, <3>1, <3>2 DEF Session, Waiting
  <2>10. Backed(toDb', p, pcache')  BY <2>6, BackedNone
  <2>11. Line(toDb', p, st'[p])  BY <2>3, <2>4
  <2>12. Asking(toDb, p)'  BY <2>4, <2>7 DEF Asking
  <2>13. Timed(toDb, p)'  BY <2>6 DEF Timed
  <2>14. Waiting(toDb, p)'  BY <2>8, <2>9 DEF Waiting
  <2> QED  BY <2>10, <2>11, <2>12, <2>13, <2>14 DEF Session
<1> QED  BY <1>7, <1>8

LEMMA SessionsDisconnect ==
    ASSUME TypeOK, Carried, Sessions, NEW c \in Pids, Disconnect(c)
    PROVE  Sessions'
<1> DEFINE play == M("PLAYER_SAVE", c, 0, NoItem)
           bye == M("LOGOUT", c, 0, NoItem)
           save == IF InGame(c) THEN <<play>> ELSE <<>>
<1>0. /\ toDb \in Seq(Request) /\ st \in [Pids -> {"off", "asked", "loading", "play"}]
      /\ item \in ItemState
  BY DEF TypeOK, GameOK
<1>1. /\ st[c] # "off" /\ st' = [st EXCEPT ![c] = "off"]
      /\ UNCHANGED dbVars /\ UNCHANGED <<sess, toGame, main, results>>
  BY DEF Disconnect, sql
<1>2. toDb' = toDb \o ((save \o PendingOf(c)) \o <<bye>>)
  BY DEF Disconnect, Send
<1>3. /\ play \in Request /\ play.op = "PLAYER_SAVE" /\ play.p = c
      /\ bye \in Request /\ bye.op = "LOGOUT" /\ bye.p = c
  BY RequestType DEF RequestOp, M
<1> HIDE DEF play, bye
<1>4. save \in Seq(Request) /\ PendingOf(c) \in Seq(Request) /\ <<bye>> \in Seq(Request)
      /\ <<>> \in Seq(Request)
  BY <1>0, <1>3, Sequences1, EmptySeq, SaveSingleItemType DEF PendingOf
<1> DEFINE a == toDb \o save
           b == a \o PendingOf(c)
<1>5. a \in Seq(Request) /\ b \in Seq(Request) /\ toDb' = Append(b, bye)
  <2> HIDE DEF save
  <2>1. a \in Seq(Request) /\ b \in Seq(Request)  BY <1>0, <1>4, ConcatProperties
  <2>2. save \o PendingOf(c) \in Seq(Request)  BY <1>4, ConcatProperties
  <2>3. toDb' = (toDb \o (save \o PendingOf(c))) \o <<bye>>
    BY <1>0, <1>2, <1>4, <2>2, ConcatAssociative
  <2>4. toDb \o (save \o PendingOf(c)) = b
    BY <1>0, <1>4, ConcatAssociative
  <2>5. b \o <<bye>> = Append(b, bye)  BY <1>3, <2>1, AppendIsConcat
  <2> QED  BY <2>1, <2>3, <2>4, <2>5
<1>6. a = IF InGame(c) THEN Append(toDb, play) ELSE toDb
  BY <1>0, <1>3, AppendIsConcat, ConcatEmptySeq
<1>7. PendingOf(c) = <<>> \/ (/\ PendingOf(c) = SaveSingleItem(item) /\ Holds(c)
                              /\ InGame(item.by) /\ InGame(c))
  BY DEF PendingOf, Holds, Carried
<1>8. PendingOf(c) = <<>> => b = a
  BY <1>5, ConcatEmptySeq
<1> HIDE DEF save, a, b
<1>9. ASSUME NEW p \in Pids PROVE Session(a, p) /\ Session(b, p)
  <2>1. Session(toDb, p)  BY DEF Sessions
  <2>2. Session(a, p)
    <3>1. CASE InGame(c)
      <4>1. play \in Uses(p) \cup Logouts(p) => play \in Plays(p) /\ p = c
        BY <1>3 DEF Uses, Loads, Plays, Puts, Logouts
      <4> QED  BY <1>0, <1>3, <1>6, <2>1, <3>1, <4>1, SessionSend
    <3>2. CASE ~InGame(c)  BY <1>6, <2>1, <3>2
    <3> QED  BY <3>1, <3>2
  <2>3. Session(b, p)
    <3>1. CASE PendingOf(c) = <<>>  BY <1>8, <2>2, <3>1
    <3>2. CASE PendingOf(c) = SaveSingleItem(item) /\ InGame(item.by)
      <4>1. Session(a \o SaveSingleItem(item), p)
        BY <1>0, <1>5, <2>2, <3>2, SessionSave
      <4> QED  BY <3>2, <4>1 DEF b
    <3> QED  BY <1>7, <3>1, <3>2
  <2> QED  BY <2>2, <2>3
<1> SUFFICES ASSUME NEW p \in Pids PROVE Session(toDb, p)'
  BY DEF Sessions
<1>10. Session(b, p)  BY <1>9
<1>11. Begun(p)' => Begun(p)  BY <1>1 DEF Begun
<1>12. CASE p # c
  <2>1. st'[p] = st[p]  BY <1>0, <1>1, <1>12
  <2>2. bye \notin Uses(p) \cup Logouts(p)
    BY <1>3, <1>12 DEF Uses, Loads, Plays, Puts, Logouts
  <2>3. Session(Append(b, bye), p)  BY <1>3, <1>5, <1>10, <2>2, SessionSend
  <2> QED  BY <1>1, <1>5, <1>11, <2>1, <2>3, SessionMoves
<1>13. CASE p = c
  <2>1. bye \in Logouts(p)  BY <1>3, <1>13 DEF Logouts
  <2>2. bye \notin Loads(p) /\ bye \notin Plays(p) /\ bye \notin Puts(p)
    BY <2>1, Kinds
  <2>3. \A A : Has(toDb', A) <=> Has(b, A) \/ bye \in A
    BY <1>3, <1>5, HasAppend
  <2>4. st'[p] = "off"  BY <1>0, <1>1, <1>13
  <2>5. Line(toDb', p, st'[p])
    BY <1>1, <1>5, <1>10, <1>13, <2>1, <2>4, LineLogout DEF Session
  <2>6. UNCHANGED <<cache, pcache, timer, up>>  BY <1>1 DEF dbVars
  <2>7. Asking(toDb, p)'  BY <2>4 DEF Asking
  <2>8. Timed(toDb, p)'
    BY <1>10, <2>2, <2>3, <2>4, <2>6 DEF Session, Timed
  <2>9. InGame(p) => Has(b, Plays(p))
    <3> SUFFICES ASSUME InGame(p) PROVE Has(b, Plays(p))
      OBVIOUS
    <3>1. play \in Plays(p)  BY <1>3, <1>13 DEF Plays
    <3>2. Has(a, Plays(p))
      BY <1>0, <1>3, <1>6, <1>13, <3>1, HasAppend
    <3>3. CASE PendingOf(c) = <<>>  BY <1>8, <3>2, <3>3
    <3>4. CASE PendingOf(c) = SaveSingleItem(item)
      <4>1. PICK m \in Request : SaveSingleItem(item) = <<m>>  BY <1>0, SaveSays
      <4>2. b = Append(a, m)  BY <1>5, <3>4, <4>1, AppendIsConcat DEF b
      <4> QED  BY <1>5, <3>2, <4>2, HasAppend
    <3> QED  BY <1>7, <3>3, <3>4
  <2>10. Waiting(toDb, p)'
    <3> SUFFICES ASSUME cache.dirty, cache.owner = p, p \notin pcache
                 PROVE  Has(toDb', Plays(p)) /\ ~Has(toDb', Loads(p))
      BY <2>6 DEF Waiting
    <3>1. (InGame(p) \/ Has(b, Plays(p))) /\ ~Has(b, Loads(p))
      BY <1>10 DEF Session, Waiting
    <3> QED  BY <2>2, <2>3, <2>9, <3>1
  <2>11. ASSUME up PROVE Backed(toDb', p, pcache)
    <3>1. Backed(b, p, pcache)
      <4>1. CASE ~InGame(p)
        <5>1. PendingOf(c) = <<>>  BY <1>7, <1>13, <4>1
        <5>2. b = toDb  BY <1>6, <1>8, <1>13, <4>1, <5>1
        <5> QED  BY <2>11, <4>1, <5>2 DEF Sessions, Session
      <4>2. CASE InGame(p)
        <5>1. play \in Plays(p) /\ a = Append(toDb, play)
          BY <1>3, <1>6, <1>13, <4>2 DEF Plays
        <5>2. Backed(a, p, pcache)
          BY <1>0, <1>3, <5>1, BackedAppend
        <5>3. CASE PendingOf(c) = <<>>  BY <1>8, <5>2, <5>3
        <5>4. CASE PendingOf(c) = SaveSingleItem(item) /\ Holds(c)
          <6>1. PICK m \in Request : SaveSingleItem(item) = <<m>> /\ m \in Puts(p)
            BY <1>0, <1>13, <5>4, SaveSays DEF Holds
          <6>2. b = Append(a, m)  BY <1>5, <5>4, <6>1, AppendIsConcat DEF b
          <6> QED  BY <1>0, <1>5, <5>1, <5>2, <6>1, <6>2, BackedAppend
        <5> QED  BY <1>7, <5>3, <5>4
      <4> QED  BY <4>1, <4>2
    <3> QED  BY <1>3, <1>5, <2>2, <3>1, BackedAppend
  <2> QED  BY <2>5, <2>6, <2>7, <2>8, <2>10, <2>11 DEF Session
<1> QED  BY <1>12, <1>13

LEMMA SessionsGame ==
    ASSUME TypeOK, TypeOK', Numbered, Carried, Carried', Sessions,
           GameItem \/ ItemManagerUpdate \/ GameSession \/ GameAnswer
    PROVE  Sessions'
<1>0. /\ toDb \in Seq(Request) /\ toGame \in Seq(Reply) /\ item \in ItemState
      /\ st \in [Pids -> {"off", "asked", "loading", "play"}]
      /\ sess \in [Pids -> Nat \ {0}]
  BY DEF TypeOK, GameOK
<1>1. CASE GameItem \/ ItemManagerUpdate
  BY <1>1, SessionsItem
<1>2. CASE GameSession
  <2> PICK c \in Pids : \/ CharacterSelect(c) \/ SavePlayer(c) \/ Disconnect(c)
                        \/ ReqSafeboxLoad(c) \/ CloseSafebox(c) \/ FlushCommand(c)
    BY <1>2 DEF GameSession
  <2>1. CASE CharacterSelect(c)  BY <2>1, SessionsSelect
  <2>2. CASE Disconnect(c)  BY <2>2, SessionsDisconnect
  <2>3. CASE SavePlayer(c) \/ ReqSafeboxLoad(c) \/ CloseSafebox(c) \/ FlushCommand(c)
    <3> SUFFICES ASSUME NEW p \in Pids PROVE Session(toDb, p)'
      BY DEF Sessions
    <3>1. UNCHANGED <<st, sess>> /\ UNCHANGED dbVars
      BY <2>3 DEF SavePlayer, ReqSafeboxLoad, CloseSafebox, FlushCommand, game
    <3>2. Session(toDb, p)  BY DEF Sessions
    <3>3. Begun(p)' => Begun(p)  BY <1>2, <3>1, BegunGame
    <3>4. \A q : toDb' = q /\ Session(q, p) => Session(toDb, p)'
      BY <3>1, <3>3, SessionMoves
    <3>5. CASE SavePlayer(c)
      <4> DEFINE m == M("PLAYER_SAVE", c, 0, NoItem)
      <4>1. toDb' = toDb \o <<m>> /\ InGame(c)  BY <3>5 DEF SavePlayer, Send
      <4>2. m \in Request /\ m.op = "PLAYER_SAVE" /\ m.p = c
        BY RequestType DEF RequestOp, M
      <4> HIDE DEF m
      <4>3. toDb' = Append(toDb, m)  BY <1>0, <4>1, <4>2, AppendIsConcat
      <4>4. m \in Uses(p) \cup Logouts(p) => m \in Plays(p) /\ p = c
        BY <4>2 DEF Uses, Loads, Plays, Puts, Logouts
      <4> QED  BY <1>0, <3>2, <3>4, <4>1, <4>2, <4>3, <4>4, SessionSend
    <3>6. CASE ReqSafeboxLoad(c)
      <4> DEFINE m == M("SAFEBOX_LOAD", c, sess[c], NoItem)
      <4>1. toDb' = toDb \o <<m>>  BY <3>6 DEF ReqSafeboxLoad, Send
      <4>2. m \in Request /\ m.op = "SAFEBOX_LOAD"
        BY <1>0, RequestType DEF RequestOp, M
      <4> HIDE DEF m
      <4> QED  BY <1>0, <3>2, <3>4, <4>1, <4>2, SessionPlain
    <3>7. CASE FlushCommand(c)
      <4> DEFINE m == M("FLUSH_CACHE", c, 0, NoItem)
      <4>1. toDb' = toDb \o <<m>>  BY <3>7 DEF FlushCommand, Send
      <4>2. m \in Request /\ m.op = "FLUSH_CACHE"
        BY RequestType DEF RequestOp, M
      <4> HIDE DEF m
      <4> QED  BY <1>0, <3>2, <3>4, <4>1, <4>2, SessionPlain
    <3>8. CASE CloseSafebox(c)
      <4>1. UNCHANGED toDb \/ toDb' = toDb \o PendingOf(c)
        BY <3>8 DEF CloseSafebox, Send
      <4>2. CASE UNCHANGED toDb \/ PendingOf(c) = <<>>
        <5>1. toDb' = toDb  BY <1>0, <4>1, <4>2, ConcatEmptySeq
        <5> QED  BY <3>2, <3>4, <5>1
      <4>3. CASE toDb' = toDb \o PendingOf(c) /\ PendingOf(c) # <<>>
        <5>1. PendingOf(c) = SaveSingleItem(item) /\ InGame(item.by)
          BY <4>3 DEF PendingOf, Holds, Carried
        <5>2. Session(toDb \o SaveSingleItem(item), p)
          BY <1>0, <3>2, <5>1, SessionSave
        <5> QED  BY <3>4, <4>3, <5>1, <5>2
      <4> QED  BY <4>1, <4>2, <4>3
    <3> QED  BY <2>3, <3>5, <3>6, <3>7, <3>8
  <2> QED  BY <2>1, <2>2, <2>3
<1>3. CASE GameAnswer
  <2> SUFFICES ASSUME NEW p \in Pids PROVE Session(toDb, p)'
    BY DEF Sessions
  <2>1. UNCHANGED <<toDb, sess>> /\ UNCHANGED dbVars
    BY <1>3 DEF GameAnswer, AnswerIgnored, PlayerLoad, ItemLoad,
         SafeboxLoad, SafeboxWrongPassword, game
  <2>2. Session(toDb, p)  BY DEF Sessions
  <2>3. Begun(p)' => Begun(p)  BY <1>3, <2>1, BegunGame
  <2>4. CASE st'[p] = st[p]
    BY <2>1, <2>2, <2>3, <2>4, SessionMoves
  <2>5. CASE st'[p] # st[p]
    <3>1. \/ /\ st[p] = "asked" /\ st'[p] = "loading" /\ Begun(p)
          \/ /\ st[p] = "loading" /\ st'[p] = "play"
      <4>1. PICK c \in Pids : PlayerLoad(c) \/ ItemLoad(c)
        BY <1>3, <2>5 DEF GameAnswer, AnswerIgnored, SafeboxLoad, SafeboxWrongPassword, game
      <4>2. c = p
        BY <1>0, <2>5, <4>1 DEF PlayerLoad, ItemLoad
      <4>3. CASE PlayerLoad(c)
        <5>1. /\ st[p] = "asked" /\ st' = [st EXCEPT ![p] = "loading"]
              /\ toGame # <<>> /\ Head(toGame).op = "PLAYER_LOAD_SUCCESS"
              /\ Head(toGame).p = p /\ Head(toGame).s = sess[p]
          BY <4>2, <4>3 DEF PlayerLoad, AnswerIs, For
        <5>2. Started(toGame, p, sess[p])
          BY <1>0, <5>1, StartedIs DEF BegunOp
        <5> QED  BY <1>0, <5>1, <5>2 DEF Begun
      <4>4. CASE ItemLoad(c)
        BY <1>0, <4>2, <4>4 DEF ItemLoad
      <4> QED  BY <4>1, <4>3, <4>4
    <3>2. ~Has(toDb, Loads(p))
      BY <2>2, <3>1 DEF Session, Asking
    <3>3. UNCHANGED <<cache, pcache, timer, up>>  BY <2>1 DEF dbVars
    <3>4. Line(toDb, p, st'[p])
      BY <2>2, <3>1 DEF Session, Line
    <3>5. Asking(toDb, p)'  BY <2>1, <3>2 DEF Asking
    <3>6. Timed(toDb, p)'  BY <2>1, <2>2, <3>1, <3>3 DEF Session, Timed
    <3>7. InGame(p)'  BY <3>1 DEF InGame
    <3>8. Waiting(toDb, p)'  BY <2>1, <3>2, <3>7 DEF Waiting
    <3> QED  BY <2>1, <3>4, <3>5, <3>6, <3>7, <3>8 DEF Session
  <2> QED  BY <2>4, <2>5
<1> QED  BY <1>1, <1>2, <1>3

-----------------------------------------------------------------------------
(* What the db, its SQL connections and the table say about the item.      *)

LEMMA SelectsPending ==
    ASSUME NEW p
    PROVE  SelectsOf(p) <=> Pending(main, p) \/ Pending(results, p)
  BY DEF SelectsOf, Pending, ToSet

(* Not excused, a save changes nothing that a SELECT under way looks at.   *)
LEMMA SavingUnseen ==
    ASSUME NEW x, Saving(x), excuses' = {}
    PROVE  /\ saved' = x /\ Unseen(main, results, saved, x)
           /\ \A p \in Carrier(x) : ~Pending(main, p) /\ ~Pending(results, p)
<1>1. \A p \in Carrier(x) \cup Carrier(saved) : ~SelectsOf(p)
  BY DEF Saving
<1> QED  BY <1>1, SelectsPending DEF Saving, Unseen

LEMMA FlushedClean ==
    ASSUME NEW c \in CacheState
    PROVE  /\ ~[c EXCEPT !.dirty = FALSE].dirty
           /\ [c EXCEPT !.dirty = FALSE].dead = c.dead
           /\ ~NoCache.dirty /\ ~NoCache.dead
  BY DEF CacheState, NoCache

LEMMA KeptFlush ==
    ASSUME TypeOK, Kept, UNCHANGED <<async, row, saved, results>>,
           Flush \/ (Enqueue(FlushQuery(cache)) /\ cache' = NoCache)
                 \/ UNCHANGED <<cache, main>>
    PROVE  Kept'
<1>0. main \in Seq(Statement) /\ saved \in Saved /\ cache \in CacheState
  BY DEF TypeOK, SqlOK, HistOK, DbOK, Saved
<1>1. CASE UNCHANGED <<cache, main>>  BY <1>1 DEF Kept
<1>2. ASSUME main' = main \o FlushQuery(cache), ~cache'.dirty, cache'.dead => cache.dead
      PROVE  Kept'
  <2>1. Store(cache, main, async, row, saved, results)  BY DEF Kept
  <2>2. Store(cache', main \o FlushQuery(cache), async, row, saved, results)
    BY <1>0, <1>2, <2>1, StoreFlush
  <2> QED  BY <1>2, <2>2 DEF Kept
<1>3. CASE Flush
  BY <1>0, <1>2, <1>3, FlushedClean DEF Flush, Enqueue
<1>4. CASE Enqueue(FlushQuery(cache)) /\ cache' = NoCache
  BY <1>0, <1>2, <1>4, FlushedClean DEF Enqueue
<1> QED  BY <1>1, <1>3, <1>4

(* A query is asked that selects no items, or when nothing is unwritten.   *)
LEMMA KeptAsk ==
    ASSUME TypeOK, Kept, UNCHANGED <<cache, async, row, saved, results>>,
           NEW m \in Statement, m.op \in QueryOp, m.op = "ITEM" => ~cache.dirty,
           Enqueue(<<m>>)
    PROVE  Kept'
<1>0. main \in Seq(Statement)  BY DEF TypeOK, SqlOK
<1>1. main' = Append(main, m)  BY <1>0, AppendIsConcat DEF Enqueue
<1>2. Store(cache, main, async, row, saved, results)  BY DEF Kept
<1>3. Store(cache, Append(main, m), async, row, saved, results)
  BY <1>0, <1>2, StoreAsk
<1> QED  BY <1>1, <1>3 DEF Kept

LEMMA KeptSave ==
    ASSUME TypeOK, CacheSets, Kept, QUERY_ITEM_SAVE, excuses' = {}
    PROVE  Kept'
<1> DEFINE x == Head(toDb).x
<1>0. /\ main \in Seq(Statement) /\ cache \in CacheState /\ set \in SetState
      /\ UNCHANGED <<async, row, results>>
  BY DEF TypeOK, SqlOK, DbOK, QUERY_ITEM_SAVE
<1>1. x \in Data
  <2>1. Packet("ITEM_SAVE")  BY DEF QUERY_ITEM_SAVE
  <2>2. Head(toDb) \in Request /\ Head(toDb).op = "ITEM_SAVE"  BY <2>1, HeadOfToDb
  <2> QED  BY <2>2 DEF Request
<1>2. Saving(x)  BY DEF QUERY_ITEM_SAVE
<1> HIDE DEF x
<1>3. /\ saved' = x /\ Unseen(main, results, saved, x)
      /\ \A p \in Carrier(x) : ~Pending(main, p) /\ ~Pending(results, p)
  BY <1>2, SavingUnseen
<1>4. x \in Saved  BY <1>1 DEF Saved
<1>5. Store(cache, main, async, row, saved, results)  BY DEF Kept
<1>6. ASSUME Enqueue(<<Write(x)>>), ~cache'.dirty, ~cache'.dead PROVE Kept'
  <2>1. main' = Append(main, Write(x))
    BY <1>0, <1>4, <1>6, WriteSays, AppendIsConcat DEF Enqueue
  <2>2. Store(cache', Append(main, Write(x)), async, row, x, results)
    BY <1>0, <1>3, <1>4, <1>5, <1>6, StoreWrite
  <2> QED  BY <1>0, <1>3, <2>1, <2>2 DEF Kept
<1>7. CASE x.win = "box"
  <2>1. cache' = NoCache /\ Enqueue(<<Write(x)>>)
    BY <1>7 DEF QUERY_ITEM_SAVE, x
  <2> QED  BY <1>0, <1>6, <2>1, FlushedClean
<1>8. CASE x.win # "box"
  <2> DEFINE s == IF cache.owner # x.owner THEN Unlinked(set) ELSE set
             c == [in |-> TRUE, owner |-> x.owner, ver |-> x.ver, dead |-> FALSE,
                   dirty |-> cache.dirty \/ ~FALSE]
  <2>0. PutItemCache(x, FALSE, set)  BY <1>8 DEF QUERY_ITEM_SAVE, x
  <2>1. /\ c.in /\ c.owner = x.owner /\ c.ver = x.ver /\ ~c.dead
        /\ ~[c EXCEPT !.dirty = FALSE].dirty /\ ~[c EXCEPT !.dirty = FALSE].dead
    OBVIOUS
  <2>2. c.dirty
    <3>1. c.dirty = (cache.dirty \/ ~FALSE)  OBVIOUS
    <3> QED  BY <3>1
  <2>3. \/ cache' = c /\ Enqueue(<<>>)
        \/ cache' = [c EXCEPT !.dirty = FALSE] /\ Enqueue(<<Write(x)>>)
    BY <2>0 DEF PutItemCache
  <2> HIDE DEF c, s
  <2>4. CASE cache' = [c EXCEPT !.dirty = FALSE] /\ Enqueue(<<Write(x)>>)
    BY <1>6, <2>1, <2>4
  <2>5. CASE cache' = c /\ Enqueue(<<>>)
    <3>1. main' = main  BY <1>0, <2>5, ConcatEmptySeq DEF Enqueue
    <3>2. x.win = "inv"  BY <1>1, <1>8 DEF Data
    <3>3. Cached(c) = x
      <4>1. x = [owner |-> x.owner, win |-> "inv", ver |-> x.ver]
        BY <1>1, <3>2 DEF Data
      <4> QED  BY <2>1, <4>1 DEF Cached, InInv
    <3>4. ~Pending(main, c.owner) /\ ~Pending(results, c.owner)
      <4>1. x.owner \in Carrier(x)  BY <3>2 DEF Carrier
      <4> QED  BY <1>3, <2>1, <4>1
    <3>5. Store(c, main, async, row, x, results)
      BY <1>3, <1>5, <2>1, <2>2, <3>3, <3>4, StoreDirty
    <3> QED  BY <1>0, <1>3, <2>5, <3>1, <3>5 DEF Kept
  <2> QED  BY <2>3, <2>4, <2>5
<1> QED  BY <1>7, <1>8

LEMMA KeptDestroy ==
    ASSUME TypeOK, CacheSets, Kept, QUERY_ITEM_DESTROY, excuses' = {}
    PROVE  Kept'
<1>0. /\ main \in Seq(Statement) /\ cache \in CacheState /\ async \in Nat
      /\ UNCHANGED <<row, results>>
  BY DEF TypeOK, SqlOK, DbOK, QUERY_ITEM_DESTROY
<1>1. up /\ Saving(NoItem)  BY DEF QUERY_ITEM_DESTROY, Packet
<1>2. saved' = NoItem /\ Unseen(main, results, saved, NoItem)
  BY <1>1, SavingUnseen
<1>3. cache.dirty => cache.in /\ ~cache.dead
  BY <1>1 DEF CacheSets, Consistent
<1>4. NoItem \in Saved  BY DEF Saved
<1>5. Store(cache, main, async, row, saved, results)  BY DEF Kept
<1>6. ASSUME Enqueue(<<Write(NoItem)>>), ~cache'.dirty, UNCHANGED async PROVE Kept'
  <2>1. main' = Append(main, Write(NoItem))
    BY <1>0, <1>4, <1>6, WriteSays, AppendIsConcat DEF Enqueue
  <2>2. Store(cache', Append(main, Write(NoItem)), async, row, NoItem, results)
    BY <1>0, <1>2, <1>4, <1>5, <1>6, StoreWrite
  <2> QED  BY <1>0, <1>2, <1>6, <2>1, <2>2 DEF Kept
<1>7. CASE cache.in
  <2>1. /\ cache' = [cache EXCEPT !.dead = TRUE, !.dirty = FALSE] /\ UNCHANGED async
        /\ Enqueue(IF cache.dead THEN <<>> ELSE <<Write(NoItem)>>)
    BY <1>7 DEF QUERY_ITEM_DESTROY
  <2>2. ~cache'.dirty  BY <1>0, <2>1 DEF CacheState
  <2>3. CASE ~cache.dead  BY <1>6, <2>1, <2>2, <2>3
  <2>4. CASE cache.dead
    <3>1. main' = main  BY <1>0, <2>1, <2>4, ConcatEmptySeq DEF Enqueue
    <3>2. saved = NoItem  BY <1>5, <2>4 DEF Store
    <3>3. Store(cache', main, async, row, NoItem, results)
      BY <1>3, <1>5, <2>2, <2>4, <3>2, StoreClean
    <3> QED  BY <1>0, <1>2, <2>1, <3>1, <3>3 DEF Kept
  <2> QED  BY <2>3, <2>4
<1>8. CASE ~cache.in
  <2>1. /\ cache' = cache /\ ~cache.dirty
        /\ \/ async' = async + 1 /\ main' = main
           \/ Enqueue(<<Write(NoItem)>>) /\ UNCHANGED async
    BY <1>3, <1>8 DEF QUERY_ITEM_DESTROY
  <2>2. CASE async' = async + 1 /\ main' = main
    <3>1. Store(cache, main, async + 1, row, NoItem, results)
      BY <1>0, <1>2, <1>5, <2>1, StoreAsync
    <3> QED  BY <1>0, <1>2, <2>1, <2>2, <3>1 DEF Kept
  <2> QED  BY <1>6, <2>1, <2>2
<1> QED  BY <1>7, <1>8

LEMMA KeptPlayerLoad ==
    ASSUME TypeOK, CacheSets, Sessions, Kept, QUERY_PLAYER_LOAD, excuses' = {}
    PROVE  Kept'
<1> DEFINE h == Head(toDb)
           ask == M("PLAYER", h.p, h.s, NoItem)
           items == M("ITEM", h.p, h.s, NoItem)
<1>0. /\ main \in Seq(Statement) /\ toDb \in Seq(Request)
      /\ UNCHANGED <<cache, async, row, saved, results>>
  BY DEF TypeOK, SqlOK, QUERY_PLAYER_LOAD
<1>1. Packet("PLAYER_LOAD")  BY DEF QUERY_PLAYER_LOAD
<1>2. h \in Request /\ h.op = "PLAYER_LOAD"  BY <1>1, HeadOfToDb
<1>3. h.p \in Pids /\ h.s \in Nat  BY <1>2 DEF Request, Message
<1>4. /\ ask \in Statement /\ ask.op = "PLAYER" /\ ask.op \in QueryOp /\ ask.op # "ITEM"
      /\ items \in Statement /\ items.op = "ITEM" /\ items.op \in QueryOp
  <2>1. "PLAYER" \in QueryOp /\ "ITEM" \in QueryOp  BY DEF QueryOp
  <2>2. ask.op = "PLAYER" /\ items.op = "ITEM"  BY DEF M
  <2> QED  BY <1>3, <2>1, <2>2, QueryType
<1>5. cache.dirty => cache.owner \in Pids /\ set[cache.owner] = "with"
  <2>1. cache \in CacheState  BY DEF TypeOK, DbOK
  <2> QED  BY <1>1, <2>1 DEF CacheSets, Consistent, CacheState, Packet
<1>6. ASSUME h.p \notin pcache, cache.dirty, cache.owner = h.p PROVE FALSE
  <2>1. h \in Loads(h.p)  BY <1>2 DEF Loads
  <2>2. Has(toDb, Loads(h.p))  BY <1>0, <1>1, <2>1, TailIs DEF Has, Packet
  <2>3. Session(toDb, h.p)  BY <1>3 DEF Sessions
  <2> QED  BY <1>6, <2>2, <2>3 DEF Session, Waiting
<1>7. \/ UNCHANGED main
      \/ Enqueue(<<ask>> \o <<items>>) /\ h.p \notin pcache /\ ~SavedForOther(h.p)
      \/ Enqueue(<<>> \o <<items>>) /\ set[h.p] = "none" /\ ~SavedForOther(h.p)
  BY DEF QUERY_PLAYER_LOAD
<1> HIDE DEF h, ask, items
<1>8. CASE UNCHANGED main  BY <1>0, <1>8 DEF Kept
<1>9. CASE Enqueue(<<>> \o <<items>>) /\ set[h.p] = "none" /\ ~SavedForOther(h.p)
  <2>1. ~cache.dirty  BY <1>5, <1>9 DEF SavedForOther
  <2>2. <<>> \o <<items>> = <<items>>
    BY <1>4, Sequences1, ConcatEmptySeq
  <2> QED  BY <1>0, <1>4, <1>9, <2>1, <2>2, KeptAsk
<1>10. CASE Enqueue(<<ask>> \o <<items>>) /\ h.p \notin pcache /\ ~SavedForOther(h.p)
  <2>1. ~cache.dirty  BY <1>6, <1>10 DEF SavedForOther
  <2>2. Store(cache, main, async, row, saved, results)  BY DEF Kept
  <2>3. /\ Append(main, ask) \in Seq(Statement)
        /\ Store(cache, Append(main, ask), async, row, saved, results)
    BY <1>0, <1>4, <2>2, StoreAsk
  <2>4. Store(cache, Append(Append(main, ask), items), async, row, saved, results)
    BY <1>4, <2>1, <2>3, StoreAsk
  <2>5. main' = Append(Append(main, ask), items)
    <3>1. main \o <<ask>> = Append(main, ask)  BY <1>0, <1>4, AppendIsConcat
    <3>2. (main \o <<ask>>) \o <<items>> = Append(Append(main, ask), items)
      BY <1>4, <2>3, <3>1, AppendIsConcat
    <3>3. main \o (<<ask>> \o <<items>>) = (main \o <<ask>>) \o <<items>>
      BY <1>0, <1>4, Sequences1, ConcatAssociative
    <3> QED  BY <1>10, <3>2, <3>3 DEF Enqueue
  <2> QED  BY <1>0, <2>4, <2>5 DEF Kept
<1> QED  BY <1>7, <1>8, <1>9, <1>10

LEMMA KeptDbPacket ==
    ASSUME TypeOK, CacheSets, Sessions, Kept, DbPacket, excuses' = {}
    PROVE  Kept'
<1>1. CASE QUERY_ITEM_SAVE  BY <1>1, KeptSave
<1>2. CASE QUERY_ITEM_DESTROY  BY <1>2, KeptDestroy
<1>3. CASE QUERY_ITEM_FLUSH
  BY <1>3, KeptFlush DEF QUERY_ITEM_FLUSH, hist
<1>4. CASE QUERY_PLAYER_LOAD  BY <1>4, KeptPlayerLoad
<1>5. CASE QUERY_PLAYER_SAVE \/ QUERY_LOGOUT
  BY <1>5 DEF QUERY_PLAYER_SAVE, QUERY_LOGOUT, sql, hist, Kept
<1>6. CASE QUERY_SAFEBOX_LOAD
  <2> DEFINE h == Head(toDb)
             m == M("SAFEBOX", h.p, h.s, NoItem)
  <2>0. Packet("SAFEBOX_LOAD")  BY <1>6 DEF QUERY_SAFEBOX_LOAD
  <2>1. h \in Request /\ h.op = "SAFEBOX_LOAD"  BY <2>0, HeadOfToDb
  <2>2. h.p \in Pids /\ h.s \in Nat  BY <2>1 DEF Request, Message
  <2>3. "SAFEBOX" \in QueryOp /\ m.op = "SAFEBOX"  BY DEF QueryOp, M
  <2>4. m \in Statement  BY <2>2, <2>3, QueryType
  <2>5. Enqueue(<<m>>) /\ UNCHANGED <<cache, async, row, saved, results>>
    BY <1>6 DEF QUERY_SAFEBOX_LOAD, dbVars, hist
  <2> HIDE DEF m
  <2> QED  BY <2>3, <2>4, <2>5, KeptAsk
<1>7. CASE QUERY_FLUSH_CACHE
  BY <1>7, KeptFlush DEF QUERY_FLUSH_CACHE, FlushItemCacheSet, hist
<1> QED
  BY <1>1, <1>2, <1>3, <1>4, <1>5, <1>6, <1>7 DEF DbPacket

LEMMA KeptDbResult ==
    ASSUME TypeOK, Kept, DbResult
    PROVE  Kept'
<1> DEFINE m == Head(results)
           t == Tail(results)
<1>0. /\ main \in Seq(Statement) /\ results \in Seq(SqlAnswer)
      /\ cache \in CacheState /\ set \in SetState
  BY DEF TypeOK, SqlOK, DbOK
<1>1. results # <<>> /\ results' = t
  BY DEF DbResult, ResultWithoutPeer, RESULT_PLAYER_LOAD, RESULT_ITEM_LOAD,
         RESULT_SAFEBOX_LOAD, Result, PopResult
<1>2. UNCHANGED <<async, row, saved>>
  BY DEF DbResult, ResultWithoutPeer, RESULT_PLAYER_LOAD, RESULT_ITEM_LOAD,
         RESULT_SAFEBOX_LOAD, hist
<1>3. Store(cache, main, async, row, saved, t)
  BY <1>0, <1>1, StorePop DEF Kept
<1>4. m \in Message(QueryOp) /\ m.p \in Pids
  BY <1>1, HeadOfResults
<1> HIDE DEF t
<1>5. CASE UNCHANGED <<cache, main>>
  BY <1>1, <1>2, <1>3, <1>5 DEF Kept
<1>6. CASE ResultWithoutPeer \/ RESULT_PLAYER_LOAD
  BY <1>5, <1>6 DEF ResultWithoutPeer, RESULT_PLAYER_LOAD, dbVars
<1>7. CASE RESULT_SAFEBOX_LOAD
  <2> DEFINE ask == [m EXCEPT !.op = "SAFEBOX_ITEM"]
  <2>1. UNCHANGED cache /\ (UNCHANGED main \/ Enqueue(<<ask>>))
    BY <1>7 DEF RESULT_SAFEBOX_LOAD, dbVars
  <2>2. ask \in Statement /\ ask.op \in QueryOp /\ ask.op # "ITEM"
    BY <1>4 DEF Message, Statement, QueryOp
  <2> HIDE DEF ask
  <2>3. CASE Enqueue(<<ask>>)
    <3>1. main' = Append(main, ask)  BY <1>0, <2>2, <2>3, AppendIsConcat DEF Enqueue
    <3>2. Store(cache, Append(main, ask), async, row, saved, t)
      BY <1>0, <1>3, <2>2, StoreAsk
    <3> QED  BY <1>1, <1>2, <2>1, <3>1, <3>2 DEF Kept
  <2> QED  BY <1>5, <2>1, <2>3
<1>8. CASE RESULT_ITEM_LOAD
  <2> DEFINE sets == [set EXCEPT ![m.p] = IF @ = "none" THEN "without" ELSE @]
             x == m.x
             s == IF cache.owner # x.owner THEN Unlinked(sets) ELSE sets
             c == [in |-> TRUE, owner |-> x.owner, ver |-> x.ver, dead |-> FALSE,
                   dirty |-> cache.dirty \/ ~TRUE]
  <2>1. m.op = "ITEM" /\ m.s # 0  BY <1>8 DEF RESULT_ITEM_LOAD, Result
  <2>2. CASE x = NoItem
    <3>1. UNCHANGED <<cache, main>>  BY <1>8, <2>2 DEF RESULT_ITEM_LOAD
    <3> QED  BY <1>5, <3>1
  <2>3. CASE x # NoItem
    <3>1. x \in Data /\ x.owner = m.p /\ ~cache.dirty
      BY <1>1, <2>1, <2>3, LoadedIsSaved
    <3>2. PutItemCache(x, TRUE, sets)  BY <1>8, <2>3 DEF RESULT_ITEM_LOAD
    <3>3. sets[m.p] # "none"  BY <1>0, <1>4 DEF SetState
    <3>4. s[x.owner] # "none"
      <4>1. sets \in SetState  BY <1>0 DEF SetState
      <4> HIDE DEF sets
      <4>2. Unlinked(sets)[m.p] # "none"
        BY <1>4, <3>3, <4>1 DEF Unlinked, SetState
      <4> QED  BY <3>1, <3>3, <4>2
    <3>5. cache' = c /\ Enqueue(<<>>)
      <4> HIDE DEF sets
      <4> QED  BY <3>2, <3>4 DEF PutItemCache
    <3>6. ~c.dirty /\ ~c.dead
      <4>1. c.dirty = (cache.dirty \/ ~TRUE)  OBVIOUS
      <4>2. ~c.dirty  BY <3>1, <4>1
      <4>3. ~c.dead  OBVIOUS
      <4> QED  BY <4>2, <4>3
    <3> HIDE DEF c
    <3>7. main' = main  BY <1>0, <3>5, ConcatEmptySeq DEF Enqueue
    <3>8. Store(c, main, async, row, saved, t)
      BY <1>3, <3>1, <3>6, StoreClean
    <3> QED  BY <1>1, <1>2, <3>5, <3>7, <3>8 DEF Kept
  <2> QED  BY <2>2, <2>3
<1> QED  BY <1>6, <1>7, <1>8 DEF DbResult

LEMMA KeptSql ==
    ASSUME TypeOK, Kept, MainExecutes \/ AsyncExecutes, excuses' = {}
    PROVE  Kept'
<1>0. /\ main \in Seq(Statement) /\ results \in Seq(SqlAnswer) /\ async \in Nat
      /\ row \in Saved
  BY DEF TypeOK, SqlOK, Saved
<1>1. CASE MainExecutes
  <2> DEFINE q == Head(main)
             s == Selected(q)
  <2>1. /\ main # <<>> /\ main' = Tail(main) /\ async = 0
        /\ UNCHANGED <<cache, async, saved>>
        /\ IF q.op \in WriteOp THEN row' = q.x /\ UNCHANGED results
           ELSE results' = Append(results, s) /\ UNCHANGED row
    <3>1. async = 0
      <4>1. excuses' = IF async > 0 THEN excuses \cup {"reordered"} ELSE excuses
        BY <1>1 DEF MainExecutes
      <4>2. ~(async > 0)  BY <4>1
      <4> QED  BY <1>0, <4>2
    <3> QED  BY <1>1, <3>1 DEF MainExecutes, dbVars, WriteOp
  <2>2. Store(cache, main, 0, row, saved, results)  BY <2>1 DEF Kept
  <2>3. CASE q.op \in WriteOp
    <3>1. Store(cache, Tail(main), 0, q.x, saved, results)
      BY <1>0, <2>1, <2>2, <2>3, StoreExecWrite
    <3> QED  BY <2>1, <2>3, <3>1 DEF Kept
  <2>4. CASE q.op \notin WriteOp
    <3>1. q \in Statement  BY <1>0, <2>1, HeadTailProperties
    <3>2. q \in Message(QueryOp \cup WriteOp) /\ q.op \in QueryOp /\ q.p \in Pids
      BY <2>4, <3>1 DEF Statement, Message
    <3> DEFINE x == CASE q.op = "ITEM" -> Matches(row, q.p, "inv")
                      [] q.op = "SAFEBOX_ITEM" -> Matches(row, q.p, "box")
                      [] OTHER -> NoItem
    <3>3. x \in Data \cup {NoItem}  BY <1>0 DEF Matches, Saved
    <3>4. q.op = "ITEM" => x = Matches(row, q.p, "inv")  OBVIOUS
    <3>5. s = [q EXCEPT !.x = x]  BY DEF Selected
    <3> HIDE DEF x, s
    <3>6. s \in SqlAnswer /\ s.op = q.op /\ s.p = q.p /\ s.s = q.s /\ s.x = x
      BY <3>2, <3>3, <3>5 DEF Message, SqlAnswer
    <3> HIDE DEF q
    <3>7. Store(cache, Tail(main), 0, row, saved, Append(results, s))
      BY <1>0, <2>1, <2>2, <2>4, <3>4, <3>6, StoreExecSelect DEF q
    <3> QED  BY <2>1, <2>4, <3>7 DEF Kept
  <2> QED  BY <2>3, <2>4
<1>2. CASE AsyncExecutes
  <2>1. /\ async > 0 /\ async' = async - 1 /\ row' = NoItem
        /\ UNCHANGED <<cache, main, results, saved>>
        /\ ~ \E q \in ToSet(main) : q.op = "REPLACE"
    BY <1>2 DEF AsyncExecutes, dbVars
  <2>2. \A k \in DOMAIN main : main[k].op # "REPLACE"
    BY <2>1 DEF ToSet
  <2>3. Store(cache, main, async - 1, NoItem, saved, results)
    BY <1>0, <2>1, <2>2, StoreExecAsync DEF Kept
  <2> QED  BY <2>1, <2>3 DEF Kept
<1> QED  BY <1>1, <1>2

LEMMA KeptStep ==
    ASSUME TypeOK, CacheSets, Sessions, Kept, Next, excuses' = {}
    PROVE  Kept'
<1>1. CASE DbPacket  BY <1>1, KeptDbPacket
<1>2. CASE DbResult  BY <1>2, KeptDbResult
<1>3. CASE DbTimer
  <2>1. CASE UpdateItemCache
    BY <2>1, KeptFlush DEF UpdateItemCache, hist
  <2>2. ASSUME NEW p \in Pids, UpdatePlayerCache(p) PROVE Kept'
    BY <2>2, KeptFlush DEF UpdatePlayerCache, hist
  <2>3. ASSUME NEW p \in Pids, UpdateLogoutPlayer(p) PROVE Kept'
    BY <2>3, KeptFlush DEF UpdateLogoutPlayer, FlushItemCacheSet
  <2> QED  BY <1>3, <2>1, <2>2, <2>3 DEF DbTimer
<1>4. CASE Shutdown
  BY <1>4, KeptFlush DEF Shutdown, hist
<1>5. CASE MainExecutes \/ AsyncExecutes  BY <1>5, KeptSql
<1>6. CASE GameItem \/ ItemManagerUpdate
  <2>1. UNCHANGED dbVars /\ UNCHANGED sql /\ UNCHANGED hist
    BY <1>6 DEF GameItem, CreateItem, ModifyItem, DropItem, DestroyItem, SafeboxCheckin,
         SafeboxCheckout, PickupItem, ExchangeItem, ItemOp, ItemManagerUpdate
  <2> QED  BY <2>1 DEF Kept, dbVars, sql, hist
<1>7. CASE GameSession \/ GameAnswer
  <2>1. UNCHANGED dbVars /\ UNCHANGED sql /\ UNCHANGED hist
    <3>1. CASE GameSession
      BY <3>1 DEF GameSession, CharacterSelect, SavePlayer, Disconnect, ReqSafeboxLoad,
         CloseSafebox, FlushCommand
    <3>2. CASE GameAnswer
      BY <3>2 DEF GameAnswer, AnswerIgnored, PlayerLoad, ItemLoad,
         SafeboxLoad, SafeboxWrongPassword
    <3> QED  BY <1>7, <3>1, <3>2
  <2> QED  BY <2>1 DEF Kept, dbVars, sql, hist
<1>8. CASE GameCrash  BY <1>8 DEF GameCrash
<1> QED
  BY <1>1, <1>2, <1>3, <1>4, <1>5, <1>6, <1>7, <1>8 DEF Next

-----------------------------------------------------------------------------
LEMMA SavesInit == Init => SavesInv
<1> USE ItemAssumption
<1> SUFFICES ASSUME Init PROVE Numbered /\ Carried /\ Sessions /\ Kept
  BY DEF SavesInv
<1>1. /\ toDb = <<>> /\ toGame = <<>> /\ main = <<>> /\ results = <<>>
      /\ timer = {} /\ async = 0 /\ saved = row /\ nSess = 0
      /\ sess = [p \in Pids |-> p] /\ box = [p \in Pids |-> "closed"]
  BY DEF Init
<1>2. ~cache.dirty /\ ~cache.dead
  <2>1. cache \in {NoCache, [NoCache EXCEPT !.in = TRUE, !.owner = 1]}
    BY DEF Init, InitOnline, InitOffline
  <2>2. /\ ~NoCache.dirty /\ ~NoCache.dead
        /\ ~[NoCache EXCEPT !.in = TRUE, !.owner = 1].dirty
        /\ ~[NoCache EXCEPT !.in = TRUE, !.owner = 1].dead
    BY DEF NoCache
  <2> QED  BY <2>1, <2>2
<1>3. Numbered
  BY <1>1 DEF Numbered, Bounded, Pids
<1>4. Carried
  <2>1. item.at \in {"inv", "box"} => InGame(item.by)
    <3>1. CASE Online
      <4>1. st = [p \in Pids |-> "play"]  BY <3>1 DEF Init, InitOnline
      <4>2. item.at \in {"inv", "box"} => item.by \in Pids
        BY <3>1 DEF Init, InitOnline, Item, Pids
      <4> QED  BY <4>1, <4>2 DEF InGame
    <3>2. CASE ~Online
      BY <3>2 DEF Init, InitOffline, Item
    <3> QED  BY <3>1, <3>2
  <2> QED  BY <1>1, <2>1 DEF Carried
<1>5. Sessions
  BY <1>1, <1>2 DEF Sessions, Session, Line, Asking, Timed, Waiting, Backed, Has,
                    Followed, NoneAfter, Once
<1>6. Kept
  <2>1. Ends(<<>>, row, row)  BY DEF Ends, Says
  <2>2. Views(<<>>, row, row) /\ WellWritten(<<>>) /\ Answered(<<>>, row)
    BY DEF Views, WellWritten, Answered
  <2> QED  BY <1>1, <1>2, <2>1, <2>2 DEF Kept, Store
<1> QED  BY <1>3, <1>4, <1>5, <1>6

LEMMA SavesStep ==
    ASSUME TypeOK, TypeOK', CacheSets, SavesInv, [Next]_vars
    PROVE  SavesInv'
<1> SUFFICES ASSUME excuses' = {} PROVE (Numbered /\ Carried /\ Sessions /\ Kept)'
  BY DEF SavesInv
<1>1. excuses = {}  BY ExcusesGrow
<1>2. Numbered /\ Carried /\ Sessions /\ Kept  BY <1>1 DEF SavesInv
<1>3. CASE UNCHANGED vars
  <2>1. UNCHANGED <<item, st, sess, box, toDb, toGame, main, results, nSess>>
    BY <1>3 DEF vars, game, sql, count
  <2>2. UNCHANGED <<cache, pcache, timer, up, async, row, saved>>
    BY <1>3 DEF vars, dbVars, sql, hist
  <2>3. Numbered'  BY <1>2, <2>1 DEF Numbered
  <2>4. Carried'  BY <1>2, <2>1 DEF Carried, InGame
  <2>5. Kept'  BY <1>2, <2>1, <2>2 DEF Kept
  <2>6. Sessions'
    <3> SUFFICES ASSUME NEW p \in Pids PROVE Session(toDb, p)'
      BY DEF Sessions
    <3>1. Session(toDb, p)  BY <1>2 DEF Sessions
    <3>2. Begun(p)' => Begun(p)  BY <2>1 DEF Begun
    <3>3. UNCHANGED dbVars  BY <1>3 DEF vars
    <3>4. toDb' = toDb /\ st'[p] = st[p]  BY <2>1
    <3> QED  BY <3>1, <3>2, <3>3, <3>4, SessionMoves
  <2> QED  BY <2>3, <2>4, <2>5, <2>6
<1>4. CASE Next
  <2>1. ~GameCrash  BY DEF GameCrash
  <2>2. Carried'  BY <1>2, <1>4, <2>1, CarriedStep
  <2>3. Kept'  BY <1>2, <1>4, KeptStep
  <2>4. CASE DbPacket
    BY <1>2, <2>2, <2>3, <2>4, NumberedDbPacket, SessionsDbPacket
  <2>5. CASE DbResult \/ DbTimer \/ Shutdown \/ MainExecutes \/ AsyncExecutes
    BY <1>2, <2>2, <2>3, <2>5, NumberedDb, SessionsDb
  <2>6. CASE GameItem \/ ItemManagerUpdate \/ GameSession \/ GameAnswer
    BY <1>2, <2>2, <2>3, <2>6, NumberedGame, SessionsGame
  <2> QED  BY <1>4, <2>1, <2>4, <2>5, <2>6 DEF Next
<1> QED  BY <1>3, <1>4

LEMMA SavesInvPersist == TypeOK /\ SavesInv => SavesPersist
<1> SUFFICES ASSUME TypeOK, SavesInv, excuses = {}, async = 0 \/ ~Writing
             PROVE  Durable = saved
  BY DEF SavesPersist
<1>0. /\ main \in Seq(Statement) /\ async \in Nat /\ row \in Saved
  BY DEF TypeOK, SqlOK, Saved
<1>1. Store(cache, main, async, row, saved, results)
  BY DEF SavesInv, Kept
<1>2. CASE cache.dirty
  BY <1>1, <1>2 DEF Store, Durable
<1>3. CASE ~cache.dirty /\ async > 0
  <2>1. ~Writing  BY <1>3
  <2>2. \A k \in DOMAIN main : main[k].op # "REPLACE"
    BY <2>1 DEF Writing, WriteOp
  <2> QED  BY <1>1, <1>3, <2>2 DEF Store, Durable
<1>4. CASE ~cache.dirty /\ async = 0
  <2> DEFINE v == LastOf(main, WriteOp, row)
  <2>1. Says(main, WriteOp, row, Len(main) + 1, v)
    BY <1>0, LastOfSays
  <2>2. Durable = v  BY <1>4 DEF Durable
  <2> HIDE DEF v
  <2>3. v \in Saved
    <3>1. \A i \in DOMAIN main : main[i].x \in Saved
      <4>1. \A i \in DOMAIN main : main[i] \in Statement
        BY <1>0, LenProperties, ElementOfSeq
      <4> QED  BY <4>1 DEF Statement, Message, Saved
    <3> QED  BY <1>0, <2>1, <3>1 DEF Says
  <2> QED  BY <1>1, <1>4, <2>1, <2>2, <2>3 DEF Store, Ends
<1> QED  BY <1>0, <1>2, <1>3, <1>4

(* The last save or deletion the db took from the game is what its cache,  *)
(* its queued statements and the table come to, whatever sets are flushed, *)
(* timers fire, answers arrive and players come and go in between: unless  *)
(* one of the excused races happened, no saved item is lost and no stale   *)
(* copy of it replaces a newer one.                                        *)
THEOREM SavesAreKept == Spec => []SavesPersist
<1>1. Init => TypeOK /\ CacheSets /\ SavesInv
  BY TypeInit, CacheInit, SavesInit
<1>2. TypeOK /\ CacheSets /\ SavesInv /\ [Next]_vars => (TypeOK /\ CacheSets /\ SavesInv)'
  BY TypeStep, CacheStep, SavesStep
<1>3. TypeOK /\ CacheSets /\ SavesInv => SavesPersist
  BY SavesInvPersist
<1> QED  BY <1>1, <1>2, <1>3, PTL DEF Spec

-----------------------------------------------------------------------------
(* One copy: sequences.                                                    *)

(* A claim that holds while somebody has the item holds when nobody has.   *)
LEMMA ClaimBusy ==
    ASSUME NEW d, NEW z, NEW free, NEW q, NEW w, NEW k, Claim(d, z, FALSE, q, w, k)
    PROVE  Claim(d, z, free, q, w, k)
  BY DEF Claim

(* The game sends one more packet: the claim of a reader of d holds.       *)
LEMMA ClaimAppend ==
    ASSUME NEW d \in Seq(Request), NEW m \in Request, NEW z, NEW free \in BOOLEAN,
           NEW q, NEW w, NEW k \in 1..(Len(d) + 1), Claim(d, z, free, q, w, k),
           m.op \in ItemOps => ~free, w = "box" => ~BoxPut(m, q)
    PROVE  Claim(Append(d, m), z, free, q, w, k)
<1> DEFINE a == Append(d, m)
           n == Len(d)
<1>1. /\ n \in Nat /\ DOMAIN d = 1..n /\ DOMAIN a = 1..(n + 1)
      /\ (\A i \in 1..n : a[i] = d[i]) /\ a[n + 1] = m
  BY AppendIs
<1>2. \A v : Says(a, ItemOps, z, k, v) => Says(d, ItemOps, z, k, v)
  BY SaysAppendBefore
<1> HIDE DEF a, n
<1>3. \A j \in 1..(n + 1) : j \in 1..n \/ j = n + 1
  BY <1>1
<1>4. ASSUME NEW v \in Saved, Says(a, ItemOps, z, k, v), Of(v, q, w)
      PROVE  free /\ NoItemOp(a, k)
  <2>1. free /\ NoItemOp(d, k)
    BY <1>2, <1>4 DEF Claim
  <2> QED  BY <2>1, <1>1, <1>3 DEF NoItemOp
<1>5. w = "box" => \A j \in DOMAIN a : j >= k => ~BoxPut(a[j], q)
  BY <1>1, <1>3 DEF Claim
<1> QED  BY <1>4, <1>5 DEF Claim, a

(* The db reads one packet: a claim behind it moves up.                    *)
LEMMA ClaimTail ==
    ASSUME NEW d \in Seq(Request), d # <<>>, NEW z, NEW free \in BOOLEAN,
           NEW q, NEW w, NEW k \in Nat \ {0}, Claim(d, z, free, q, w, k + 1)
    PROVE  Claim(Tail(d), After(Head(d), z), free, q, w, k)
<1> DEFINE t == Tail(d)
           n == Len(d)
<1>1. /\ n \in Nat \ {0} /\ DOMAIN d = 1..n /\ DOMAIN t = 1..(n - 1)
      /\ \A i \in 1..(n - 1) : t[i] = d[i + 1]
  BY TailIs
<1>2. \A v : Says(t, ItemOps, After(Head(d), z), k, v) => Says(d, ItemOps, z, k + 1, v)
  BY SaysTail DEF After
<1> HIDE DEF t, n
<1>3. \A j \in 1..(n - 1) : j + 1 \in 1..n /\ (j >= k => j + 1 >= k + 1)
  BY <1>1
<1>4. ASSUME NEW v \in Saved, Says(t, ItemOps, After(Head(d), z), k, v), Of(v, q, w)
      PROVE  free /\ NoItemOp(t, k)
  <2>1. free /\ NoItemOp(d, k + 1)
    BY <1>2, <1>4 DEF Claim
  <2> QED  BY <2>1, <1>1, <1>3 DEF NoItemOp
<1>5. w = "box" => \A j \in DOMAIN t : j >= k => ~BoxPut(t[j], q)
  BY <1>1, <1>3 DEF Claim
<1> QED  BY <1>4, <1>5 DEF Claim, t

(* At the front, what is said is what the db knows.                        *)
LEMMA ClaimFirst ==
    ASSUME NEW d \in Seq(Request), NEW z \in Saved, NEW free \in BOOLEAN, NEW q, NEW w
    PROVE  Claim(d, z, free, q, w, 1) <=>
              /\ Of(z, q, w) => free /\ NoItemOp(d, 1)
              /\ w = "box" => \A j \in DOMAIN d : ~BoxPut(d[j], q)
<1>1. \A j \in DOMAIN d : j \in Nat /\ j >= 1
  BY LenProperties
<1>2. \A v \in Saved : Says(d, ItemOps, z, 1, v) <=> v = z
  BY <1>1 DEF Says
<1> QED  BY <1>1, <1>2 DEF Claim

(* The db reads one packet: the claim of a load it has read before holds,  *)
(* unless the packet gives the player the item.                            *)
LEMMA ClaimFirstTail ==
    ASSUME NEW d \in Seq(Request), d # <<>>, NEW z \in Saved, NEW free \in BOOLEAN,
           NEW q, NEW w \in {"inv", "box"}, Claim(d, z, free, q, w, 1), After(Head(d), z) \in Saved,
           w = "inv" /\ Head(d).op \in ItemOps => ~Of(Head(d).x, q, "inv"),
           Head(d).op = "ITEM_DESTROY" => Head(d).x = NoItem
    PROVE  Claim(Tail(d), After(Head(d), z), free, q, w, 1)
<1> DEFINE t == Tail(d)
           n == Len(d)
<1>1. /\ n \in Nat \ {0} /\ DOMAIN d = 1..n /\ DOMAIN t = 1..(n - 1)
      /\ \A i \in 1..(n - 1) : t[i] = d[i + 1]
      /\ t \in Seq(Request) /\ Head(d) = d[1] /\ 1 \in DOMAIN d
  BY TailIs
<1>2. \A j \in 1..(n - 1) : j + 1 \in 1..n /\ j + 1 >= 1 /\ j >= 1
  BY <1>1
<1>3. /\ Of(z, q, w) => free /\ NoItemOp(d, 1)
      /\ w = "box" => \A j \in DOMAIN d : ~BoxPut(d[j], q)
  BY ClaimFirst
<1> HIDE DEF t, n
<1>4. ASSUME Of(After(Head(d), z), q, w) PROVE free /\ NoItemOp(t, 1)
  <2>1. Head(d).op \notin ItemOps
    <3>1. ASSUME Head(d).op \in ItemOps PROVE FALSE
      <4>1. Of(Head(d).x, q, w)
        BY <1>4, <3>1 DEF After
      <4>2. w = "box"
        BY <3>1, <4>1
      <4>3. Head(d).op # "ITEM_DESTROY"
        BY <4>1, <4>2 DEF Of, NoItem
      <4> QED  BY <1>1, <1>3, <3>1, <4>1, <4>2, <4>3 DEF BoxPut, ItemOps
    <3> QED  BY <3>1
  <2>2. free /\ NoItemOp(d, 1)
    BY <1>3, <1>4, <2>1 DEF After
  <2> QED  BY <1>1, <1>2, <2>2 DEF NoItemOp
<1>5. w = "box" => \A j \in DOMAIN t : ~BoxPut(t[j], q)
  BY <1>1, <1>2, <1>3
<1> QED  BY <1>1, <1>4, <1>5, ClaimFirst DEF t

-----------------------------------------------------------------------------
(* Four queues, and messages of a kind A in them.                          *)

(* No message of a load is at most one.                                    *)
LEMMA NoneIsOne == ASSUME NEW Q, NEW A, None4(Q, A) PROVE One4(Q, A)
  BY DEF None4, One4

(* A queue without its first message, and the messages of a load in all    *)
(* four.                                                                   *)
LEMMA TailFour ==
    ASSUME NEW Q \in [1..4 -> Seq(Message4)], NEW s \in 1..4, Q[s] # <<>>, NEW A,
           NEW R \in [1..4 -> Seq(Message4)], With(R, Q, s, Tail(Q[s]))
    PROVE  /\ None4(Q, A) => None4(R, A)
           /\ One4(Q, A) => One4(R, A)
           /\ One4(Q, A) /\ Head(Q[s]) \in A => None4(R, A)
<1> DEFINE n == Len(Q[s])
           d(t) == IF t = s THEN 1 ELSE 0
<1>1. /\ Tail(Q[s]) \in Seq(Message4) /\ Head(Q[s]) = Q[s][1]
      /\ n \in Nat \ {0} /\ 1 \in DOMAIN Q[s] /\ DOMAIN Q[s] = 1..n
      /\ DOMAIN Tail(Q[s]) = 1..(n - 1)
      /\ \A i \in 1..(n - 1) : Tail(Q[s])[i] = Q[s][i + 1]
  BY TailIs
<1>3. R[s] = Tail(Q[s]) /\ \A t \in 1..4 : t # s => R[t] = Q[t]
  BY DEF With
<1>4. \A t \in 1..4 : \A i \in DOMAIN R[t] : i \in Nat
  BY LenProperties
<1>5. ASSUME NEW t \in 1..4, NEW i \in DOMAIN R[t]
      PROVE  i + d(t) \in DOMAIN Q[t] /\ R[t][i] = Q[t][i + d(t)] /\ ~(t = s /\ i + d(t) = 1)
  <2>1. CASE t = s
    <3>1. i \in 1..(n - 1) /\ d(t) = 1  BY <1>1, <1>3, <2>1
    <3>2. i + 1 \in 1..n /\ i + 1 # 1  BY <1>1, <3>1
    <3> HIDE DEF n, d
    <3> QED  BY <1>1, <1>3, <2>1, <3>1, <3>2
  <2>2. CASE t # s
    <3>1. d(t) = 0 /\ i + 0 = i  BY <1>4, <2>2
    <3> HIDE DEF d
    <3> QED  BY <1>3, <2>2, <3>1
  <2> QED  BY <2>1, <2>2
<1>6. \A t : d(t) \in Int
  OBVIOUS
<1> HIDE DEF d, n
<1>7. None4(Q, A) => None4(R, A)
  BY <1>5 DEF None4
<1>8. ASSUME One4(Q, A) PROVE One4(R, A)
  <2> SUFFICES ASSUME NEW t \in 1..4, NEW u \in 1..4, NEW i \in DOMAIN R[t], NEW j \in DOMAIN R[u],
                      R[t][i] \in A, R[u][j] \in A
               PROVE  t = u /\ i = j
    BY DEF One4
  <2>1. t = u /\ i + d(t) = j + d(u)
    <3>1. i + d(t) \in DOMAIN Q[t] /\ Q[t][i + d(t)] \in A  BY <1>5
    <3>2. j + d(u) \in DOMAIN Q[u] /\ Q[u][j + d(u)] \in A  BY <1>5
    <3> QED  BY <1>8, <3>1, <3>2 DEF One4
  <2>2. i \in Nat /\ j \in Nat /\ d(t) \in Int
    BY <1>4, <1>6
  <2> QED  BY <2>1, <2>2
<1>9. ASSUME One4(Q, A), Head(Q[s]) \in A PROVE None4(R, A)
  <2> SUFFICES ASSUME NEW t \in 1..4, NEW i \in DOMAIN R[t], R[t][i] \in A PROVE FALSE
    BY DEF None4
  <2>1. Q[s][1] \in A /\ Q[t][i + d(t)] \in A /\ i + d(t) \in DOMAIN Q[t] /\ 1 \in DOMAIN Q[s]
    BY <1>1, <1>5, <1>9
  <2>2. t = s /\ i + d(t) = 1
    BY <1>9, <2>1 DEF One4
  <2> QED  BY <1>5, <2>2
<1> QED  BY <1>7, <1>8, <1>9

(* A queue with one message more, and the messages of a load in all four.  *)
LEMMA AppendFour ==
    ASSUME NEW Q \in [1..4 -> Seq(Message4)], NEW s \in 1..4, NEW m \in Message4, NEW A,
           NEW R \in [1..4 -> Seq(Message4)], With(R, Q, s, Append(Q[s], m))
    PROVE  /\ None4(Q, A) /\ m \notin A => None4(R, A)
           /\ One4(Q, A) /\ m \notin A => One4(R, A)
           /\ None4(Q, A) => One4(R, A)
<1> DEFINE n == Len(Q[s])
<1>1. /\ Append(Q[s], m) \in Seq(Message4) /\ n \in Nat
      /\ DOMAIN Q[s] = 1..n /\ DOMAIN Append(Q[s], m) = 1..(n + 1)
      /\ \A i \in 1..n : Append(Q[s], m)[i] = Q[s][i]
      /\ Append(Q[s], m)[n + 1] = m
  BY AppendIs
<1>3. R[s] = Append(Q[s], m) /\ \A t \in 1..4 : t # s => R[t] = Q[t]
  BY DEF With
<1>5. ASSUME NEW t \in 1..4, NEW i \in DOMAIN R[t]
      PROVE  (i \in DOMAIN Q[t] /\ R[t][i] = Q[t][i]) \/ (t = s /\ i = n + 1 /\ R[t][i] = m)
  <2>1. CASE t = s
    <3>1. i \in 1..(n + 1)  BY <1>1, <1>3, <2>1
    <3>2. i \in 1..n \/ i = n + 1  BY <1>1, <3>1
    <3> HIDE DEF n
    <3> QED  BY <1>1, <1>3, <2>1, <3>2
  <2>2. CASE t # s
    BY <1>3, <2>2
  <2> QED  BY <2>1, <2>2
<1> HIDE DEF n
<1>7. ASSUME None4(Q, A), m \notin A PROVE None4(R, A)
  BY <1>5, <1>7 DEF None4
<1>8. ASSUME One4(Q, A), m \notin A PROVE One4(R, A)
  <2> SUFFICES ASSUME NEW t \in 1..4, NEW u \in 1..4, NEW i \in DOMAIN R[t], NEW j \in DOMAIN R[u],
                      R[t][i] \in A, R[u][j] \in A
               PROVE  t = u /\ i = j
    BY DEF One4
  <2>1. i \in DOMAIN Q[t] /\ Q[t][i] \in A  BY <1>5, <1>8
  <2>2. j \in DOMAIN Q[u] /\ Q[u][j] \in A  BY <1>5, <1>8
  <2> QED  BY <1>8, <2>1, <2>2 DEF One4
<1>9. ASSUME None4(Q, A) PROVE One4(R, A)
  BY <1>5, <1>9 DEF None4, One4
<1> QED  BY <1>7, <1>8, <1>9

-----------------------------------------------------------------------------

(* A load that is not under way claims nothing.                            *)
LEMMA ClaimsNone ==
    ASSUME NEW Q, NEW A, None4(Q, A), NEW z, NEW free, NEW b, NEW q, NEW w
    PROVE  Claims(Q, z, free, b, A, q, w)
<1>1. One4(Q, A)  BY NoneIsOne
<1>2. ~Has(Q[2], A) /\ ~Has(Q[3], A)  BY DEF None4, Has
<1>3. (\A k \in DOMAIN Q[1] : Q[1][k] \notin A) /\ (\A k \in DOMAIN Q[4] : Q[4][k] \notin A)
  BY DEF None4
<1> QED  BY <1>1, <1>2, <1>3 DEF Claims

(* The game lets go of the item: what held of the loads still holds.       *)
LEMMA ClaimsBusy ==
    ASSUME NEW Q, NEW A, NEW z, NEW free, NEW b, NEW q, NEW w,
           Claims(Q, z, FALSE, b, A, q, w)
    PROVE  Claims(Q, z, free, b, A, q, w)
  BY ClaimBusy DEF Claims

(* The game sends a packet: what held of one load still holds.             *)
LEMMA ClaimsSend ==
    ASSUME NEW Q, NEW R, NEW m, NEW z, NEW free, NEW b, NEW A, NEW q, NEW w,
           Sendable(Q, R, m, z, free, b, A, q, w)
    PROVE  Claims(R, z, free, b, A, q, w)
<1>0. /\ Q \in [1..4 -> Seq(Message4)] /\ Q[1] \in Seq(Request)
      /\ free \in BOOLEAN /\ Claims(Q, z, free, b, A, q, w)
      /\ m \in Request /\ m \notin A /\ (m.op \in ItemOps => ~free)
      /\ w = "box" /\ b = "asked" => ~BoxPut(m, q)
      /\ R \in [1..4 -> Seq(Message4)] /\ With(R, Q, 1, Append(Q[1], m))
  BY DEF Sendable
<1> USE <1>0
<1> DEFINE d == Q[1]
           a == Append(d, m)
           n == Len(d)
<1>1. /\ n \in Nat /\ DOMAIN d = 1..n /\ DOMAIN a = 1..(n + 1)
      /\ (\A i \in 1..n : a[i] = d[i]) /\ a[n + 1] = m
  BY AppendIs
<1>2. m \in Message4  BY DEF Message4
<1>3. R[1] = a /\ R[2] = Q[2] /\ R[3] = Q[3] /\ R[4] = Q[4]
  BY DEF With
<1>4. One4(R, A) /\ (None4(Q, A) => None4(R, A))
  <2>1. One4(Q, A)  BY DEF Claims
  <2> QED  BY <1>2, <2>1, AppendFour
<1> HIDE DEF a
<1>5. ASSUME NEW k \in 1..(n + 1), Claim(d, z, free, q, w, k), ~None4(Q, A)
      PROVE  Claim(a, z, free, q, w, k)
  <2>1. w = "box" => ~BoxPut(m, q)  BY <1>5 DEF Claims
  <2> QED  BY <1>5, <2>1, ClaimAppend DEF a
<1>6. ASSUME NEW k \in DOMAIN a, a[k] \in A PROVE Claim(a, z, free, q, w, k)
  <2>0. k \in 1..n \/ k = n + 1  BY <1>1, <1>6
  <2>1. k \in 1..n /\ d[k] \in A /\ k \in DOMAIN Q[1]  BY <1>1, <1>6, <2>0
  <2>2. Claim(d, z, free, q, w, k)  BY <2>1 DEF Claims
  <2>4. ~None4(Q, A)  BY <2>1 DEF None4
  <2>3. k \in 1..(n + 1)  BY <1>1, <2>1
  <2> HIDE DEF d, n
  <2> QED  BY <1>5, <2>2, <2>3, <2>4
<1>7. ASSUME Has(Q[2], A) \/ Has(Q[3], A) PROVE Claim(a, z, free, q, w, 1)
  <2>1. Claim(d, z, free, q, w, 1) /\ ~None4(Q, A)  BY <1>7 DEF Claims, None4, Has
  <2>2. 1 \in 1..(n + 1)  BY <1>1
  <2> HIDE DEF d, n
  <2> QED  BY <1>5, <2>1, <2>2
<1>8. ASSUME NEW k \in DOMAIN Q[4], Q[4][k] \in A, Q[4][k].x # NoItem
      PROVE  free /\ z = Q[4][k].x /\ Of(z, q, w) /\ NoItemOp(a, 1)
  <2>1. free /\ z = Q[4][k].x /\ Of(z, q, w) /\ NoItemOp(d, 1)  BY <1>8 DEF Claims
  <2>2. m.op \notin ItemOps  BY <2>1
  <2>3. \A i \in 1..(n + 1) : i \in 1..n \/ i = n + 1  BY <1>1
  <2> QED  BY <1>1, <2>1, <2>2, <2>3 DEF NoItemOp
<1>9. w = "box" /\ ~None4(R, A) => b = "asked"
  BY <1>4 DEF Claims
<1> QED  BY <1>3, <1>4, <1>6, <1>7, <1>8, <1>9 DEF Claims

(* A player asks.                                                          *)
LEMMA ClaimsAsk ==
    ASSUME NEW Q \in [1..4 -> Seq(Message4)], Q[1] \in Seq(Request), NEW A, NEW z,
           NEW free \in BOOLEAN, NEW b, NEW q, NEW w, None4(Q, A),
           NEW m \in Request, m.op \notin ItemOps, m.op # "ITEM_SAVE",
           w = "box" => b = "asked",
           \A v \in Saved : Says(Q[1], ItemOps, z, Len(Q[1]) + 1, v) => ~Of(v, q, w) \/ free,
           NEW R \in [1..4 -> Seq(Message4)], With(R, Q, 1, Append(Q[1], m))
    PROVE  Claims(R, z, free, b, A, q, w)
<1> DEFINE d == Q[1]
           a == Append(d, m)
           n == Len(d)
<1>1. /\ n \in Nat /\ DOMAIN d = 1..n /\ DOMAIN a = 1..(n + 1)
      /\ (\A i \in 1..n : a[i] = d[i]) /\ a[n + 1] = m
  BY AppendIs
<1>2. m \in Message4  BY DEF Message4
<1>3. R[1] = a /\ R[2] = Q[2] /\ R[3] = Q[3] /\ R[4] = Q[4]
  BY DEF With
<1>4. One4(R, A)  BY <1>2, AppendFour
<1>5. ~Has(Q[2], A) /\ ~Has(Q[3], A)  BY DEF None4, Has
<1>6. (\A k \in DOMAIN d : d[k] \notin A) /\ (\A k \in DOMAIN Q[4] : Q[4][k] \notin A)
  BY DEF None4
<1>7. \A v : Says(a, ItemOps, z, n + 1, v) => Says(d, ItemOps, z, n + 1, v)
  <2>1. n + 1 \in 1..(Len(d) + 1)  BY <1>1
  <2> QED  BY <2>1, SaysAppendBefore
<1>8. \A j \in DOMAIN a : j >= n + 1 => a[j] = m
  BY <1>1
<1>9. Claim(a, z, free, q, w, n + 1)
  <2> HIDE DEF a, n
  <2>1. NoItemOp(a, n + 1)  BY <1>8 DEF NoItemOp
  <2>2. \A j \in DOMAIN a : j >= n + 1 => ~BoxPut(a[j], q)  BY <1>8 DEF BoxPut
  <2> QED  BY <1>7, <2>1, <2>2 DEF Claim, n
<1>10. \A k \in DOMAIN a : a[k] \in A => k = n + 1
  BY <1>1, <1>6
<1> HIDE DEF a, n
<1> QED  BY <1>3, <1>4, <1>5, <1>6, <1>9, <1>10 DEF Claims

(* The db reads a packet: what held of one load still holds, and a load it *)
(* reads may go on.                                                        *)
LEMMA ClaimsRead ==
    ASSUME NEW Q, NEW R, NEW z, NEW free, NEW b, NEW A, NEW q, NEW w,
           Readable(Q, R, z, free, b, A, q, w)
    PROVE  /\ Claims(R, After(Head(Q[1]), z), free, b, A, q, w)
           /\ Head(Q[1]) \in A /\ Head(Q[1]).op \notin ItemOps =>
                  None4(R, A) /\ Claim(R[1], z, free, q, w, 1) /\ (w = "box" => b = "asked")
<1>0. /\ Q \in [1..4 -> Seq(Message4)] /\ Q[1] \in Seq(Request) /\ Q[1] # <<>>
      /\ z \in Saved /\ free \in BOOLEAN /\ w \in {"inv", "box"}
      /\ Claims(Q, z, free, b, A, q, w) /\ After(Head(Q[1]), z) \in Saved
      /\ w = "inv" /\ Head(Q[1]).op \in ItemOps /\ (Has(Q[2], A) \/ Has(Q[3], A))
            => ~Of(Head(Q[1]).x, q, "inv")
      /\ Head(Q[1]).op = "ITEM_DESTROY" => Head(Q[1]).x = NoItem
      /\ R \in [1..4 -> Seq(Message4)] /\ With(R, Q, 1, Tail(Q[1]))
  BY DEF Readable
<1> USE <1>0
<1> DEFINE d == Q[1]
           t == Tail(d)
           h == Head(d)
           n == Len(d)
<1>1. /\ n \in Nat \ {0} /\ DOMAIN d = 1..n /\ DOMAIN t = 1..(n - 1)
      /\ \A i \in 1..(n - 1) : t[i] = d[i + 1]
      /\ h = d[1] /\ 1 \in DOMAIN d
  BY TailIs
<1>2. R[1] = t /\ R[2] = Q[2] /\ R[3] = Q[3] /\ R[4] = Q[4]
  BY DEF With
<1>3. One4(R, A) /\ (None4(Q, A) => None4(R, A)) /\ (h \in A => None4(R, A))
  <2>1. One4(Q, A) /\ 1 \in 1..4  BY DEF Claims
  <2>2. /\ None4(Q, A) => None4(R, A)
        /\ One4(Q, A) => One4(R, A)
        /\ One4(Q, A) /\ Head(Q[1]) \in A => None4(R, A)
    BY <2>1, TailFour
  <2> QED  BY <2>1, <2>2
<1> HIDE DEF t, h, n
<1>4. ASSUME NEW k \in DOMAIN t, t[k] \in A PROVE Claim(t, After(h, z), free, q, w, k)
  <2>1. k \in Nat \ {0} /\ k + 1 \in DOMAIN d /\ d[k + 1] \in A
    BY <1>1, <1>4
  <2>2. Claim(d, z, free, q, w, k + 1)
    BY <2>1 DEF Claims
  <2> QED  BY <2>1, <2>2, ClaimTail DEF t, h
<1>5. ASSUME Has(Q[2], A) \/ Has(Q[3], A) PROVE Claim(t, After(h, z), free, q, w, 1)
  <2>1. Claim(d, z, free, q, w, 1)
    BY <1>5 DEF Claims
  <2>2. w = "inv" /\ Head(d).op \in ItemOps => ~Of(Head(d).x, q, "inv")
    BY <1>5
  <2> QED  BY <2>1, <2>2, ClaimFirstTail DEF t, h
<1>6. ASSUME NEW k \in DOMAIN Q[4], Q[4][k] \in A, Q[4][k].x # NoItem
      PROVE  free /\ After(h, z) = Q[4][k].x /\ Of(After(h, z), q, w) /\ NoItemOp(t, 1)
  <2>1. free /\ z = Q[4][k].x /\ Of(z, q, w) /\ NoItemOp(d, 1)
    BY <1>6 DEF Claims
  <2>2. h.op \notin ItemOps /\ After(h, z) = z
    <3>1. 1 \in DOMAIN d /\ 1 >= 1 /\ d[1] = h  BY <1>1
    <3> QED  BY <2>1, <3>1 DEF NoItemOp, After
  <2>3. \A i \in 1..(n - 1) : i + 1 \in 1..n /\ i + 1 >= 1
    BY <1>1
  <2> QED  BY <1>1, <2>1, <2>2, <2>3 DEF NoItemOp
<1>7. w = "box" /\ ~None4(R, A) => b = "asked"
  BY <1>3 DEF Claims
<1>8. Claims(R, After(h, z), free, b, A, q, w)
  BY <1>2, <1>3, <1>4, <1>5, <1>6, <1>7 DEF Claims
<1>9. ASSUME h \in A, h.op \notin ItemOps
      PROVE  None4(R, A) /\ Claim(R[1], z, free, q, w, 1) /\ (w = "box" => b = "asked")
  <2>0. 1 \in DOMAIN Q[1] /\ Q[1][1] \in A
    BY <1>1, <1>9
  <2>1. Claim(d, z, free, q, w, 1) /\ ~None4(Q, A)
    BY <2>0 DEF Claims, None4
  <2>2. After(h, z) = z
    BY <1>9 DEF After
  <2>3. Claim(t, z, free, q, w, 1)
    <3>1. w = "inv" /\ Head(d).op \in ItemOps => ~Of(Head(d).x, q, "inv")
      BY <1>9 DEF h
    <3> QED  BY <2>1, <2>2, <3>1, ClaimFirstTail DEF t, h
  <2> QED  BY <1>2, <1>3, <1>9, <2>1, <2>3 DEF Claims
<1> QED  BY <1>3, <1>8, <1>9 DEF h

(* A message that is none of the load's is added behind the db.            *)
LEMMA ClaimsOther ==
    ASSUME NEW Q \in [1..4 -> Seq(Message4)], NEW s \in 2..4, NEW A, NEW z, NEW free, NEW b,
           NEW q, NEW w, Claims(Q, z, free, b, A, q, w),
           NEW m \in Message4, m \notin A,
           NEW R \in [1..4 -> Seq(Message4)], With(R, Q, s, Append(Q[s], m))
    PROVE  Claims(R, z, free, b, A, q, w)
<1>1. s \in 1..4 /\ s # 1
  OBVIOUS
<1>2. One4(R, A) /\ (None4(Q, A) => None4(R, A))
  <2>1. One4(Q, A)  BY DEF Claims
  <2> QED  BY <1>1, <2>1, AppendFour
<1>3. /\ Len(Q[s]) \in Nat /\ DOMAIN Q[s] = 1..Len(Q[s]) /\ DOMAIN R[s] = 1..(Len(Q[s]) + 1)
      /\ (\A i \in 1..Len(Q[s]) : R[s][i] = Q[s][i]) /\ R[s][Len(Q[s]) + 1] = m
  <2>1. R[s] = Append(Q[s], m)  BY DEF With
  <2> QED  BY <1>1, <2>1, AppendIs
<1>4. \A i \in DOMAIN R[s] : R[s][i] \in A => i \in DOMAIN Q[s] /\ R[s][i] = Q[s][i]
  <2> SUFFICES ASSUME NEW i \in DOMAIN R[s], R[s][i] \in A
               PROVE  i \in DOMAIN Q[s] /\ R[s][i] = Q[s][i]
    OBVIOUS
  <2>1. i \in 1..Len(Q[s]) \/ i = Len(Q[s]) + 1  BY <1>3
  <2> QED  BY <1>3, <2>1
<1>5. \A t \in 1..4 : t # s => R[t] = Q[t]
  BY DEF With
<1>6. R[1] = Q[1]
  BY <1>1, <1>5
<1>7. (Has(R[2], A) => Has(Q[2], A)) /\ (Has(R[3], A) => Has(Q[3], A))
  BY <1>4, <1>5 DEF Has
<1>8. \A k \in DOMAIN R[4] : R[4][k] \in A => k \in DOMAIN Q[4] /\ R[4][k] = Q[4][k]
  BY <1>4, <1>5
<1> QED  BY <1>2, <1>6, <1>7, <1>8 DEF Claims

(* The load goes on, with a statement, an answer or a packet.              *)
LEMMA ClaimsPut ==
    ASSUME NEW Q \in [1..4 -> Seq(Message4)], Q[1] \in Seq(Request), NEW s \in 2..4, NEW A,
           NEW z \in Saved, NEW free \in BOOLEAN, NEW b,
           NEW q, NEW w, None4(Q, A), Claim(Q[1], z, free, q, w, 1), w = "box" => b = "asked",
           NEW m \in Message4, s = 4 /\ m.x # NoItem => m.x = z /\ Of(z, q, w),
           NEW R \in [1..4 -> Seq(Message4)], With(R, Q, s, Append(Q[s], m))
    PROVE  Claims(R, z, free, b, A, q, w)
<1>1. s \in 1..4 /\ s # 1
  OBVIOUS
<1>2. One4(R, A)
  BY <1>1, AppendFour
<1>3. R[1] = Q[1]
  BY <1>1 DEF With
<1>4. \A k \in DOMAIN R[1] : R[1][k] \notin A
  BY <1>3 DEF None4
<1>5. ASSUME NEW k \in DOMAIN R[4], R[4][k] \in A, R[4][k].x # NoItem
      PROVE  free /\ z = R[4][k].x /\ Of(z, q, w) /\ NoItemOp(R[1], 1)
  <2>1. CASE s # 4
    BY <1>5, <2>1 DEF With, None4
  <2>2. CASE s = 4
    <3>1. /\ Len(Q[4]) \in Nat /\ DOMAIN Q[4] = 1..Len(Q[4]) /\ DOMAIN R[4] = 1..(Len(Q[4]) + 1)
          /\ (\A i \in 1..Len(Q[4]) : R[4][i] = Q[4][i]) /\ R[4][Len(Q[4]) + 1] = m
      <4>1. R[4] = Append(Q[4], m)  BY <2>2 DEF With
      <4> QED  BY <4>1, AppendIs
    <3>2. k \in 1..Len(Q[4]) \/ k = Len(Q[4]) + 1  BY <3>1
    <3>3. k = Len(Q[4]) + 1
      <4>1. \A i \in DOMAIN Q[4] : Q[4][i] \notin A  BY DEF None4
      <4> QED  BY <1>5, <3>1, <3>2, <4>1
    <3>4. m.x = z /\ Of(z, q, w) /\ R[4][k].x = z  BY <1>5, <2>2, <3>1, <3>3
    <3>5. free /\ NoItemOp(Q[1], 1)  BY <3>4, ClaimFirst
    <3> QED  BY <1>3, <3>4, <3>5
  <2> QED  BY <2>1, <2>2
<1> QED  BY <1>2, <1>3, <1>4, <1>5 DEF Claims

(* A queue behind the db loses its first message.                          *)
LEMMA ClaimsPop ==
    ASSUME NEW Q \in [1..4 -> Seq(Message4)], NEW s \in 2..4, Q[s] # <<>>, NEW A,
           NEW z, NEW free, NEW b, NEW q, NEW w, Claims(Q, z, free, b, A, q, w),
           NEW R \in [1..4 -> Seq(Message4)], With(R, Q, s, Tail(Q[s]))
    PROVE  /\ Claims(R, z, free, b, A, q, w)
           /\ Head(Q[s]) \in A => /\ None4(R, A)
                                  /\ s # 4 => Claim(R[1], z, free, q, w, 1)
                                  /\ w = "box" => b = "asked"
<1>1. s \in 1..4 /\ s # 1
  OBVIOUS
<1>2. One4(R, A) /\ (None4(Q, A) => None4(R, A)) /\ (Head(Q[s]) \in A => None4(R, A))
  <2>1. One4(Q, A)  BY DEF Claims
  <2> QED  BY <1>1, <2>1, TailFour
<1>3. /\ Len(Q[s]) \in Nat \ {0} /\ DOMAIN Q[s] = 1..Len(Q[s])
      /\ DOMAIN R[s] = 1..(Len(Q[s]) - 1)
      /\ (\A i \in 1..(Len(Q[s]) - 1) : R[s][i] = Q[s][i + 1])
      /\ Head(Q[s]) = Q[s][1] /\ 1 \in DOMAIN Q[s]
  <2>1. R[s] = Tail(Q[s])  BY DEF With
  <2> QED  BY <1>1, <2>1, TailIs
<1>4. \A i \in DOMAIN R[s] : i + 1 \in DOMAIN Q[s] /\ R[s][i] = Q[s][i + 1]
  <2> SUFFICES ASSUME NEW i \in DOMAIN R[s]
               PROVE  i + 1 \in DOMAIN Q[s] /\ R[s][i] = Q[s][i + 1]
    OBVIOUS
  <2>1. i \in 1..(Len(Q[s]) - 1)  BY <1>3
  <2>2. i + 1 \in 1..Len(Q[s])  BY <1>3, <2>1
  <2> QED  BY <1>3, <2>1, <2>2
<1>5. \A t \in 1..4 : t # s => R[t] = Q[t]
  BY DEF With
<1>6. R[1] = Q[1]
  BY <1>1, <1>5
<1>7. (Has(R[2], A) => Has(Q[2], A)) /\ (Has(R[3], A) => Has(Q[3], A))
  BY <1>4, <1>5 DEF Has
<1>8. \A k \in DOMAIN R[4] : \E j \in DOMAIN Q[4] : R[4][k] = Q[4][j]
  BY <1>4, <1>5
<1>9. Claims(R, z, free, b, A, q, w)
  BY <1>2, <1>6, <1>7, <1>8 DEF Claims
<1>10. ASSUME Head(Q[s]) \in A
       PROVE  /\ None4(R, A)
              /\ s # 4 => Claim(R[1], z, free, q, w, 1)
              /\ w = "box" => b = "asked"
  <2>1. ~None4(Q, A) /\ Has(Q[s], A)  BY <1>1, <1>3, <1>10 DEF None4, Has
  <2>2. s # 4 => s = 2 \/ s = 3  OBVIOUS
  <2> QED  BY <1>2, <1>6, <1>10, <2>1, <2>2 DEF Claims
<1> QED  BY <1>9, <1>10

(* The game gets the item: then nobody else had a claim.                   *)
LEMMA ClaimsTaken ==
    ASSUME NEW Q \in [1..4 -> Seq(Message4)], Q[1] \in Seq(Request), NEW A, NEW z \in Saved,
           NEW b, NEW q, NEW w, Claims(Q, z, TRUE, b, A, q, w),
           ~Of(z, q, w), NoItemOp(Q[1], 1)
    PROVE  Claims(Q, z, FALSE, b, A, q, w)
<1>1. \A j \in DOMAIN Q[1] : j \in Nat /\ j >= 1
  BY LenProperties
<1>2. \A k, v : Says(Q[1], ItemOps, z, k, v) => v = z
  BY <1>1 DEF Says, NoItemOp
<1>3. \A k : Claim(Q[1], z, TRUE, q, w, k) => Claim(Q[1], z, FALSE, q, w, k)
  BY <1>2 DEF Claim
<1> QED  BY <1>3 DEF Claims

-----------------------------------------------------------------------------
(* The four queues of the program.                                         *)

(* The four queues as one function.                                        *)
LEMMA FourIs ==
    ASSUME NEW a \in Seq(Message4), NEW b \in Seq(Message4),
           NEW c \in Seq(Message4), NEW e \in Seq(Message4)
    PROVE  /\ Four(a, b, c, e) \in [1..4 -> Seq(Message4)]
           /\ Four(a, b, c, e)[1] = a /\ Four(a, b, c, e)[2] = b
           /\ Four(a, b, c, e)[3] = c /\ Four(a, b, c, e)[4] = e
           /\ \A d : /\ With(Four(d, b, c, e), Four(a, b, c, e), 1, d)
                     /\ With(Four(a, d, c, e), Four(a, b, c, e), 2, d)
                     /\ With(Four(a, b, d, e), Four(a, b, c, e), 3, d)
                     /\ With(Four(a, b, c, d), Four(a, b, c, e), 4, d)
  BY DEF Four, With

(* Each queue is one of messages.                                          *)
LEMMA Seq4 ==
    /\ \A q \in Seq(Request) : q \in Seq(Message4)
    /\ \A q \in Seq(Statement) : q \in Seq(Message4)
    /\ \A q \in Seq(SqlAnswer) : q \in Seq(Message4)
    /\ \A q \in Seq(Reply) : q \in Seq(Message4)
<1>1. \A T : T \subseteq Message4 => \A q \in Seq(T) : q \in Seq(Message4)
  <2> SUFFICES ASSUME NEW T, T \subseteq Message4, NEW q \in Seq(T) PROVE q \in Seq(Message4)
    OBVIOUS
  <2>1. Len(q) \in Nat /\ q \in [1..Len(q) -> T]  BY LenProperties
  <2>2. q \in [1..Len(q) -> Message4]  BY <2>1
  <2> QED  BY <2>1, <2>2, IsASeq
<1> QED  BY <1>1 DEF Message4

(* What is of no load: other kinds, nobody's, or of no session.            *)
LEMMA PlainMessage ==
    ASSUME NEW m, m.op \notin TokenOp("inv") \cup TokenOp("box") \/ m.p = Nobody \/ m.s = 0, TypeOK
    PROVE  NoToken(m)
  BY DEF NoToken, Tokens, Wins, TypeOK, GameOK, Pids, Nobody

(* A message is added that is none of a load's.                            *)
LEMMA AddPlain ==
    ASSUME NEW Q \in [1..4 -> Seq(Message4)], NEW s \in 2..4, NEW z, NEW free,
           AllClaims(Q, z, free), NEW m \in Message4, NoToken(m),
           NEW R \in [1..4 -> Seq(Message4)], With(R, Q, s, Append(Q[s], m))
    PROVE  AllClaims(R, z, free)
<1> SUFFICES ASSUME NEW q \in Pids, NEW w \in Wins
             PROVE  Claims(R, z, free, box[q], Tokens(q, w), q, w)
  BY DEF AllClaims
<1>1. Claims(Q, z, free, box[q], Tokens(q, w), q, w) /\ m \notin Tokens(q, w)
  BY DEF AllClaims, NoToken
<1> QED  BY <1>1, ClaimsOther

(* A message leaves one queue and its successor enters another: what held  *)
(* of every load still holds.                                              *)
LEMMA PassResult ==
    ASSUME NEW Q, NEW P, NEW s, NEW t \in 2..4, NEW z, NEW free, Poppable(Q, P, s, z, free)
    PROVE  AllClaims(P, z, free) /\ (s # 4 => Passed(Q, P, s, t, z, free))
<1>0. /\ Q \in [1..4 -> Seq(Message4)] /\ P \in [1..4 -> Seq(Message4)] /\ s \in 2..4
      /\ Q[1] \in Seq(Request) /\ Q[s] # <<>> /\ z \in Saved /\ free \in BOOLEAN
      /\ AllClaims(Q, z, free) /\ With(P, Q, s, Tail(Q[s]))
  BY DEF Poppable
<1> USE <1>0
<1>1. AllClaims(P, z, free)
  BY ClaimsPop DEF AllClaims
<1>2. ASSUME s # 4, NEW m \in Message4, NEW R \in [1..4 -> Seq(Message4)],
             With(R, P, t, Append(P[t], m)),
             \A q \in Pids, w \in Wins : m \in Tokens(q, w) =>
                    /\ Head(Q[s]) \in Tokens(q, w)
                    /\ t = 4 /\ m.x # NoItem => m.x = z /\ Of(z, q, w)
      PROVE AllClaims(R, z, free)
  <2> SUFFICES ASSUME NEW q \in Pids, NEW w \in Wins
               PROVE  Claims(R, z, free, box[q], Tokens(q, w), q, w)
    BY DEF AllClaims
  <2>1. CASE m \notin Tokens(q, w)
    <3>1. Claims(P, z, free, box[q], Tokens(q, w), q, w)  BY <1>1 DEF AllClaims
    <3> QED  BY <1>2, <2>1, <3>1, ClaimsOther
  <2>2. CASE m \in Tokens(q, w)
    <3>1. Head(Q[s]) \in Tokens(q, w) /\ (t = 4 /\ m.x # NoItem => m.x = z /\ Of(z, q, w))
      BY <1>2, <2>2
    <3>2. Claims(Q, z, free, box[q], Tokens(q, w), q, w)  BY DEF AllClaims
    <3>3. Head(Q[s]) \in Tokens(q, w) => /\ None4(P, Tokens(q, w))
                                         /\ s # 4 => Claim(P[1], z, free, q, w, 1)
                                         /\ w = "box" => box[q] = "asked"
      <4> DEFINE A == Tokens(q, w)
                 b == box[q]
      <4>1. Claims(Q, z, free, b, A, q, w)  BY <3>2
      <4> HIDE DEF A, b
      <4>2. Head(Q[s]) \in A => /\ None4(P, A)
                                /\ s # 4 => Claim(P[1], z, free, q, w, 1)
                                /\ w = "box" => b = "asked"
        BY <4>1, ClaimsPop
      <4> QED  BY <4>2 DEF A, b
    <3>5. /\ None4(P, Tokens(q, w)) /\ Claim(P[1], z, free, q, w, 1)
          /\ w = "box" => box[q] = "asked"
      BY <1>2, <3>1, <3>3
    <3>4. P[1] \in Seq(Request)
      <4>1. 1 # s /\ 1 \in 1..4  OBVIOUS
      <4> QED  BY <4>1 DEF With
    <3> QED  BY <1>2, <3>1, <3>5, <3>4, ClaimsPut
  <2> QED  BY <2>1, <2>2
<1> QED  BY <1>1, <1>2 DEF Passed

(* The db reads a packet, and asks on or answers: what held of every load  *)
(* still holds.                                                            *)
LEMMA PassRequest ==
    ASSUME NEW Q \in [1..4 -> Seq(Message4)], Q[1] \in Seq(Request), NEW t \in 2..4,
           Q[1] # <<>>, NEW z \in Saved, NEW free \in BOOLEAN, AllClaims(Q, z, free),
           After(Head(Q[1]), z) \in Saved,
           Head(Q[1]).op \in ItemOps => \A q \in Pids :
               Has(Q[2], Tokens(q, "inv")) \/ Has(Q[3], Tokens(q, "inv"))
               => ~Of(Head(Q[1]).x, q, "inv"),
           Head(Q[1]).op = "ITEM_DESTROY" => Head(Q[1]).x = NoItem,
           NEW P \in [1..4 -> Seq(Message4)], With(P, Q, 1, Tail(Q[1]))
    PROVE  /\ AllClaims(P, After(Head(Q[1]), z), free)
           /\ Head(Q[1]).op \notin ItemOps =>
              \A m \in Message4, R \in [1..4 -> Seq(Message4)] :
              /\ With(R, P, t, Append(P[t], m))
              /\ \A q \in Pids, w \in Wins : m \in Tokens(q, w) =>
                    /\ Head(Q[1]) \in Tokens(q, w)
                    /\ t = 4 /\ m.x # NoItem => m.x = z /\ Of(z, q, w)
              => AllClaims(R, z, free)
<1>1. ASSUME NEW q \in Pids, NEW w \in Wins
      PROVE  /\ Claims(P, After(Head(Q[1]), z), free, box[q], Tokens(q, w), q, w)
             /\ Head(Q[1]) \in Tokens(q, w) /\ Head(Q[1]).op \notin ItemOps =>
                  /\ None4(P, Tokens(q, w)) /\ Claim(P[1], z, free, q, w, 1)
                  /\ w = "box" => box[q] = "asked"
  <2>1. Claims(Q, z, free, box[q], Tokens(q, w), q, w)  BY DEF AllClaims
  <2>2. w \in {"inv", "box"}  BY DEF Wins
  <2>3. w = "inv" /\ Head(Q[1]).op \in ItemOps /\ (Has(Q[2], Tokens(q, w)) \/ Has(Q[3], Tokens(q, w)))
               => ~Of(Head(Q[1]).x, q, "inv")
    OBVIOUS
  <2> DEFINE A == Tokens(q, w)
             b == box[q]
  <2>4. Readable(Q, P, z, free, b, A, q, w)
    BY <2>1, <2>2, <2>3 DEF Readable
  <2> HIDE DEF A, b
  <2>5. /\ Claims(P, After(Head(Q[1]), z), free, b, A, q, w)
        /\ Head(Q[1]) \in A /\ Head(Q[1]).op \notin ItemOps =>
               None4(P, A) /\ Claim(P[1], z, free, q, w, 1) /\ (w = "box" => b = "asked")
    BY <2>4, ClaimsRead
  <2> QED  BY <2>5 DEF A, b
<1>2. AllClaims(P, After(Head(Q[1]), z), free)
  BY <1>1 DEF AllClaims
<1>3. ASSUME Head(Q[1]).op \notin ItemOps, NEW m \in Message4, NEW R \in [1..4 -> Seq(Message4)],
             With(R, P, t, Append(P[t], m)),
             \A q \in Pids, w \in Wins : m \in Tokens(q, w) =>
                    /\ Head(Q[1]) \in Tokens(q, w)
                    /\ t = 4 /\ m.x # NoItem => m.x = z /\ Of(z, q, w)
      PROVE AllClaims(R, z, free)
  <2> SUFFICES ASSUME NEW q \in Pids, NEW w \in Wins
               PROVE  Claims(R, z, free, box[q], Tokens(q, w), q, w)
    BY DEF AllClaims
  <2>0. After(Head(Q[1]), z) = z  BY <1>3 DEF After
  <2>1. CASE m \notin Tokens(q, w)
    <3>1. Claims(P, z, free, box[q], Tokens(q, w), q, w)  BY <1>2, <2>0 DEF AllClaims
    <3> QED  BY <1>3, <2>1, <3>1, ClaimsOther
  <2>2. CASE m \in Tokens(q, w)
    <3>1. Head(Q[1]) \in Tokens(q, w) /\ (t = 4 /\ m.x # NoItem => m.x = z /\ Of(z, q, w))
      BY <1>3, <2>2
    <3>3. /\ None4(P, Tokens(q, w)) /\ Claim(P[1], z, free, q, w, 1)
          /\ w = "box" => box[q] = "asked"
      BY <1>1, <1>3, <3>1
    <3>4. P[1] \in Seq(Request)
      <4>1. P[1] = Tail(Q[1])  BY DEF With
      <4> QED  BY <4>1, TailIs
    <3> QED  BY <1>3, <3>1, <3>3, <3>4, ClaimsPut
  <2> QED  BY <2>1, <2>2
<1> QED  BY <1>2, <1>3

-----------------------------------------------------------------------------
(* What the db will know when it has read the connection d.                *)

(* What a queue says before a position is one thing.                       *)
LEMMA SaysOne ==
    ASSUME NEW T, NEW q \in Seq(T), NEW ops, NEW r, NEW k \in Nat, NEW u, NEW v,
           Says(q, ops, r, k, u), Says(q, ops, r, k, v)
    PROVE  u = v
<1>1. \A i \in DOMAIN q : i \in Nat
  BY LenProperties
<1>2. CASE \A i \in DOMAIN q : i < k => q[i].op \notin ops
  BY <1>2 DEF Says
<1>3. CASE \E i \in DOMAIN q : i < k /\ q[i].op \in ops
  <2>1. PICK i \in DOMAIN q : /\ i < k /\ q[i].op \in ops /\ u = q[i].x
                              /\ \A j \in DOMAIN q : i < j /\ j < k => q[j].op \notin ops
    BY <1>3 DEF Says
  <2>2. PICK j \in DOMAIN q : /\ j < k /\ q[j].op \in ops /\ v = q[j].x
                              /\ \A l \in DOMAIN q : j < l /\ l < k => q[l].op \notin ops
    BY <1>3 DEF Says
  <2>3. ~(i < j) /\ ~(j < i)
    BY <2>1, <2>2
  <2>4. i = j
    BY <1>1, <2>3
  <2> QED  BY <2>1, <2>2, <2>4
<1> QED  BY <1>2, <1>3

(* The last word of a connection with one packet more.                     *)
LEMMA LastOfAppend ==
    ASSUME NEW T, NEW q \in Seq(T), NEW m \in T, NEW ops, NEW r
    PROVE  LastOf(Append(q, m), ops, r) = IF m.op \in ops THEN m.x ELSE LastOf(q, ops, r)
<1>1. /\ Append(q, m) \in Seq(T) /\ Len(q) \in Nat /\ Len(Append(q, m)) = Len(q) + 1
      /\ Len(q) + 1 + 1 = Len(q) + 2
  BY AppendProperties, LenProperties
<1>2. Says(Append(q, m), ops, r, Len(q) + 2, LastOf(Append(q, m), ops, r))
  BY <1>1, LastOfSays
<1> DEFINE x == LastOf(Append(q, m), ops, r)
           y == LastOf(q, ops, r)
<1>3. Says(q, ops, r, Len(q) + 1, y)
  BY LastOfSays
<1>4. Says(Append(q, m), ops, r, Len(q) + 2, x)
  BY <1>2
<1> HIDE DEF x, y
<1>5. IF m.op \in ops THEN x = m.x ELSE Says(q, ops, r, Len(q) + 1, x)
  BY <1>4, SaysAppendNew
<1>6. Len(q) + 1 \in Nat  BY <1>1
<1>7. m.op \notin ops => x = y
  BY <1>3, <1>5, <1>6, SaysOne
<1> QED  BY <1>5, <1>7 DEF x, y

(* The last word of a connection without the packet just read.             *)
LEMMA LastOfTail ==
    ASSUME NEW T, NEW q \in Seq(T), q # <<>>, NEW ops, NEW r
    PROVE  LastOf(Tail(q), ops, IF Head(q).op \in ops THEN Head(q).x ELSE r) = LastOf(q, ops, r)
<1> DEFINE s == IF Head(q).op \in ops THEN Head(q).x ELSE r
           x == LastOf(Tail(q), ops, s)
           y == LastOf(q, ops, r)
           k == Len(Tail(q)) + 1
<1>1. Tail(q) \in Seq(T) /\ Len(q) \in Nat \ {0} /\ Len(Tail(q)) = Len(q) - 1
  BY TailIs, LenProperties, HeadTailProperties
<1>2. k \in Nat \ {0} /\ k + 1 = Len(q) + 1 /\ k + 1 \in Nat
  BY <1>1
<1>3. Says(Tail(q), ops, s, k, x)
  BY <1>1, LastOfSays
<1>4. Says(q, ops, r, Len(q) + 1, y)
  BY LastOfSays
<1> HIDE DEF x, y, k
<1>5. Says(q, ops, r, k + 1, x)
  BY <1>2, <1>3, SaysTail
<1> QED  BY <1>2, <1>4, <1>5, SaysOne DEF x, y

(* The game sends one more packet: an item taken out of a safebox is still *)
(* followed by its flush.                                                  *)
LEMMA FlushNextAppend ==
    ASSUME NEW d \in Seq(Request), NEW m \in Request, NEW z \in Saved, NEW old \in BOOLEAN, NEW new \in BOOLEAN,
           FlushNext(d, z, old), old => m.op = "ITEM_FLUSH",
           m.op = "ITEM_SAVE" /\ m.x.win = "inv" /\ LastOf(d, ItemOps, z).win = "box" => new
    PROVE  FlushNext(Append(d, m), z, new)
<1> DEFINE n == Len(d)
           a == Append(d, m)
<1>1. /\ n \in Nat /\ DOMAIN d = 1..n /\ DOMAIN a = 1..(n + 1) /\ Len(a) = n + 1
      /\ (\A i \in 1..n : a[i] = d[i]) /\ a[n + 1] = m
  BY AppendIs, AppendProperties
<1>2. \A k \in 1..(n + 1) : \A v : Says(a, ItemOps, z, k, v) => Says(d, ItemOps, z, k, v)
  BY SaysAppendBefore
<1>3. \A v : Says(d, ItemOps, z, n + 1, v) => v = LastOf(d, ItemOps, z)
  <2>1. Len(d) + 1 \in Nat  BY <1>1
  <2>2. Says(d, ItemOps, z, Len(d) + 1, LastOf(d, ItemOps, z))  BY LastOfSays
  <2> QED  BY <2>1, <2>2, SaysOne
<1> HIDE DEF a, n
<1> SUFFICES ASSUME NEW k \in 1..(n + 1), TakesOut(a, z, k)
             PROVE  (k + 1 \in 1..(n + 1) /\ a[k + 1].op = "ITEM_FLUSH") \/ (new /\ k = n + 1)
  BY <1>1 DEF FlushNext, a
<1>4. CASE k = n + 1
  <2>1. PICK v \in Saved : Says(a, ItemOps, z, k, v) /\ v.win = "box"  BY DEF TakesOut
  <2>2. v = LastOf(d, ItemOps, z)  BY <1>2, <1>3, <1>4, <2>1
  <2> QED  BY <1>1, <1>4, <2>1, <2>2 DEF TakesOut
<1>5. CASE k # n + 1
  <2>1. k \in 1..n /\ k + 1 \in 1..(n + 1)  BY <1>1, <1>5
  <2>2. TakesOut(d, z, k)  BY <1>1, <1>2, <2>1 DEF TakesOut
  <2>3. (k + 1 \in 1..n /\ d[k + 1].op = "ITEM_FLUSH") \/ (old /\ k = n)
    BY <1>1, <2>1, <2>2 DEF FlushNext, n
  <2> QED  BY <1>1, <2>1, <2>3
<1> QED  BY <1>4, <1>5

(* The db reads one packet: an item taken out of a safebox is still        *)
(* followed by its flush.                                                  *)
LEMMA FlushNextTail ==
    ASSUME NEW d \in Seq(Request), d # <<>>, NEW z \in Saved, FlushNext(d, z, FALSE)
    PROVE  FlushNext(Tail(d), After(Head(d), z), FALSE)
<1> DEFINE n == Len(d)
           t == Tail(d)
<1>1. /\ n \in Nat \ {0} /\ DOMAIN d = 1..n /\ DOMAIN t = 1..(n - 1)
      /\ \A i \in 1..(n - 1) : t[i] = d[i + 1]
  BY TailIs
<1>2. \A k \in Nat \ {0} : \A v : Says(t, ItemOps, After(Head(d), z), k, v) => Says(d, ItemOps, z, k + 1, v)
  BY SaysTail DEF After
<1> HIDE DEF t, n
<1> SUFFICES ASSUME NEW k \in 1..(n - 1), TakesOut(t, After(Head(d), z), k)
             PROVE  k + 1 \in 1..(n - 1) /\ t[k + 1].op = "ITEM_FLUSH"
  BY <1>1 DEF FlushNext, t
<1>3. k \in Nat \ {0} /\ k + 1 \in 1..n  BY <1>1
<1>4. TakesOut(d, z, k + 1)  BY <1>1, <1>2, <1>3 DEF TakesOut
<1>5. k + 1 + 1 \in 1..n /\ d[k + 1 + 1].op = "ITEM_FLUSH"  BY <1>1, <1>3, <1>4 DEF FlushNext
<1>6. k + 1 \in 1..(n - 1)  BY <1>1, <1>3, <1>5
<1> QED  BY <1>1, <1>5, <1>6

(* Packets that destroy the item bring no data, with one more and with one *)
(* less.                                                                   *)
LEMMA DestroysKept ==
    /\ \A d \in Seq(Request) : \A m \in Request :
          Destroys(d) /\ (m.op = "ITEM_DESTROY" => m.x = NoItem) => Destroys(Append(d, m))
    /\ \A d \in Seq(Request) : d # <<>> /\ Destroys(d) => Destroys(Tail(d))
<1>1. ASSUME NEW d \in Seq(Request), NEW m \in Request, Destroys(d),
             m.op = "ITEM_DESTROY" => m.x = NoItem
      PROVE  Destroys(Append(d, m))
  <2>1. /\ Len(d) \in Nat /\ DOMAIN d = 1..Len(d) /\ DOMAIN Append(d, m) = 1..(Len(d) + 1)
        /\ (\A i \in 1..Len(d) : Append(d, m)[i] = d[i]) /\ Append(d, m)[Len(d) + 1] = m
    BY AppendIs
  <2>2. \A i \in 1..(Len(d) + 1) : i \in 1..Len(d) \/ i = Len(d) + 1  BY <2>1
  <2> QED  BY <1>1, <2>1, <2>2 DEF Destroys
<1>2. ASSUME NEW d \in Seq(Request), d # <<>>, Destroys(d) PROVE Destroys(Tail(d))
  <2>1. /\ Len(d) \in Nat \ {0} /\ DOMAIN d = 1..Len(d) /\ DOMAIN Tail(d) = 1..(Len(d) - 1)
        /\ \A i \in 1..(Len(d) - 1) : Tail(d)[i] = d[i + 1]
    BY <1>2, TailIs
  <2>2. \A i \in 1..(Len(d) - 1) : i + 1 \in 1..Len(d)  BY <2>1
  <2> QED  BY <1>2, <2>1, <2>2 DEF Destroys
<1> QED  BY <1>1, <1>2

-----------------------------------------------------------------------------
(* The state.                                                              *)

(* The game sends a packet about the item, or about nothing.               *)
LEMMA FlowSend ==
    ASSUME TypeOK, NEW d, NEW free \in BOOLEAN, NEW told, NEW old \in BOOLEAN, NEW new \in BOOLEAN,
           Flow(d, free, told, old), NEW m \in Request, NoToken(m),
           m.op \in ItemOps => ~free, \A q \in Pids : box[q] = "asked" => ~BoxPut(m, q),
           m.op = "ITEM_DESTROY" => m.x = NoItem, old => m.op = "ITEM_FLUSH",
           m.op = "ITEM_SAVE" /\ m.x.win = "inv" /\ told.win = "box" => new
    PROVE  Flow(Append(d, m), free, IF m.op \in ItemOps THEN m.x ELSE told, new)
<1> DEFINE Q == Four(d, main, results, toGame)
           R == Four(Append(d, m), main, results, toGame)
<1>1. /\ d \in Seq(Request) /\ told = LastOf(d, ItemOps, saved) /\ AllClaims(Q, saved, free)
      /\ FlushNext(d, saved, old) /\ Destroys(d)
  BY DEF Flow
<1>2. /\ main \in Seq(Statement) /\ results \in Seq(SqlAnswer) /\ toGame \in Seq(Reply)
      /\ saved \in Saved
  BY DEF TypeOK, SqlOK, HistOK, Saved
<1>3. Append(d, m) \in Seq(Request)  BY <1>1, AppendProperties
<1>4. FlushNext(Append(d, m), saved, new)
  BY <1>1, <1>2, FlushNextAppend
<1>5. Destroys(Append(d, m))
  BY <1>1, DestroysKept
<1>6. LastOf(Append(d, m), ItemOps, saved) = IF m.op \in ItemOps THEN m.x ELSE told
  BY <1>1, LastOfAppend
<1>7. /\ Q \in [1..4 -> Seq(Message4)] /\ R \in [1..4 -> Seq(Message4)]
      /\ Q[1] = d /\ With(R, Q, 1, Append(Q[1], m))
  <2>1. /\ d \in Seq(Message4) /\ Append(d, m) \in Seq(Message4) /\ main \in Seq(Message4)
        /\ results \in Seq(Message4) /\ toGame \in Seq(Message4)
    BY <1>1, <1>2, <1>3, Seq4
  <2>2. Q \in [1..4 -> Seq(Message4)] /\ Q[1] = d  BY <2>1, FourIs
  <2>3. R \in [1..4 -> Seq(Message4)]  BY <2>1, FourIs
  <2>4. With(R, Q, 1, Append(d, m))  BY <2>1, FourIs
  <2> QED  BY <2>2, <2>3, <2>4
<1> HIDE DEF Q, R
<1>8. ASSUME NEW q \in Pids, NEW w \in Wins
      PROVE  Claims(R, saved, free, box[q], Tokens(q, w), q, w)
  <2> DEFINE A == Tokens(q, w)
             b == box[q]
  <2>1. Claims(Q, saved, free, b, A, q, w) /\ m \notin A
    BY <1>1 DEF AllClaims, NoToken
  <2>2. w = "box" /\ b = "asked" => ~BoxPut(m, q)
    OBVIOUS
  <2> HIDE DEF A, b
  <2>3. Claims(R, saved, free, b, A, q, w)
    <3>1. Sendable(Q, R, m, saved, free, b, A, q, w)
      BY <1>1, <1>2, <1>7, <2>1, <2>2 DEF Sendable
    <3> QED  BY <3>1, ClaimsSend
  <2> QED  BY <2>3 DEF A, b
<1>9. AllClaims(R, saved, free)  BY <1>8 DEF AllClaims
<1> QED  BY <1>3, <1>4, <1>5, <1>6, <1>9 DEF Flow, R

(* What the invariant says of the connection.                              *)
LEMMA FlowNow ==
    TypeOK /\ Claimed /\ Packed =>
        Flow(toDb, Absent, LastOf(toDb, ItemOps, saved), FALSE)
  BY DEF TypeOK, Claimed, Packed, Flow

(* The session of nobody has changed.                                      *)
LEMMA FlowThen ==
    ASSUME UNCHANGED <<st, sess, box, main, results, toGame, saved>>, NEW told, NEW free \in BOOLEAN,
           Flow(toDb', free, told, FALSE), free => Absent'
    PROVE  Claimed' /\ Packed' /\ told = LastOf(toDb', ItemOps, saved')
<1>1. AllClaims(Four(toDb', main, results, toGame), saved, free)  BY DEF Flow
<1>2. AllClaims(Four(toDb', main, results, toGame), saved, Absent')
  <2>1. Absent' \in BOOLEAN  BY DEF Absent
  <2>2. CASE Absent' = free  BY <1>1, <2>2
  <2>3. CASE Absent' # free
    <3>1. free = FALSE  BY <2>1, <2>3
    <3> QED  BY <1>1, <3>1, ClaimsBusy DEF AllClaims
  <2> QED  BY <2>2, <2>3
<1>3. \A q, w : Tokens(q, w)' = Tokens(q, w)
  BY DEF Tokens
<1>4. Claimed'
  BY <1>2, <1>3 DEF Claimed, AllClaims
<1> QED  BY <1>4 DEF Packed, Flow

(* Sending up to three packets is sending each.                            *)
LEMMA SendIs ==
    /\ \A d \in Seq(Request) : d \o <<>> = d /\ <<>> \o d = d
    /\ \A d \in Seq(Request) : \A m \in Request :
          d \o <<m>> = Append(d, m) /\ Append(d, m) \in Seq(Request)
    /\ \A d \in Seq(Request) : \A m, n \in Request :
          d \o (<<m>> \o <<n>>) = Append(Append(d, m), n)
    /\ \A d \in Seq(Request) : \A m, n, o \in Request :
          d \o (<<m>> \o <<n>> \o <<o>>) = Append(Append(Append(d, m), n), o)
  OBVIOUS

(* What a save of the item says.                                           *)
LEMMA SaveMessage ==
    ASSUME NEW i \in ItemState, TypeOK
    PROVE  \E m \in Request :
              /\ SaveSingleItem(i) = <<m>> /\ m.op \in ItemOps /\ m.x = Told1(i) /\ NoToken(m)
              /\ m.op = "ITEM_DESTROY" <=> i.at \notin {"inv", "box"}
              /\ m.op = "ITEM_DESTROY" => m.x = NoItem
              /\ \A q \in Pids : BoxPut(m, q) => i.at = "box" /\ i.by = q
<1>1. PICK m \in Request : /\ SaveSingleItem(i) = <<m>> /\ m.s = 0
                           /\ IF i.at \in {"inv", "box"}
                              THEN m \in Puts(i.by) /\ m.op = "ITEM_SAVE"
                              ELSE m.op = "ITEM_DESTROY"
  BY SaveSays
<1>2. m.x = Told1(i)
  <2>1. m = SaveSingleItem(i)[1]  BY <1>1
  <2> QED  BY <2>1 DEF SaveSingleItem, Told1, M
<1>3. m.op \in ItemOps  BY <1>1 DEF ItemOps
<1>4. NoToken(m)  BY <1>1, PlainMessage
<1>5. m.op = "ITEM_DESTROY" => m.x = NoItem  BY <1>1, <1>2 DEF Told1
<1>6. \A q \in Pids : BoxPut(m, q) => i.at = "box" /\ i.by = q
  BY <1>1, <1>2 DEF Told1, InInv, InBox, BoxPut, Of, NoItem
<1> QED  BY <1>1, <1>2, <1>3, <1>4, <1>5, <1>6

(* SaveSingleItem tells the db what the item is.                           *)
LEMMA SaveSent ==
    ASSUME TypeOK, NEW t, NEW d, Flow(d, FALSE, t, FALSE), NEW i \in ItemState,
           i.at = "box" => box[i.by] # "asked", NEW new \in BOOLEAN,
           i.at = "inv" /\ t.win = "box" => new
    PROVE  Flow(d \o SaveSingleItem(i), FALSE, Told1(i), new)
<1>1. PICK m \in Request : /\ SaveSingleItem(i) = <<m>> /\ m.op \in ItemOps /\ m.x = Told1(i) /\ NoToken(m)
                           /\ m.op = "ITEM_DESTROY" <=> i.at \notin {"inv", "box"}
                           /\ m.op = "ITEM_DESTROY" => m.x = NoItem
                           /\ \A q \in Pids : BoxPut(m, q) => i.at = "box" /\ i.by = q
  BY SaveMessage
<1>2. m.op = "ITEM_SAVE" /\ m.x.win = "inv" /\ t.win = "box" => new
  BY <1>1 DEF Told1, InBox, NoItem
<1>3. \A q \in Pids : box[q] = "asked" => ~BoxPut(m, q)
  BY <1>1
<1>4. d \in Seq(Request)  BY DEF Flow
<1>5. Flow(Append(d, m), FALSE, IF m.op \in ItemOps THEN m.x ELSE t, new)
  BY <1>1, <1>2, <1>3, FlowSend
<1>6. d \o SaveSingleItem(i) = Append(d, m)  BY <1>1, <1>4, SendIs
<1>7. (IF m.op \in ItemOps THEN m.x ELSE t) = Told1(i)  BY <1>1
<1> QED  BY <1>5, <1>6, <1>7

(* An item operation, or the late save of the item, keeps the claims.      *)
LEMMA CopyItem ==
    ASSUME TypeOK, Claimed, Held, Packed, GameItem \/ ItemManagerUpdate
    PROVE  Claimed' /\ Held' /\ Packed' /\ LeftKnown
<1> DEFINE t == LastOf(toDb, ItemOps, saved)
<1>1. UNCHANGED <<st, sess, box, main, results, toGame, saved>>
  BY DEF GameItem, CreateItem, ModifyItem, DropItem, DestroyItem, SafeboxCheckin,
         SafeboxCheckout, PickupItem, ExchangeItem, ItemOp, ItemManagerUpdate, sql, hist
<1>2. /\ item \in ItemState /\ toDb \in Seq(Request) /\ item' \in ItemState
      /\ box \in [Pids -> {"closed", "asked", "open"}]
  <2>1. TypeOK'  BY TypeGameItem
  <2> QED  BY <2>1 DEF TypeOK, GameOK
<1>3. Stored /\ Holding(item, delayed, t)
  BY DEF Held
<1>4. item.at # "none"
  BY <1>3
  DEF GameItem, CreateItem, ModifyItem, DropItem, DestroyItem, SafeboxCheckin,
         SafeboxCheckout, PickupItem, ExchangeItem, ItemManagerUpdate, Holding
<1>5. Flow(toDb, FALSE, t, FALSE)
  <2>1. Absent = FALSE  BY <1>4 DEF Absent
  <2> QED  BY <2>1, FlowNow
<1> HIDE DEF t
<1>6. ASSUME NEW u, Flow(toDb', FALSE, u, FALSE), Stored', Holding(item', delayed', u),
             item.at \in {"inv", "box"} /\ item'.at = "none" => u \in {NoItem, Told1(item)}
      PROVE  Claimed' /\ Held' /\ Packed' /\ LeftKnown
  <2>1. Claimed' /\ Packed' /\ u = LastOf(toDb', ItemOps, saved')
    BY <1>1, <1>6, FlowThen
  <2> QED  BY <1>6, <2>1 DEF Held, LeftKnown
(* The item changes, and its save waits.                                   *)
<1>7. CASE CreateItem \/ ModifyItem \/ \E p \in Pids : PickupItem(p)
  <2>1. toDb' = toDb /\ delayed' = TRUE
    BY <1>7 DEF CreateItem, ModifyItem, PickupItem, Change
  <2>2. item'.at \in {"inv", "ground"}
    BY <1>2, <1>7 DEF CreateItem, ModifyItem, PickupItem, Change, Item, ItemState
  <2>3. Holding(item', TRUE, t)
    <3>1. CASE CreateItem \/ \E p \in Pids : PickupItem(p)
      <4>1. t = NoItem  BY <1>3, <3>1 DEF CreateItem, PickupItem, Holding
      <4> QED  BY <2>2, <4>1 DEF Holding
    <3>2. CASE ModifyItem
      <4>1. item.at = "inv" /\ item'.at = "inv" /\ item'.by = item.by
        BY <1>2, <3>2 DEF ModifyItem, Change, ItemState
      <4> QED  BY <1>3, <4>1 DEF Holding
    <3> QED  BY <1>7, <3>1, <3>2
  <2>4. Stored'  BY <2>2 DEF Stored
  <2> QED  BY <1>5, <1>6, <2>1, <2>2, <2>3, <2>4
(* The item, as it was or changed, is saved.                               *)
<1>8. ASSUME NEW i \in ItemState, i = item', delayed' = FALSE, toDb' = toDb \o SaveSingleItem(i),
             i.at = "box" => box[i.by] = "open",
             i.at = "inv" => t.win # "box", i.at # "none"
      PROVE  Claimed' /\ Held' /\ Packed' /\ LeftKnown
  <2>1. Flow(toDb', FALSE, Told1(i), FALSE)
    <3>1. i.at = "box" => box[i.by] # "asked"  BY <1>8
    <3> QED  BY <1>5, <1>8, <3>1, SaveSent
  <2>2. Holding(item', FALSE, Told1(i))
    BY <1>8 DEF Holding, Told1, Of, InInv, InBox
  <2>3. Stored'  BY <1>1, <1>8 DEF Stored
  <2> QED  BY <1>6, <1>8, <2>1, <2>2, <2>3
<1>9. item.at = "inv" => t.win # "box"
  BY <1>3 DEF Holding, Of, NoItem
<1>10. CASE DropItem \/ SafeboxCheckin \/ \E p \in Pids : ExchangeItem(p)
  <2>1. delayed' = FALSE /\ toDb' = toDb \o SaveSingleItem(item') /\ item.at = "inv"
    BY <1>10 DEF DropItem, SafeboxCheckin, ExchangeItem, ChangeAndFlush, Send
  <2>2. /\ item'.at = "box" => box[item'.by] = "open"
        /\ item'.at # "none"
    <3>1. CASE DropItem
      <4>1. item' = [item EXCEPT !.at = "ground", !.by = Nobody]
        BY <3>1 DEF DropItem, ChangeAndFlush
      <4>2. item'.at = "ground"  BY <1>2, <4>1 DEF ItemState
      <4> QED  BY <4>2
    <3>2. CASE SafeboxCheckin
      <4>1. item' = [item EXCEPT !.at = "box"] /\ box[item.by] = "open"
        BY <3>2 DEF SafeboxCheckin, ChangeAndFlush
      <4>2. item'.at = "box" /\ item'.by = item.by  BY <1>2, <4>1 DEF ItemState
      <4> QED  BY <4>1, <4>2
    <3>3. CASE \E p \in Pids : ExchangeItem(p)
      <4>1. item'.at = "inv"  BY <3>3 DEF ExchangeItem, ChangeAndFlush, Item
      <4> QED  BY <4>1
    <3> QED  BY <1>10, <3>1, <3>2, <3>3
  <2> QED  BY <1>2, <1>8, <1>9, <2>1, <2>2
<1>11. CASE ItemManagerUpdate
  <2>1. delayed' = FALSE /\ toDb' = toDb \o SaveSingleItem(item') /\ item' = item /\ delayed
    BY <1>11 DEF ItemManagerUpdate, Send
  <2>2. item.at \in {"inv", "ground"}  BY <1>3, <2>1 DEF Holding
  <2> QED  BY <1>2, <1>8, <1>9, <2>1, <2>2
<1>12. CASE DestroyItem
  <2> DEFINE m == M("ITEM_DESTROY", item.last, 0, NoItem)
  <2>1. /\ item' = Item("none", Nobody, 0, Nobody) /\ delayed' = FALSE /\ toDb' = toDb \o <<m>>
    BY <1>12 DEF DestroyItem, Send
  <2>2. m \in Request /\ m.op = "ITEM_DESTROY" /\ m.s = 0 /\ m.x = NoItem
    BY <1>2 DEF M, Message, Request, RequestOp, ItemState
  <2> HIDE DEF m
  <2>3. NoToken(m) /\ \A q \in Pids : ~BoxPut(m, q)
    BY <2>2, PlainMessage DEF BoxPut
  <2>4. Flow(Append(toDb, m), FALSE, IF m.op \in ItemOps THEN m.x ELSE t, FALSE)
    BY <1>5, <2>2, <2>3, FlowSend
  <2>5. Flow(toDb', FALSE, NoItem, FALSE)
    BY <1>2, <2>1, <2>2, <2>4, SendIs DEF ItemOps
  <2>6. item'.at = "none"  BY <2>1 DEF Item
  <2>7. Holding(item', delayed', NoItem) /\ Stored'
    BY <2>1, <2>6 DEF Holding, Stored
  <2> QED  BY <1>6, <2>5, <2>7
<1>13. CASE SafeboxCheckout
  <2> DEFINE i == item'
             f == M("ITEM_FLUSH", Nobody, 0, NoItem)
  <2>1. /\ i = Item("inv", item.by, item.ver, item.by) /\ delayed' = FALSE
        /\ toDb' = toDb \o (SaveSingleItem(i) \o <<f>>)
    BY <1>13 DEF SafeboxCheckout, Send
  <2>2. f \in Request /\ f.op = "ITEM_FLUSH" /\ f.s = 0
    BY DEF M, Message, Request, RequestOp
  <2>3. i.at = "inv"  BY <2>1 DEF Item
  <2>4. i \in ItemState  BY <1>2
  <2> HIDE DEF f, i
  <2>5. Flow(toDb \o SaveSingleItem(i), FALSE, Told1(i), TRUE)
    BY <1>5, <2>3, <2>4, SaveSent
  <2>6. NoToken(f) /\ f.op \notin ItemOps /\ \A q \in Pids : ~BoxPut(f, q)
    BY <2>2, PlainMessage DEF BoxPut, ItemOps
  <2>7. Flow(Append(toDb \o SaveSingleItem(i), f), FALSE, Told1(i), FALSE)
    BY <2>2, <2>5, <2>6, FlowSend
  <2>8. toDb' = Append(toDb \o SaveSingleItem(i), f)
    <3>1. PICK m \in Request : SaveSingleItem(i) = <<m>>  BY <2>4, SaveSays
    <3>2. toDb \o <<m>> = Append(toDb, m) /\ toDb \o (<<m>> \o <<f>>) = Append(Append(toDb, m), f)
      BY <1>2, <2>2, SendIs
    <3> QED  BY <2>1, <3>1, <3>2
  <2>9. Holding(item', delayed', Told1(i)) /\ Stored'
    BY <2>1, <2>3 DEF Holding, Stored, Told1, Of, InInv, i
  <2> QED  BY <1>6, <2>3, <2>7, <2>8, <2>9 DEF i
<1> QED  BY <1>7, <1>10, <1>11, <1>12, <1>13 DEF GameItem

(* What is carried does not depend on the state of the safebox.            *)
LEMMA ClaimsInv ==
    ASSUME NEW Q, NEW z, NEW free, NEW b, NEW c, NEW A, NEW q, Claims(Q, z, free, b, A, q, "inv")
    PROVE  Claims(Q, z, free, c, A, q, "inv")
  BY DEF Claims

(* The queues, with another connection to the db.                          *)
LEMMA FourType ==
    ASSUME TypeOK, NEW d \in Seq(Request)
    PROVE  LET Q == Four(d, main, results, toGame)
           IN  /\ Q \in [1..4 -> Seq(Message4)]
               /\ Q[1] = d /\ Q[2] = main /\ Q[3] = results /\ Q[4] = toGame
<1>1. /\ d \in Seq(Message4) /\ main \in Seq(Message4)
      /\ results \in Seq(Message4) /\ toGame \in Seq(Message4)
  <2>1. main \in Seq(Statement) /\ results \in Seq(SqlAnswer) /\ toGame \in Seq(Reply)
    BY DEF TypeOK, SqlOK
  <2> QED  BY <2>1, Seq4
<1> QED  BY <1>1, FourIs

(* A session ends, or a window closes.                                     *)
LEMMA FlowEnds ==
    ASSUME TypeOK, UNCHANGED <<main, results, toGame, saved>>, NEW told, NEW free \in BOOLEAN,
           Flow(toDb', free, told, FALSE), free => Absent',
           \A q \in Pids, w \in Wins :
              \/ Tokens(q, w)' = Tokens(q, w) /\ (w = "inv" \/ box'[q] = box[q])
              \/ None4(Four(toDb', main, results, toGame), Tokens(q, w)')
    PROVE  Claimed' /\ Packed' /\ told = LastOf(toDb', ItemOps, saved')
<1> DEFINE Q == Four(toDb', main, results, toGame)
<1>1. AllClaims(Q, saved, free)  BY DEF Flow
<1>2. Absent' \in BOOLEAN  BY DEF Absent
<1> HIDE DEF Q
<1>3. ASSUME NEW q \in Pids, NEW w \in Wins
      PROVE  Claims(Q, saved, Absent', box'[q], Tokens(q, w)', q, w)
  <2> DEFINE A == Tokens(q, w)'
             b == box'[q]
             c == box[q]
  <2>1. CASE None4(Q, A)
    <3> HIDE DEF A, b
    <3>1. Claims(Q, saved, Absent', b, A, q, w)  BY <2>1, ClaimsNone
    <3> QED  BY <3>1 DEF A, b
  <2>2. CASE A = Tokens(q, w) /\ (w = "inv" \/ b = c)
    <3>1. Claims(Q, saved, free, c, A, q, w)  BY <1>1, <2>2 DEF AllClaims
    <3>2. w = "inv" \/ b = c  BY <2>2
    <3> HIDE DEF A, b, c
    <3>3. Claims(Q, saved, free, b, A, q, w)
      <4>1. CASE b = c  BY <3>1, <4>1
      <4>2. CASE w = "inv"  BY <3>1, <4>2, ClaimsInv
      <4> QED  BY <3>2, <4>1, <4>2
    <3>4. Claims(Q, saved, Absent', b, A, q, w)
      <4>1. CASE Absent' = free  BY <3>3, <4>1
      <4>2. CASE Absent' # free
        <5>1. free = FALSE  BY <1>2, <4>2
        <5> QED  BY <3>3, <5>1, ClaimsBusy
      <4> QED  BY <4>1, <4>2
    <3> QED  BY <3>4 DEF A, b
  <2> QED  BY <2>1, <2>2 DEF Q
<1>4. Claimed'
  BY <1>3 DEF Claimed, AllClaims, Q
<1> QED  BY <1>4 DEF Packed, Flow

(* A player asks for items nothing of which is on its way.                 *)
LEMMA FlowAsk ==
    ASSUME TypeOK, Claimed, Packed, UNCHANGED <<main, results, toGame, saved, item>>,
           NEW p \in Pids, NEW v \in Wins, NEW m \in Request, toDb' = Append(toDb, m),
           m.op \notin ItemOps \cup {"ITEM_FLUSH"},
           \A q \in Pids, w \in Wins : q # p \/ w # v =>
              /\ m \notin Tokens(q, w)'
              /\ \/ Tokens(q, w)' = Tokens(q, w) /\ (w = "inv" \/ box'[q] = box[q])
                 \/ None4(Four(toDb, main, results, toGame), Tokens(q, w)'),
           None4(Four(toDb, main, results, toGame), Tokens(p, v)'),
           v = "box" => box'[p] = "asked",
           Of(LastOf(toDb, ItemOps, saved), p, v) => Absent
    PROVE  Claimed' /\ Packed' /\ LastOf(toDb, ItemOps, saved) = LastOf(toDb', ItemOps, saved')
<1> DEFINE Q == Four(toDb, main, results, toGame)
           R == Four(toDb', main, results, toGame)
<1>1. toDb \in Seq(Request) /\ toDb' \in Seq(Request) /\ saved \in Saved /\ Absent \in BOOLEAN
  BY AppendProperties DEF TypeOK, HistOK, Saved, Absent
<1>2. /\ Q \in [1..4 -> Seq(Message4)] /\ R \in [1..4 -> Seq(Message4)]
      /\ Q[1] = toDb /\ With(R, Q, 1, Append(Q[1], m))
  <2>1. Q \in [1..4 -> Seq(Message4)] /\ Q[1] = toDb /\ R \in [1..4 -> Seq(Message4)]
    BY <1>1, FourType
  <2>2. With(R, Q, 1, toDb')  BY DEF With, Four
  <2> QED  BY <2>1, <2>2
<1>3. m \in Message4  BY DEF Message4
<1>4. AllClaims(Q, saved, Absent) /\ None4(Q, Tokens(p, v)')
  BY DEF Claimed
<1>5. \A q \in Pids, w \in Wins : q # p \/ w # v =>
              /\ m \notin Tokens(q, w)'
              /\ \/ Tokens(q, w)' = Tokens(q, w) /\ (w = "inv" \/ box'[q] = box[q])
                 \/ None4(Q, Tokens(q, w)')
  OBVIOUS
<1> HIDE DEF Q, R
<1>6. Claims(R, saved, Absent, box'[p], Tokens(p, v)', p, v)
  <2> DEFINE A == Tokens(p, v)'
             b == box'[p]
  <2>1. None4(Q, A)  BY <1>4
  <2>2. v = "box" => b = "asked"  OBVIOUS
  <2>3. \A u \in Saved : Says(Q[1], ItemOps, saved, Len(Q[1]) + 1, u) => ~Of(u, p, v) \/ Absent
    <3> SUFFICES ASSUME NEW u \in Saved, Says(toDb, ItemOps, saved, Len(toDb) + 1, u)
                 PROVE  ~Of(u, p, v) \/ Absent
      BY <1>2
    <3>1. Says(toDb, ItemOps, saved, Len(toDb) + 1, LastOf(toDb, ItemOps, saved)) /\ Len(toDb) + 1 \in Nat
      BY <1>1, LastOfSays, LenProperties
    <3>2. u = LastOf(toDb, ItemOps, saved)  BY <1>1, <3>1, SaysOne
    <3> QED  BY <3>2
  <2>4. m.op \notin ItemOps /\ m.op # "ITEM_SAVE"  BY DEF ItemOps
  <2> HIDE DEF A, b
  <2>5. Claims(R, saved, Absent, b, A, p, v)
    BY <1>1, <1>2, <2>1, <2>2, <2>3, <2>4, ClaimsAsk
  <2> QED  BY <2>5 DEF A, b
<1>7. ASSUME NEW q \in Pids, NEW w \in Wins, q # p \/ w # v
      PROVE  Claims(R, saved, Absent, box'[q], Tokens(q, w)', q, w)
  <2> DEFINE A == Tokens(q, w)'
             b == box'[q]
             c == box[q]
  <2>0. m \notin A  BY <1>5, <1>7
  <2>1. CASE None4(Q, A)
    <3> HIDE DEF A, b
    <3>1. None4(R, A)
      <4>1. 1 \in 1..4  OBVIOUS
      <4> QED  BY <1>2, <1>3, <2>0, <2>1, <4>1, AppendFour
    <3>2. Claims(R, saved, Absent, b, A, q, w)  BY <3>1, ClaimsNone
    <3> QED  BY <3>2 DEF A, b
  <2>2. CASE A = Tokens(q, w) /\ (w = "inv" \/ b = c)
    <3>1. Claims(Q, saved, Absent, c, A, q, w)  BY <1>4, <2>2 DEF AllClaims
    <3>2. w = "inv" \/ b = c  BY <2>2
    <3>3. m.op \notin ItemOps /\ ~BoxPut(m, q)  BY DEF ItemOps, BoxPut
    <3> HIDE DEF A, b, c
    <3>4. Claims(Q, saved, Absent, b, A, q, w)
      <4>1. CASE b = c  BY <3>1, <4>1
      <4>2. CASE w = "inv"  BY <3>1, <4>2, ClaimsInv
      <4> QED  BY <3>2, <4>1, <4>2
    <3>5. Claims(R, saved, Absent, b, A, q, w)
      <4>1. Sendable(Q, R, m, saved, Absent, b, A, q, w)
        BY <1>1, <1>2, <2>0, <3>3, <3>4 DEF Sendable
      <4> QED  BY <4>1, ClaimsSend
    <3> QED  BY <3>5 DEF A, b
  <2> QED  BY <1>5, <1>7, <2>1, <2>2
<1>8. \A q \in Pids, w \in Wins : Claims(R, saved, Absent, box'[q], Tokens(q, w)', q, w)
  BY <1>6, <1>7
<1>9. Claimed'
  BY <1>8 DEF Claimed, AllClaims, Absent, R
<1>10. Packed'
  <2>1. FlushNext(toDb', saved, FALSE)
    BY <1>1, FlushNextAppend DEF Packed, ItemOps
  <2>2. Destroys(toDb')
    BY <1>1, DestroysKept DEF Packed, ItemOps
  <2> QED  BY <2>1, <2>2 DEF Packed
<1>11. LastOf(toDb', ItemOps, saved) = LastOf(toDb, ItemOps, saved)
  BY <1>1, LastOfAppend
<1> QED  BY <1>9, <1>10, <1>11

(* The queues of the program are queues of messages.                       *)
LEMMA FourQueues ==
    ASSUME TypeOK
    PROVE  LET Q == Four(toDb, main, results, toGame)
           IN  /\ Q \in [1..4 -> Seq(Message4)]
               /\ Q[1] = toDb /\ Q[2] = main /\ Q[3] = results /\ Q[4] = toGame
  BY FourType DEF TypeOK

(* Nothing is on its way to a safebox window that does not wait.           *)
LEMMA NoneAsked ==
    ASSUME Claimed, NEW q \in Pids, box[q] # "asked"
    PROVE  None4(Four(toDb, main, results, toGame), Tokens(q, "box"))
  BY DEF Claimed, AllClaims, Claims, Wins

(* A load of a session that has not begun is not on its way.               *)
LEMMA NoneYet ==
    ASSUME TypeOK, Numbered, NEW A, \A m \in A : m.s > NPlayers + nSess
    PROVE  None4(Four(toDb, main, results, toGame), A)
<1> DEFINE Q == Four(toDb, main, results, toGame)
           N == NPlayers + nSess
<1>1. Q[1] = toDb /\ Q[2] = main /\ Q[3] = results /\ Q[4] = toGame
  BY FourQueues
<1>2. N \in Nat  BY ItemAssumption DEF TypeOK
<1>3. \A s \in 1..4 : Q[s] \in Seq(Message4)
  BY FourQueues
<1> HIDE DEF Q, N
<1>4. \A s \in 1..4 : Bounded(Q[s], N)
  BY <1>1 DEF Numbered, N
<1>5. \A m \in A : m.s > N
  BY DEF N
<1> SUFFICES ASSUME NEW s \in 1..4, NEW i \in DOMAIN Q[s], Q[s][i] \in A PROVE FALSE
  BY DEF None4, Q
<1>6. Q[s][i] \in Message4  BY <1>3, ElementOfSeq, LenProperties
<1>7. Q[s][i].s \in Nat
  BY <1>6 DEF Message4, Request, Statement, SqlAnswer, Reply, Message
<1> QED  BY <1>2, <1>4, <1>5, <1>7 DEF Bounded

(* A player selects a character: the first load of a new session.          *)
LEMMA CopySelect ==
    ASSUME TypeOK, Numbered, Carried, Claimed, Held, Packed, NEW p \in Pids, CharacterSelect(p)
    PROVE  Claimed' /\ Held' /\ Packed' /\ LeftKnown
<1> DEFINE t == LastOf(toDb, ItemOps, saved)
           n == NPlayers + nSess + 1
           m == M("PLAYER_LOAD", p, n, NoItem)
<1>1. /\ UNCHANGED <<main, results, toGame, saved, item, delayed, box>>
      /\ toDb' = toDb \o <<m>> /\ st[p] = "off"
      /\ st' = [st EXCEPT ![p] = "asked"] /\ sess' = [sess EXCEPT ![p] = n]
  BY DEF CharacterSelect, Send, sql, hist, TypeOK, GameOK
<1>2. /\ n \in Nat \ {0} /\ toDb \in Seq(Request)
      /\ st \in [Pids -> {"off", "asked", "loading", "play"}] /\ sess \in [Pids -> Nat \ {0}]
      /\ n > NPlayers + nSess
  BY ItemAssumption DEF TypeOK, GameOK
<1>3. m \in Request  BY <1>2, RequestType DEF RequestOp
<1>4. m.op = "PLAYER_LOAD" /\ m.p = p /\ m.s = n  BY DEF M
<1>5. toDb' = Append(toDb, m)  BY <1>1, <1>2, <1>3, SendIs
<1>6. Held /\ Stored /\ Holding(item, delayed, t)  BY DEF Held
<1> HIDE DEF m, t
<1>7. ASSUME NEW q \in Pids, NEW w \in Wins, q # p PROVE Tokens(q, w)' = Tokens(q, w) /\ m \notin Tokens(q, w)'
  BY <1>1, <1>2, <1>4, <1>7 DEF Tokens
<1>8. \A w \in Wins : \A l \in Tokens(p, w)' : l.s = n
  BY <1>1, <1>2 DEF Tokens
<1> HIDE DEF n
<1>9. \A w \in Wins : None4(Four(toDb, main, results, toGame), Tokens(p, w)')
  <2> SUFFICES ASSUME NEW w \in Wins
               PROVE  None4(Four(toDb, main, results, toGame), Tokens(p, w)')
    OBVIOUS
  <2> DEFINE A == Tokens(p, w)'
  <2>1. \A l \in A : l.s > NPlayers + nSess  BY <1>2, <1>8
  <2> HIDE DEF A
  <2>2. None4(Four(toDb, main, results, toGame), A)  BY <2>1, NoneYet
  <2> QED  BY <2>2 DEF A
<1>10. m \notin Tokens(p, "box")'
  BY <1>4 DEF Tokens, TokenOp
<1>11. Of(t, p, "inv") => Absent
  BY <1>1, <1>6 DEF Of, Carried, InGame, Holding, NoItem, Nobody, Pids, Absent, TypeOK, GameOK, ItemState
<1>12. "inv" \in Wins /\ \A w \in Wins : w # "inv" => w = "box"
  BY DEF Wins
<1>13. m.op \notin ItemOps \cup {"ITEM_FLUSH"}  BY <1>4 DEF ItemOps
<1>15. \A q \in Pids, w \in Wins : q # p \/ w # "inv" =>
              /\ m \notin Tokens(q, w)'
              /\ \/ Tokens(q, w)' = Tokens(q, w) /\ (w = "inv" \/ box'[q] = box[q])
                 \/ None4(Four(toDb, main, results, toGame), Tokens(q, w)')
  BY <1>1, <1>7, <1>9, <1>10, <1>12
<1>14. Claimed' /\ Packed' /\ t = LastOf(toDb', ItemOps, saved')
  BY <1>1, <1>3, <1>5, <1>9, <1>11, <1>12, <1>13, <1>15, FlowAsk DEF t
<1>16. Held'
  BY <1>1, <1>6, <1>14 DEF Held, Stored
<1>17. LeftKnown  BY <1>1 DEF LeftKnown
<1> QED  BY <1>14, <1>16, <1>17

(* A player asks for the safebox.                                          *)
LEMMA CopyReqSafebox ==
    ASSUME TypeOK, Claimed, Held, Packed, NEW p \in Pids, ReqSafeboxLoad(p)
    PROVE  Claimed' /\ Held' /\ Packed' /\ LeftKnown
<1> DEFINE t == LastOf(toDb, ItemOps, saved)
           m == M("SAFEBOX_LOAD", p, sess[p], NoItem)
<1>1. /\ UNCHANGED <<main, results, toGame, saved, item, delayed, st, sess>>
      /\ toDb' = toDb \o <<m>> /\ box[p] = "closed" /\ box' = [box EXCEPT ![p] = "asked"]
  BY DEF ReqSafeboxLoad, Send, sql, hist
<1>2. /\ toDb \in Seq(Request) /\ sess[p] \in Nat /\ item \in ItemState
      /\ box \in [Pids -> {"closed", "asked", "open"}]
  BY DEF TypeOK, GameOK
<1>3. m \in Request  BY <1>2, RequestType DEF RequestOp
<1>4. m.op = "SAFEBOX_LOAD" /\ m.p = p  BY DEF M
<1>5. toDb' = Append(toDb, m)  BY <1>1, <1>2, <1>3, SendIs
<1>6. Stored /\ Holding(item, delayed, t)  BY DEF Held
<1> HIDE DEF m, t
<1>7. \A q, w : Tokens(q, w)' = Tokens(q, w)
  BY <1>1 DEF Tokens
<1>8. \A q \in Pids, w \in Wins : q # p \/ w # "box" => m \notin Tokens(q, w)
  BY <1>4 DEF Tokens, TokenOp, Wins
<1>9. None4(Four(toDb, main, results, toGame), Tokens(p, "box")')
  BY <1>1, <1>7, NoneAsked
<1>10. item.at = "box" => item.by # p
  BY <1>1, <1>6 DEF Stored
<1>11. Of(t, p, "box") => Absent
  BY <1>2, <1>6, <1>10 DEF Of, Holding, NoItem, Nobody, Pids, Absent, ItemState
<1>12. "box" \in Wins /\ \A w \in Wins : w # "box" => w = "inv"
  BY DEF Wins
<1>13. m.op \notin ItemOps \cup {"ITEM_FLUSH"}  BY <1>4 DEF ItemOps
<1>15. \A q \in Pids, w \in Wins : q # p \/ w # "box" =>
              /\ m \notin Tokens(q, w)'
              /\ \/ Tokens(q, w)' = Tokens(q, w) /\ (w = "inv" \/ box'[q] = box[q])
                 \/ None4(Four(toDb, main, results, toGame), Tokens(q, w)')
  <2> SUFFICES ASSUME NEW q \in Pids, NEW w \in Wins, q # p \/ w # "box"
               PROVE  m \notin Tokens(q, w) /\ (w = "inv" \/ box'[q] = box[q])
    BY <1>7
  <2>1. m \notin Tokens(q, w)  BY <1>8
  <2>2. q # p => box'[q] = box[q]  BY <1>1, <1>2
  <2> QED  BY <1>12, <2>1, <2>2
<1>16. box'[p] = "asked"  BY <1>1, <1>2
<1>14. Claimed' /\ Packed' /\ t = LastOf(toDb', ItemOps, saved')
  BY <1>1, <1>3, <1>5, <1>9, <1>11, <1>12, <1>13, <1>15, <1>16, FlowAsk DEF t
<1>17. Stored'
  BY <1>1, <1>2, <1>6, <1>10 DEF Stored, ItemState
<1>18. Held'  BY <1>1, <1>6, <1>14, <1>17 DEF Held
<1>19. LeftKnown  BY <1>1 DEF LeftKnown
<1> QED  BY <1>14, <1>18, <1>19

(* The player is saved, or a flush is asked for.                           *)
LEMMA CopyPlain ==
    ASSUME TypeOK, Claimed, Held, Packed, NEW p \in Pids, SavePlayer(p) \/ FlushCommand(p)
    PROVE  Claimed' /\ Held' /\ Packed' /\ LeftKnown
<1> DEFINE t == LastOf(toDb, ItemOps, saved)
<1>1. UNCHANGED <<main, results, toGame, saved, item, delayed, st, sess, box>>
  BY DEF SavePlayer, FlushCommand, game, sql, hist
<1>2. PICK m \in Request : toDb' = toDb \o <<m>> /\ m.op \in {"PLAYER_SAVE", "FLUSH_CACHE"}
  <2> DEFINE n(op) == M(op, p, 0, NoItem)
  <2>1. /\ n("PLAYER_SAVE") \in Request /\ n("FLUSH_CACHE") \in Request
        /\ n("PLAYER_SAVE").op = "PLAYER_SAVE" /\ n("FLUSH_CACHE").op = "FLUSH_CACHE"
    BY RequestType DEF RequestOp, M
  <2>2. toDb' = toDb \o <<n("PLAYER_SAVE")>> \/ toDb' = toDb \o <<n("FLUSH_CACHE")>>
    BY DEF SavePlayer, FlushCommand, Send
  <2> HIDE DEF n
  <2> QED  BY <2>1, <2>2
<1>3. toDb \in Seq(Request)  BY DEF TypeOK
<1>4. toDb' = Append(toDb, m)  BY <1>2, <1>3, SendIs
<1>5. NoToken(m)
  <2>1. m.op \notin TokenOp("inv") \cup TokenOp("box")  BY <1>2 DEF TokenOp
  <2> QED  BY <2>1, PlainMessage
<1>6. m.op \notin ItemOps /\ \A q \in Pids : ~BoxPut(m, q)
  BY <1>2 DEF ItemOps, BoxPut
<1>7. Flow(toDb, Absent, t, FALSE) /\ Absent \in BOOLEAN
  BY FlowNow DEF Absent
<1> HIDE DEF t
<1>8. Flow(Append(toDb, m), Absent, t, FALSE)
  <2>1. Flow(Append(toDb, m), Absent, IF m.op \in ItemOps THEN m.x ELSE t, FALSE)
    BY <1>2, <1>5, <1>6, <1>7, FlowSend DEF ItemOps
  <2> QED  BY <1>6, <2>1
<1>9. Claimed' /\ Packed' /\ t = LastOf(toDb', ItemOps, saved')
  <2>1. Absent => Absent'  BY <1>1 DEF Absent
  <2> QED  BY <1>1, <1>4, <1>7, <1>8, <2>1, FlowThen
<1>10. Held'  BY <1>1, <1>9 DEF Held, Stored, t
<1>11. LeftKnown  BY <1>1 DEF LeftKnown
<1> QED  BY <1>9, <1>10, <1>11

(* A player closes the safebox: what is stored leaves the game.            *)
LEMMA CopyClose ==
    ASSUME TypeOK, Claimed, Held, Packed, NEW p \in Pids, CloseSafebox(p)
    PROVE  Claimed' /\ Held' /\ Packed' /\ LeftKnown
<1> DEFINE t == LastOf(toDb, ItemOps, saved)
<1>1. /\ UNCHANGED <<main, results, toGame, saved, st, sess>>
      /\ box[p] = "open" /\ box' = [box EXCEPT ![p] = "closed"]
  BY DEF CloseSafebox, sql, hist
<1>2. /\ toDb \in Seq(Request) /\ item \in ItemState /\ delayed \in BOOLEAN
      /\ box \in [Pids -> {"closed", "asked", "open"}]
  BY DEF TypeOK, GameOK
<1>3. Stored /\ Holding(item, delayed, t)  BY DEF Held
<1>4. toDb' = toDb
  <2>1. CASE item.at = "box" /\ item.by = p
    <3>1. ~delayed  BY <1>3, <2>1 DEF Holding
    <3>2. toDb' = toDb \o <<>>  BY <2>1, <3>1 DEF CloseSafebox, PendingOf, Send
    <3> QED  BY <1>2, <3>2, SendIs
  <2>2. CASE ~(item.at = "box" /\ item.by = p)
    BY <2>2 DEF CloseSafebox
  <2> QED  BY <2>1, <2>2
<1>5. Flow(toDb', Absent, t, FALSE) /\ Absent \in BOOLEAN
  BY <1>4, FlowNow DEF Absent
<1> HIDE DEF t
<1>6. \/ item' = item /\ delayed' = delayed /\ ~(item.at = "box" /\ item.by = p)
      \/ item.at = "box" /\ item.by = p /\ item' = Item("none", Nobody, 0, Nobody) /\ delayed' = FALSE
  BY DEF CloseSafebox, Gone, Holds
<1>7. \A q, w : Tokens(q, w)' = Tokens(q, w)
  BY <1>1 DEF Tokens
<1>8. \A q \in Pids, w \in Wins :
              \/ Tokens(q, w)' = Tokens(q, w) /\ (w = "inv" \/ box'[q] = box[q])
              \/ None4(Four(toDb', main, results, toGame), Tokens(q, w)')
  <2> SUFFICES ASSUME NEW q \in Pids, NEW w \in Wins, w # "inv", box'[q] # box[q]
               PROVE  None4(Four(toDb', main, results, toGame), Tokens(q, w)')
    BY <1>7
  <2>1. w = "box" /\ box[q] # "asked"  BY <1>1, <1>2 DEF Wins
  <2> QED  BY <1>4, <1>7, <2>1, NoneAsked
<1>9. Absent => Absent'
  BY <1>6 DEF Absent
<1>10. Claimed' /\ Packed' /\ t = LastOf(toDb', ItemOps, saved')
  BY <1>1, <1>5, <1>8, <1>9, FlowEnds
<1>11. Held'
  <2>1. CASE item' = item /\ delayed' = delayed /\ ~(item.at = "box" /\ item.by = p)
    BY <1>1, <1>2, <1>3, <1>10, <2>1 DEF Held, Stored, ItemState
  <2>2. CASE item' = Item("none", Nobody, 0, Nobody) /\ delayed' = FALSE
    BY <1>10, <2>2 DEF Held, Stored, Holding, Item
  <2> QED  BY <1>6, <2>1, <2>2
<1>12. LeftKnown
  BY <1>3, <1>6, <1>10 DEF LeftKnown, Holding
<1> QED  BY <1>10, <1>11, <1>12

(* The player and what waits of the items are saved, and the session is    *)
(* over.                                                                   *)
LEMMA CopyDisconnect ==
    ASSUME TypeOK, Claimed, Held, Packed, NEW p \in Pids, Disconnect(p)
    PROVE  Claimed' /\ Held' /\ Packed' /\ LeftKnown
<1> DEFINE t == LastOf(toDb, ItemOps, saved)
           u == IF Holds(p) /\ delayed THEN Told1(item) ELSE t
           m == M("PLAYER_SAVE", p, 0, NoItem)
           l == M("LOGOUT", p, 0, NoItem)
           head == IF InGame(p) THEN <<m>> ELSE <<>>
           d1 == toDb \o head
           d2 == d1 \o PendingOf(p)
<1>1. /\ UNCHANGED <<main, results, toGame, saved, sess>>
      /\ st' = [st EXCEPT ![p] = "off"] /\ box' = [box EXCEPT ![p] = "closed"]
      /\ item' = Gone(p) /\ delayed' = (delayed /\ ~Holds(p))
      /\ toDb' = toDb \o (head \o PendingOf(p) \o <<l>>)
  BY DEF Disconnect, Send, sql, hist
<1>2. /\ toDb \in Seq(Request) /\ item \in ItemState /\ delayed \in BOOLEAN
      /\ box \in [Pids -> {"closed", "asked", "open"}]
      /\ st \in [Pids -> {"off", "asked", "loading", "play"}]
  BY DEF TypeOK, GameOK
<1>3. Stored /\ Holding(item, delayed, t)  BY DEF Held
<1>4. m \in Request /\ l \in Request /\ m.op = "PLAYER_SAVE" /\ l.op = "LOGOUT"
  BY RequestType DEF RequestOp, M
<1>5. NoToken(m) /\ NoToken(l)
  <2>1. m.op \notin TokenOp("inv") \cup TokenOp("box") /\ l.op \notin TokenOp("inv") \cup TokenOp("box")
    BY <1>4 DEF TokenOp
  <2> QED  BY <2>1, PlainMessage
<1>6. /\ m.op \notin ItemOps /\ \A q \in Pids : ~BoxPut(m, q)
      /\ l.op \notin ItemOps /\ \A q \in Pids : ~BoxPut(l, q)
  BY <1>4 DEF ItemOps, BoxPut
<1>7. Flow(toDb, Absent, t, FALSE) /\ Absent \in BOOLEAN
  BY FlowNow DEF Absent
<1> HIDE DEF t, m, l
<1>8. Flow(d1, Absent, t, FALSE)
  <2>1. Flow(Append(toDb, m), Absent, IF m.op \in ItemOps THEN m.x ELSE t, FALSE)
    BY <1>4, <1>5, <1>6, <1>7, FlowSend DEF ItemOps
  <2>2. toDb \o <<m>> = Append(toDb, m) /\ toDb \o <<>> = toDb
    BY <1>2, <1>4, SendIs
  <2> QED  BY <1>6, <1>7, <2>1, <2>2
<1>9. Flow(d2, Absent, u, FALSE)
  <2>1. CASE Holds(p) /\ delayed
    <3>1. item.at = "inv" /\ ~Absent  BY <1>3, <2>1 DEF Holds, Holding, Absent
    <3>2. t.win # "box"  BY <1>3, <3>1 DEF Holding, Of, NoItem
    <3>3. Flow(d1, FALSE, t, FALSE)  BY <1>7, <1>8, <3>1
    <3> HIDE DEF d1
    <3>4. Flow(d1 \o SaveSingleItem(item), FALSE, Told1(item), FALSE)
      BY <1>2, <3>1, <3>2, <3>3, SaveSent
    <3> QED  BY <1>7, <2>1, <3>1, <3>4 DEF PendingOf
  <2>2. CASE ~(Holds(p) /\ delayed)
    <3>1. PendingOf(p) = <<>>  BY <2>2 DEF PendingOf
    <3>2. d1 \in Seq(Request)  BY <1>8 DEF Flow
    <3>3. d2 = d1  BY <3>1, <3>2, SendIs
    <3> QED  BY <1>8, <2>2, <3>3
  <2> QED  BY <2>1, <2>2
<1>10. d2 \in Seq(Request)  BY <1>9 DEF Flow
<1>11. toDb' = Append(d2, l)
  <2>1. d2 \o <<l>> = Append(d2, l)
    <3> HIDE DEF d2
    <3> QED  BY <1>4, <1>10, SendIs
  <2>2. /\ head \in Seq(Request) /\ PendingOf(p) \in Seq(Request) /\ <<l>> \in Seq(Request)
    BY <1>4, PendingOfType DEF TypeOK
  <2>3. toDb \o (head \o PendingOf(p) \o <<l>>) = toDb \o head \o PendingOf(p) \o <<l>>
    <3> DEFINE P == PendingOf(p)
               L == <<l>>
    <3>1. head \in Seq(Request) /\ P \in Seq(Request) /\ L \in Seq(Request) /\ toDb \in Seq(Request)
      BY <1>2, <2>2
    <3> HIDE DEF head, P, L
    <3>2. toDb \o (head \o P \o L) = toDb \o head \o P \o L
      BY <3>1
    <3> QED  BY <3>2 DEF P, L
  <2> QED  BY <1>1, <2>1, <2>3
<1> HIDE DEF d2, u
<1>12. Flow(toDb', Absent, u, FALSE)
  <2>1. Flow(Append(d2, l), Absent, IF l.op \in ItemOps THEN l.x ELSE u, FALSE)
    BY <1>4, <1>5, <1>6, <1>7, <1>9, FlowSend DEF ItemOps
  <2> QED  BY <1>6, <1>11, <2>1
<1>13. \A q \in Pids, w \in Wins :
              \/ Tokens(q, w)' = Tokens(q, w) /\ (w = "inv" \/ box'[q] = box[q])
              \/ None4(Four(toDb', main, results, toGame), Tokens(q, w)')
  <2> SUFFICES ASSUME NEW q \in Pids, NEW w \in Wins
               PROVE  \/ Tokens(q, w)' = Tokens(q, w) /\ box'[q] = box[q]
                      \/ Tokens(q, w)' = {}
    BY DEF None4
  <2>1. CASE q = p  BY <1>1, <1>2, <2>1 DEF Tokens
  <2>2. CASE q # p  BY <1>1, <1>2, <2>2 DEF Tokens
  <2> QED  BY <2>1, <2>2
<1>14. Absent => Absent'
  BY <1>1 DEF Absent, Gone, Holds
<1>15. Claimed' /\ Packed' /\ u = LastOf(toDb', ItemOps, saved')
  BY <1>1, <1>7, <1>12, <1>13, <1>14, FlowEnds
<1>16. Held'
  <2>1. CASE ~Holds(p)
    <3>1. item' = item /\ delayed' = delayed /\ u = t
      BY <1>1, <1>2, <2>1 DEF Gone, u
    <3>2. Stored'
      BY <1>1, <1>2, <1>3, <2>1, <3>1 DEF Stored, Holds, ItemState
    <3> QED  BY <1>3, <1>15, <3>1, <3>2 DEF Held
  <2>2. CASE Holds(p)
    BY <1>1, <2>2 DEF Held, Stored, Holding, Gone, Item
  <2> QED  BY <2>1, <2>2
<1>17. LeftKnown
  <2>1. item.at \in {"inv", "box"} /\ item'.at = "none" => Holds(p) /\ u \in {NoItem, Told1(item)}
    BY <1>1, <1>2, <1>3 DEF Gone, Holds, Holding, u
  <2> QED  BY <1>15, <2>1 DEF LeftKnown
<1> QED  BY <1>15, <1>16, <1>17

(* Sessions and safebox windows keep the claims.                           *)
LEMMA CopySession ==
    ASSUME TypeOK, Numbered, Carried, Claimed, Held, Packed, GameSession
    PROVE  Claimed' /\ Held' /\ Packed' /\ LeftKnown
<1>1. PICK p \in Pids : \/ CharacterSelect(p) \/ SavePlayer(p) \/ FlushCommand(p)
                        \/ Disconnect(p) \/ ReqSafeboxLoad(p) \/ CloseSafebox(p)
  BY DEF GameSession
<1> QED  BY <1>1, CopySelect, CopyPlain, CopyDisconnect, CopyReqSafebox, CopyClose

(* Sessions, windows and the item change, and the queues stay.             *)
LEMMA ClaimsMove ==
    ASSUME NEW Q \in [1..4 -> Seq(Message4)], Q[1] \in Seq(Request), NEW z \in Saved,
           NEW old \in BOOLEAN, NEW new \in BOOLEAN, AllClaims(Q, z, old),
           \A q \in Pids, w \in Wins :
              \/ /\ Tokens(q, w)' = Tokens(q, w) /\ (w = "inv" \/ box'[q] = box[q])
                 /\ old => new \/ (~Of(z, q, w) /\ NoItemOp(Q[1], 1))
              \/ None4(Q, Tokens(q, w)')
    PROVE  \A q \in Pids, w \in Wins : Claims(Q, z, new, box'[q], Tokens(q, w)', q, w)
<1> SUFFICES ASSUME NEW q \in Pids, NEW w \in Wins
             PROVE  Claims(Q, z, new, box'[q], Tokens(q, w)', q, w)
  OBVIOUS
<1> DEFINE A == Tokens(q, w)'
           b == box'[q]
           c == box[q]
<1>1. CASE None4(Q, A)
  <2> HIDE DEF A, b
  <2>1. Claims(Q, z, new, b, A, q, w)  BY <1>1, ClaimsNone
  <2> QED  BY <2>1 DEF A, b
<1>2. CASE /\ A = Tokens(q, w) /\ (w = "inv" \/ b = c)
           /\ old => new \/ (~Of(z, q, w) /\ NoItemOp(Q[1], 1))
  <2>1. Claims(Q, z, old, c, A, q, w)  BY <1>2 DEF AllClaims
  <2>2. w = "inv" \/ b = c  BY <1>2
  <2> HIDE DEF A, b, c
  <2>3. Claims(Q, z, old, b, A, q, w)
    <3>1. CASE b = c  BY <2>1, <3>1
    <3>2. CASE w = "inv"  BY <2>1, <3>2, ClaimsInv
    <3> QED  BY <2>2, <3>1, <3>2
  <2>4. Claims(Q, z, new, b, A, q, w)
    <3>1. CASE old = new  BY <2>3, <3>1
    <3>2. CASE old = FALSE
      <4>1. Claims(Q, z, FALSE, b, A, q, w)  BY <2>3, <3>2
      <4> QED  BY <4>1, ClaimsBusy
    <3>3. CASE old = TRUE /\ new = FALSE
      <4>1. Claims(Q, z, TRUE, b, A, q, w) /\ ~Of(z, q, w) /\ NoItemOp(Q[1], 1)
        BY <1>2, <2>3, <3>3
      <4>2. Claims(Q, z, FALSE, b, A, q, w)  BY <4>1, ClaimsTaken
      <4> QED  BY <3>3, <4>2
    <3> QED  BY <3>1, <3>2, <3>3
  <2> QED  BY <2>4 DEF A, b
<1> QED  BY <1>1, <1>2

(* A connection without a word on the item tells what the db knows.        *)
LEMMA LastOfNone ==
    ASSUME NEW d \in Seq(Request), NEW z, NoItemOp(d, 1)
    PROVE  LastOf(d, ItemOps, z) = z
<1>1. \A k \in DOMAIN d : k >= 1  BY LenProperties
<1>2. {k \in DOMAIN d : d[k].op \in ItemOps} = {}
  BY <1>1 DEF NoItemOp
<1> QED  BY <1>2 DEF LastOf

(* The game reads an answer.                                               *)
LEMMA AnswerRead ==
    ASSUME TypeOK, Claimed, toGame # <<>>, toGame' = Tail(toGame)
    PROVE  LET P == Four(toDb, main, results, toGame')
           IN  /\ P \in [1..4 -> Seq(Message4)] /\ P[1] = toDb /\ toDb \in Seq(Request)
               /\ AllClaims(P, saved, Absent)
               /\ \A q \in Pids, w \in Wins : Head(toGame) \in Tokens(q, w) =>
                     /\ None4(P, Tokens(q, w))
                     /\ w = "box" => box[q] = "asked"
                     /\ Head(toGame).x # NoItem =>
                           Absent /\ saved = Head(toGame).x /\ Of(saved, q, w) /\ NoItemOp(toDb, 1)
<1> DEFINE Q == Four(toDb, main, results, toGame)
           P == Four(toDb, main, results, toGame')
<1>1. /\ toDb \in Seq(Request) /\ main \in Seq(Statement) /\ results \in Seq(SqlAnswer)
      /\ toGame \in Seq(Reply) /\ toGame' \in Seq(Reply) /\ saved \in Saved /\ Absent \in BOOLEAN
      /\ Head(toGame) = toGame[1] /\ 1 \in DOMAIN toGame
  BY TailIs DEF TypeOK, SqlOK, HistOK, Saved, Absent
<1>2. /\ toDb \in Seq(Message4) /\ main \in Seq(Message4) /\ results \in Seq(Message4)
      /\ toGame \in Seq(Message4) /\ toGame' \in Seq(Message4)
  BY <1>1, Seq4
<1>3. /\ Q \in [1..4 -> Seq(Message4)] /\ P \in [1..4 -> Seq(Message4)]
      /\ Q[1] = toDb /\ P[1] = toDb /\ Q[4] = toGame
  <2>1. Q \in [1..4 -> Seq(Message4)] /\ Q[1] = toDb /\ Q[4] = toGame
    BY <1>2, FourIs
  <2>2. P \in [1..4 -> Seq(Message4)] /\ P[1] = toDb
    <3> DEFINE g == toGame'
    <3>1. g \in Seq(Message4)  BY <1>2
    <3> HIDE DEF g
    <3>2. Four(toDb, main, results, g) \in [1..4 -> Seq(Message4)] /\ Four(toDb, main, results, g)[1] = toDb
      BY <1>2, <3>1, FourIs
    <3> QED  BY <3>2 DEF g
  <2> QED  BY <2>1, <2>2
<1>4. With(P, Q, 4, Tail(Q[4]))
  <2>1. With(P, Q, 4, toGame')  BY <1>2, FourIs
  <2> QED  BY <1>3, <2>1
<1>5. AllClaims(Q, saved, Absent)  BY DEF Claimed
<1>6. Q[4] # <<>> /\ Head(Q[4]) = Head(toGame)  BY <1>3
<1> HIDE DEF Q, P
<1>7. AllClaims(P, saved, Absent)
  <2>1. 4 \in 2..4  OBVIOUS
  <2>2. Poppable(Q, P, 4, saved, Absent)
    BY <1>1, <1>3, <1>4, <1>5, <1>6, <2>1 DEF Poppable
  <2> QED  BY <2>1, <2>2, PassResult
<1>8. ASSUME NEW q \in Pids, NEW w \in Wins, Head(toGame) \in Tokens(q, w)
      PROVE  /\ None4(P, Tokens(q, w))
             /\ w = "box" => box[q] = "asked"
             /\ Head(toGame).x # NoItem =>
                   Absent /\ saved = Head(toGame).x /\ Of(saved, q, w) /\ NoItemOp(toDb, 1)
  <2> DEFINE A == Tokens(q, w)
             b == box[q]
  <2>1. Claims(Q, saved, Absent, b, A, q, w)  BY <1>5 DEF AllClaims
  <2>2. Head(toGame) \in A  BY <1>8
  <2> HIDE DEF A, b
  <2>3. None4(P, A) /\ (w = "box" => b = "asked")
    <3>1. 4 \in 2..4  OBVIOUS
    <3> QED  BY <1>3, <1>4, <1>6, <2>1, <2>2, <3>1, ClaimsPop
  <2>4. Head(toGame).x # NoItem =>
                   Absent /\ saved = Head(toGame).x /\ Of(saved, q, w) /\ NoItemOp(toDb, 1)
    BY <1>1, <1>3, <2>1, <2>2 DEF Claims
  <2> QED  BY <2>3, <2>4 DEF A, b
<1> QED  BY <1>1, <1>3, <1>7, <1>8 DEF P

(* The item comes, or not.                                                 *)
LEMMA CopyLoad ==
    ASSUME TypeOK, TypeOK', Claimed, Held, Packed, toGame # <<>>, toGame' = Tail(toGame),
           UNCHANGED <<toDb, main, results, saved, sess, delayed>>,
           NEW p \in Pids, NEW v \in Wins, Head(toGame) \in Tokens(p, v),
           \A q \in Pids : st'[q] = "off" <=> st[q] = "off",
           \A q \in Pids : q # p => box'[q] = box[q],
           v = "inv" => box'[p] = box[p],
           \/ item' = item
           \/ /\ Head(toGame).x # NoItem /\ item.at = "none"
              /\ item'.at = v /\ item'.by = p /\ item'.ver = Head(toGame).x.ver
              /\ v = "box" => box'[p] = "open"
    PROVE  Claimed' /\ Held' /\ Packed' /\ LeftKnown
<1> DEFINE P == Four(toDb, main, results, toGame')
           h == Head(toGame)
           t == LastOf(toDb, ItemOps, saved)
<1>1. /\ P \in [1..4 -> Seq(Message4)] /\ P[1] = toDb /\ toDb \in Seq(Request)
      /\ AllClaims(P, saved, Absent)
      /\ None4(P, Tokens(p, v))
      /\ v = "box" => box[p] = "asked"
      /\ h.x # NoItem => Absent /\ saved = h.x /\ Of(saved, p, v) /\ NoItemOp(toDb, 1)
  BY AnswerRead
<1>2. saved \in Saved /\ Absent \in BOOLEAN /\ Absent' \in BOOLEAN /\ item \in ItemState /\ item' \in ItemState
  BY DEF TypeOK, GameOK, HistOK, Saved, Absent
<1>3. \A q \in Pids, w \in Wins : Tokens(q, w)' = Tokens(q, w)
  BY DEF Tokens
<1>4. h.x # NoItem => t = saved
  BY <1>1, LastOfNone
<1> HIDE DEF P, h, t
<1>5. \A q \in Pids, w \in Wins :
              \/ /\ Tokens(q, w)' = Tokens(q, w) /\ (w = "inv" \/ box'[q] = box[q])
                 /\ Absent => Absent' \/ (~Of(saved, q, w) /\ NoItemOp(P[1], 1))
              \/ None4(P, Tokens(q, w)')
  <2> SUFFICES ASSUME NEW q \in Pids, NEW w \in Wins, q # p \/ w # v
               PROVE  /\ w = "inv" \/ box'[q] = box[q]
                      /\ Absent => Absent' \/ (~Of(saved, q, w) /\ NoItemOp(P[1], 1))
    BY <1>1, <1>3
  <2>1. w = "inv" \/ box'[q] = box[q]
    BY DEF Wins
  <2>2. Absent /\ ~Absent' => h.x # NoItem
    BY DEF Absent, h
  <2>3. h.x # NoItem => ~Of(saved, q, w) /\ NoItemOp(P[1], 1)
    BY <1>1 DEF Of
  <2> QED  BY <2>1, <2>2, <2>3
<1>6. \A q \in Pids, w \in Wins : Claims(P, saved, Absent', box'[q], Tokens(q, w)', q, w)
  <2> DEFINE f == Absent'
  <2>1. f \in BOOLEAN  BY <1>2
  <2>2. \A q \in Pids, w \in Wins :
              \/ /\ Tokens(q, w)' = Tokens(q, w) /\ (w = "inv" \/ box'[q] = box[q])
                 /\ Absent => f \/ (~Of(saved, q, w) /\ NoItemOp(P[1], 1))
              \/ None4(P, Tokens(q, w)')
    BY <1>5
  <2> HIDE DEF f
  <2>3. \A q \in Pids, w \in Wins : Claims(P, saved, f, box'[q], Tokens(q, w)', q, w)
    BY <1>1, <1>2, <2>1, <2>2, ClaimsMove
  <2> QED  BY <2>3 DEF f
<1>7. Claimed'
  BY <1>6 DEF Claimed, AllClaims, P
<1>8. Packed'  BY DEF Packed
<1>9. Stored /\ Holding(item, delayed, t)
  BY DEF Held, t
<1>10. t = LastOf(toDb', ItemOps, saved')  BY DEF t
<1>11. Held'
  <2>1. CASE item' = item
    <3>1. Stored'
      BY <1>1, <1>2, <1>9, <2>1 DEF Stored, ItemState, Wins
    <3> QED  BY <1>9, <1>10, <2>1, <3>1 DEF Held
  <2>2. CASE item' # item
    <3>1. /\ h.x # NoItem /\ item.at = "none" /\ item'.at = v /\ item'.by = p /\ item'.ver = h.x.ver
          /\ v = "box" => box'[p] = "open"
      BY <2>2 DEF h
    <3>2. t = h.x /\ Of(h.x, p, v) /\ h.x \in Data
      BY <1>1, <1>2, <1>4, <3>1 DEF Saved
    <3>3. delayed' = FALSE
      BY <1>9, <3>1 DEF Holding, TypeOK, GameOK
    <3>4. t = Told1(item')
      <4>1. v = "inv" \/ v = "box"  BY DEF Wins
      <4>2. t = [owner |-> p, win |-> v, ver |-> h.x.ver]  BY <3>2 DEF Of, Data
      <4> QED  BY <3>1, <4>1, <4>2 DEF Told1, InInv, InBox
    <3>5. Holding(item', delayed', t)
      BY <3>1, <3>2, <3>3, <3>4 DEF Holding, Wins
    <3>6. Stored'  BY <3>1 DEF Stored
    <3> QED  BY <1>10, <3>5, <3>6 DEF Held
  <2> QED  BY <2>1, <2>2
<1>12. LeftKnown
  BY DEF LeftKnown, Wins
<1> QED  BY <1>7, <1>8, <1>11, <1>12

(* The game reads an answer: it makes the item, or has no use for it.      *)
LEMMA CopyAnswer ==
    ASSUME TypeOK, Claimed, Held, Packed, GameAnswer
    PROVE  Claimed' /\ Held' /\ Packed' /\ LeftKnown
<1>1. /\ toGame # <<>> /\ toGame' = Tail(toGame)
      /\ UNCHANGED <<toDb, main, results, saved, sess, delayed>>
  BY DEF GameAnswer, AnswerIgnored, PlayerLoad, ItemLoad, SafeboxLoad, SafeboxWrongPassword,
         AnswerIs, Received, sql, hist, game
<1>2. TypeOK'  BY TypeGameAnswer
<1>3. /\ st \in [Pids -> {"off", "asked", "loading", "play"}] /\ item \in ItemState
      /\ box \in [Pids -> {"closed", "asked", "open"}] /\ item' \in ItemState
  BY <1>2 DEF TypeOK, GameOK
<1>4. Head(toGame) \in Message4
  <2>1. Head(toGame) \in Reply  BY <1>1, TailIs DEF TypeOK
  <2> QED  BY <2>1 DEF Message4
<1>5. ASSUME item' = item, box' = box, \A q \in Pids : st'[q] = "off" <=> st[q] = "off"
      PROVE  Claimed' /\ Held' /\ Packed' /\ LeftKnown
  <2>1. AllClaims(Four(toDb, main, results, toGame'), saved, Absent)
    BY <1>1, AnswerRead
  <2>2. \A q \in Pids, w \in Wins : Tokens(q, w)' = Tokens(q, w)
    BY <1>1, <1>5 DEF Tokens
  <2>3. Claimed'
    BY <1>1, <1>5, <2>1, <2>2 DEF Claimed, AllClaims, Absent
  <2> QED  BY <1>1, <1>5, <2>3 DEF Held, Stored, Packed, LeftKnown
<1>6. CASE AnswerIgnored
  BY <1>5, <1>6 DEF AnswerIgnored, game
<1>7. ASSUME NEW p \in Pids, PlayerLoad(p)
      PROVE  Claimed' /\ Held' /\ Packed' /\ LeftKnown
  <2>1. item' = item /\ box' = box /\ \A q \in Pids : st'[q] = "off" <=> st[q] = "off"
    BY <1>3, <1>7 DEF PlayerLoad
  <2> QED  BY <1>5, <2>1
<1>8. ASSUME NEW p \in Pids, ItemLoad(p)
      PROVE  Claimed' /\ Held' /\ Packed' /\ LeftKnown
  <2>1. /\ box' = box /\ st' = [st EXCEPT ![p] = "play"] /\ st[p] = "loading"
        /\ Head(toGame).op = "ITEM_LOAD" /\ Head(toGame).p = p /\ Head(toGame).s = sess[p]
    BY <1>8 DEF ItemLoad, AnswerIs, For
  <2>2. \A q \in Pids : st'[q] = "off" <=> st[q] = "off"  BY <1>3, <2>1
  <2>3. Head(toGame) \in Tokens(p, "inv")
    BY <1>4, <2>1 DEF Tokens, TokenOp
  <2>4. \/ item' = item
        \/ /\ Head(toGame).x # NoItem /\ item.at = "none"
           /\ item'.at = "inv" /\ item'.by = p /\ item'.ver = Head(toGame).x.ver
    <3>1. \/ item' = item
          \/ /\ Head(toGame).x # NoItem /\ item.at = "none"
             /\ \E l \in {Nobody, p} : item' = Item("inv", p, Head(toGame).x.ver, l)
      BY <1>8 DEF ItemLoad
    <3> QED  BY <3>1 DEF Item
  <2>5. "inv" \in Wins /\ "inv" # "box"  BY DEF Wins
  <2>6. box'[p] = box[p] /\ \A q \in Pids : q # p => box'[q] = box[q]  BY <2>1
  <2> QED  BY <1>1, <1>2, <2>2, <2>3, <2>4, <2>5, <2>6, CopyLoad
<1>9. ASSUME NEW p \in Pids, SafeboxLoad(p) \/ SafeboxWrongPassword(p)
      PROVE  Claimed' /\ Held' /\ Packed' /\ LeftKnown
  <2>1. /\ st' = st /\ Head(toGame).op \in {"SAFEBOX_LOAD", "WRONG_PASSWORD"}
        /\ Head(toGame).p = p /\ Head(toGame).s = sess[p] /\ st[p] # "off"
    BY <1>9 DEF SafeboxLoad, SafeboxWrongPassword, AnswerIs, For
  <2>2. Head(toGame) \in Tokens(p, "box")
    BY <1>4, <2>1 DEF Tokens, TokenOp
  <2>3. \/ box' = [box EXCEPT ![p] = "open"]
        \/ box' = [box EXCEPT ![p] = "closed"] /\ item' = item
    BY <1>9 DEF SafeboxLoad, SafeboxWrongPassword
  <2>4. \A q \in Pids : q # p => box'[q] = box[q]  BY <1>3, <2>3
  <2>5. \/ item' = item
        \/ /\ Head(toGame).x # NoItem /\ item.at = "none" /\ box'[p] = "open"
           /\ item'.at = "box" /\ item'.by = p /\ item'.ver = Head(toGame).x.ver
    <3>1. \/ item' = item
          \/ /\ Head(toGame).x # NoItem /\ item.at = "none"
             /\ item' = Item("box", p, Head(toGame).x.ver, Nobody)
             /\ box' = [box EXCEPT ![p] = "open"]
      BY <1>9 DEF SafeboxLoad, SafeboxWrongPassword
    <3> QED  BY <1>3, <3>1 DEF Item
  <2>6. "box" \in Wins /\ "inv" # "box"  BY DEF Wins
  <2>7. \A q \in Pids : st'[q] = "off" <=> st[q] = "off"  BY <2>1
  <2> QED  BY <1>1, <1>2, <2>2, <2>4, <2>5, <2>6, <2>7, CopyLoad
<1> QED  BY <1>6, <1>7, <1>8, <1>9 DEF GameAnswer

-----------------------------------------------------------------------------
(* The db's steps, queue by queue.                                         *)

(* A message of no load is queued.                                         *)
LEMMA PlainFour ==
    ASSUME NEW d \in Seq(Message4), NEW b \in Seq(Message4),
           NEW c \in Seq(Message4), NEW e \in Seq(Message4), NEW z, NEW free,
           AllClaims(Four(d, b, c, e), z, free), NEW m \in Message4, NoToken(m)
    PROVE  /\ AllClaims(Four(d, Append(b, m), c, e), z, free)
           /\ AllClaims(Four(d, b, c, Append(e, m)), z, free)
<1> DEFINE Q == Four(d, b, c, e)
           B == Append(b, m)
           E == Append(e, m)
<1>1. B \in Seq(Message4) /\ E \in Seq(Message4)
  BY AppendProperties
<1>2. Q \in [1..4 -> Seq(Message4)] /\ Q[2] = b /\ Q[4] = e
  BY FourIs
<1>3. /\ With(Four(d, B, c, e), Q, 2, Append(Q[2], m))
      /\ With(Four(d, b, c, E), Q, 4, Append(Q[4], m))
  <2>1. With(Four(d, B, c, e), Q, 2, B) /\ With(Four(d, b, c, E), Q, 4, E)  BY FourIs
  <2> QED  BY <1>2, <2>1
<1> HIDE DEF B, E
<1>4. Four(d, B, c, e) \in [1..4 -> Seq(Message4)]  BY <1>1, FourIs
<1>5. Four(d, b, c, E) \in [1..4 -> Seq(Message4)]  BY <1>1, FourIs
<1>6. AllClaims(Q, z, free)  OBVIOUS
<1> HIDE DEF Q
<1>7. AllClaims(Four(d, B, c, e), z, free)
  <2>1. 2 \in 2..4  OBVIOUS
  <2> QED  BY <1>2, <1>3, <1>4, <1>6, <2>1, AddPlain
<1>8. AllClaims(Four(d, b, c, E), z, free)
  <2>1. 4 \in 2..4  OBVIOUS
  <2> QED  BY <1>2, <1>3, <1>5, <1>6, <2>1, AddPlain
<1> QED  BY <1>7, <1>8 DEF B, E

(* The db reads a packet that is not about the item, and asks or answers.  *)
LEMMA ReadFour ==
    ASSUME NEW d \in Seq(Request), d # <<>>, NEW b \in Seq(Message4),
           NEW c \in Seq(Message4), NEW e \in Seq(Message4),
           NEW z \in Saved, NEW free \in BOOLEAN,
           AllClaims(Four(d, b, c, e), z, free), Head(d).op \notin ItemOps
    PROVE  /\ AllClaims(Four(Tail(d), b, c, e), z, free)
           /\ \A m \in Message4 : Follows(Head(d), m) =>
                 /\ AllClaims(Four(Tail(d), Append(b, m), c, e), z, free)
                 /\ Right(m, z) => AllClaims(Four(Tail(d), b, c, Append(e, m)), z, free)
<1> DEFINE Q == Four(d, b, c, e)
           D == Tail(d)
           P == Four(D, b, c, e)
<1>1. d \in Seq(Message4) /\ D \in Seq(Message4) /\ D \in Seq(Request)
  BY Seq4, TailIs
<1>2. Q \in [1..4 -> Seq(Message4)] /\ Q[1] = d
  BY <1>1, FourIs
<1>3. With(P, Q, 1, Tail(Q[1]))
  <2>1. With(P, Q, 1, D)  BY <1>1, FourIs
  <2> QED  BY <1>2, <2>1
<1> HIDE DEF D
<1>4. P \in [1..4 -> Seq(Message4)] /\ P[2] = b /\ P[4] = e
  <2>1. P[2] = b /\ P[4] = e  BY DEF Four
  <2>2. Four(D, b, c, e) \in [1..4 -> Seq(Message4)]  BY <1>1, FourIs
  <2> QED  BY <2>1, <2>2
<1>5. AllClaims(Q, z, free)  OBVIOUS
<1>6. After(Head(d), z) = z /\ (Head(d).op = "ITEM_DESTROY" => Head(d).x = NoItem)
  BY DEF After, ItemOps
<1>7. ASSUME NEW m \in Message4
      PROVE  /\ With(Four(D, Append(b, m), c, e), P, 2, Append(P[2], m))
             /\ With(Four(D, b, c, Append(e, m)), P, 4, Append(P[4], m))
             /\ Four(D, Append(b, m), c, e) \in [1..4 -> Seq(Message4)]
             /\ Four(D, b, c, Append(e, m)) \in [1..4 -> Seq(Message4)]
  <2> DEFINE B == Append(b, m)
             E == Append(e, m)
  <2>1. B \in Seq(Message4) /\ E \in Seq(Message4)  BY AppendProperties
  <2>2. With(Four(D, B, c, e), P, 2, B) /\ With(Four(D, b, c, E), P, 4, E)
    BY <1>1, FourIs
  <2>3. With(Four(D, B, c, e), P, 2, Append(P[2], m)) /\ With(Four(D, b, c, E), P, 4, Append(P[4], m))
    BY <1>4, <2>2
  <2> HIDE DEF B, E
  <2>4. Four(D, B, c, e) \in [1..4 -> Seq(Message4)]  BY <1>1, <2>1, FourIs
  <2>5. Four(D, b, c, E) \in [1..4 -> Seq(Message4)]  BY <1>1, <2>1, FourIs
  <2> QED  BY <2>3, <2>4, <2>5 DEF B, E
<1> HIDE DEF P, Q
<1>8. ASSUME NEW t \in 2..4
      PROVE  /\ AllClaims(P, z, free)
             /\ \A m \in Message4, R \in [1..4 -> Seq(Message4)] :
                /\ With(R, P, t, Append(P[t], m))
                /\ \A q \in Pids, w \in Wins : m \in Tokens(q, w) =>
                      /\ Head(d) \in Tokens(q, w)
                      /\ t = 4 /\ m.x # NoItem => m.x = z /\ Of(z, q, w)
                => AllClaims(R, z, free)
  <2>1. /\ AllClaims(P, After(Head(Q[1]), z), free)
        /\ Head(Q[1]).op \notin ItemOps =>
              \A m \in Message4, R \in [1..4 -> Seq(Message4)] :
              /\ With(R, P, t, Append(P[t], m))
              /\ \A q \in Pids, w \in Wins : m \in Tokens(q, w) =>
                    /\ Head(Q[1]) \in Tokens(q, w)
                    /\ t = 4 /\ m.x # NoItem => m.x = z /\ Of(z, q, w)
              => AllClaims(R, z, free)
    <3>1. /\ Q[1] \in Seq(Request) /\ Q[1] # <<>> /\ After(Head(Q[1]), z) \in Saved
          /\ Head(Q[1]).op \in ItemOps => \A q \in Pids :
                 Has(Q[2], Tokens(q, "inv")) \/ Has(Q[3], Tokens(q, "inv"))
                 => ~Of(Head(Q[1]).x, q, "inv")
          /\ Head(Q[1]).op = "ITEM_DESTROY" => Head(Q[1]).x = NoItem
      BY <1>2, <1>6
    <3>2. Q \in [1..4 -> Seq(Message4)] /\ P \in [1..4 -> Seq(Message4)]
      BY <1>2, <1>4
    <3> QED  BY <1>3, <1>5, <3>1, <3>2, PassRequest
  <2> QED  BY <1>2, <1>6, <2>1
<1>9. 2 \in 2..4 /\ 4 \in 2..4 /\ 2 # 4
  OBVIOUS
<1>10. AllClaims(P, z, free)
  BY <1>8, <1>9
<1>11. ASSUME NEW m \in Message4, Follows(Head(d), m)
       PROVE  AllClaims(Four(D, Append(b, m), c, e), z, free)
  <2>1. \A q \in Pids, w \in Wins : m \in Tokens(q, w) => Head(d) \in Tokens(q, w)
    BY <1>11 DEF Follows
  <2> QED  BY <1>7, <1>8, <1>9, <2>1
<1>12. ASSUME NEW m \in Message4, Follows(Head(d), m), Right(m, z)
       PROVE  AllClaims(Four(D, b, c, Append(e, m)), z, free)
  <2>1. \A q \in Pids, w \in Wins : m \in Tokens(q, w) =>
            Head(d) \in Tokens(q, w) /\ (m.x # NoItem => m.x = z /\ Of(z, q, w))
    BY <1>12 DEF Follows, Right
  <2> QED  BY <1>7, <1>8, <1>9, <2>1
<1> QED  BY <1>10, <1>11, <1>12 DEF P, D

(* The db reads an answer of SQL, and asks on or answers.                  *)
LEMMA ResultFour ==
    ASSUME NEW d \in Seq(Request), NEW b \in Seq(Message4),
           NEW c \in Seq(Message4), c # <<>>, NEW e \in Seq(Message4),
           NEW z \in Saved, NEW free \in BOOLEAN,
           AllClaims(Four(d, b, c, e), z, free)
    PROVE  /\ AllClaims(Four(d, b, Tail(c), e), z, free)
           /\ \A m \in Message4 : Follows(Head(c), m) =>
                 /\ AllClaims(Four(d, Append(b, m), Tail(c), e), z, free)
                 /\ Right(m, z) => AllClaims(Four(d, b, Tail(c), Append(e, m)), z, free)
<1> DEFINE Q == Four(d, b, c, e)
           C == Tail(c)
           P == Four(d, b, C, e)
<1>1. d \in Seq(Message4) /\ C \in Seq(Message4)
  BY Seq4, TailIs
<1>2. Q \in [1..4 -> Seq(Message4)] /\ Q[3] = c /\ Q[1] = d
  BY <1>1, FourIs
<1>3. With(P, Q, 3, Tail(Q[3]))
  <2>1. With(P, Q, 3, C)  BY <1>1, FourIs
  <2> QED  BY <1>2, <2>1
<1> HIDE DEF C
<1>4. P \in [1..4 -> Seq(Message4)] /\ P[2] = b /\ P[4] = e
  <2>1. P[2] = b /\ P[4] = e  BY DEF Four
  <2>2. Four(d, b, C, e) \in [1..4 -> Seq(Message4)]  BY <1>1, FourIs
  <2> QED  BY <2>1, <2>2
<1>5. AllClaims(Q, z, free)  OBVIOUS
<1>7. ASSUME NEW m \in Message4
      PROVE  /\ With(Four(d, Append(b, m), C, e), P, 2, Append(P[2], m))
             /\ With(Four(d, b, C, Append(e, m)), P, 4, Append(P[4], m))
             /\ Four(d, Append(b, m), C, e) \in [1..4 -> Seq(Message4)]
             /\ Four(d, b, C, Append(e, m)) \in [1..4 -> Seq(Message4)]
  <2> DEFINE B == Append(b, m)
             E == Append(e, m)
  <2>1. B \in Seq(Message4) /\ E \in Seq(Message4)  BY AppendProperties
  <2>2. With(Four(d, B, C, e), P, 2, B) /\ With(Four(d, b, C, E), P, 4, E)
    BY <1>1, FourIs
  <2>3. With(Four(d, B, C, e), P, 2, Append(P[2], m)) /\ With(Four(d, b, C, E), P, 4, Append(P[4], m))
    BY <1>4, <2>2
  <2> HIDE DEF B, E
  <2>4. Four(d, B, C, e) \in [1..4 -> Seq(Message4)]  BY <1>1, <2>1, FourIs
  <2>5. Four(d, b, C, E) \in [1..4 -> Seq(Message4)]  BY <1>1, <2>1, FourIs
  <2> QED  BY <2>3, <2>4, <2>5 DEF B, E
<1> HIDE DEF P, Q
<1>9. 2 \in 2..4 /\ 3 \in 2..4 /\ 4 \in 2..4 /\ 2 # 4 /\ 3 # 4
  OBVIOUS
<1>8. Poppable(Q, P, 3, z, free)
  BY <1>2, <1>3, <1>4, <1>5, <1>9 DEF Poppable
<1>13. AllClaims(P, z, free) /\ Passed(Q, P, 3, 2, z, free) /\ Passed(Q, P, 3, 4, z, free)
  BY <1>8, <1>9, PassResult
<1>10. AllClaims(P, z, free)
  BY <1>13
<1>11. ASSUME NEW m \in Message4, Follows(Head(c), m)
       PROVE  AllClaims(Four(d, Append(b, m), C, e), z, free)
  <2>1. \A q \in Pids, w \in Wins : m \in Tokens(q, w) => Head(Q[3]) \in Tokens(q, w)
    BY <1>2, <1>11 DEF Follows
  <2> QED  BY <1>7, <1>9, <1>13, <2>1 DEF Passed
<1>12. ASSUME NEW m \in Message4, Follows(Head(c), m), Right(m, z)
       PROVE  AllClaims(Four(d, b, C, Append(e, m)), z, free)
  <2>1. \A q \in Pids, w \in Wins : m \in Tokens(q, w) =>
            Head(Q[3]) \in Tokens(q, w) /\ (m.x # NoItem => m.x = z /\ Of(z, q, w))
    BY <1>2, <1>12 DEF Follows, Right
  <2> QED  BY <1>7, <1>9, <1>13, <2>1 DEF Passed
<1> QED  BY <1>10, <1>11, <1>12 DEF P, C

(* The main connection executes a statement.                               *)
LEMMA SelectFour ==
    ASSUME NEW d \in Seq(Request), NEW b \in Seq(Message4), b # <<>>,
           NEW c \in Seq(Message4), NEW e \in Seq(Message4),
           NEW z \in Saved, NEW free \in BOOLEAN,
           AllClaims(Four(d, b, c, e), z, free)
    PROVE  /\ AllClaims(Four(d, Tail(b), c, e), z, free)
           /\ \A m \in Message4 : Follows(Head(b), m) =>
                 AllClaims(Four(d, Tail(b), Append(c, m), e), z, free)
<1> DEFINE Q == Four(d, b, c, e)
           B == Tail(b)
           P == Four(d, B, c, e)
<1>1. d \in Seq(Message4) /\ B \in Seq(Message4)
  BY Seq4, TailIs
<1>2. Q \in [1..4 -> Seq(Message4)] /\ Q[2] = b /\ Q[1] = d
  BY <1>1, FourIs
<1>3. With(P, Q, 2, Tail(Q[2]))
  <2>1. With(P, Q, 2, B)  BY <1>1, FourIs
  <2> QED  BY <1>2, <2>1
<1> HIDE DEF B
<1>4. P \in [1..4 -> Seq(Message4)] /\ P[3] = c
  <2>1. P[3] = c  BY DEF Four
  <2>2. Four(d, B, c, e) \in [1..4 -> Seq(Message4)]  BY <1>1, FourIs
  <2> QED  BY <2>1, <2>2
<1>5. AllClaims(Q, z, free)  OBVIOUS
<1>7. ASSUME NEW m \in Message4
      PROVE  /\ With(Four(d, B, Append(c, m), e), P, 3, Append(P[3], m))
             /\ Four(d, B, Append(c, m), e) \in [1..4 -> Seq(Message4)]
  <2> DEFINE C == Append(c, m)
  <2>1. C \in Seq(Message4)  BY AppendProperties
  <2>2. With(Four(d, B, C, e), P, 3, C)
    BY <1>1, FourIs
  <2>3. With(Four(d, B, C, e), P, 3, Append(P[3], m))
    BY <1>4, <2>2
  <2> HIDE DEF C
  <2>4. Four(d, B, C, e) \in [1..4 -> Seq(Message4)]  BY <1>1, <2>1, FourIs
  <2> QED  BY <2>3, <2>4 DEF C
<1> HIDE DEF P, Q
<1>9. 2 \in 2..4 /\ 3 \in 2..4 /\ 2 # 4 /\ 3 # 4
  OBVIOUS
<1>8. Poppable(Q, P, 2, z, free)
  BY <1>2, <1>3, <1>4, <1>5, <1>9 DEF Poppable
<1>10. AllClaims(P, z, free) /\ Passed(Q, P, 2, 3, z, free)
  BY <1>8, <1>9, PassResult
<1>11. ASSUME NEW m \in Message4, Follows(Head(b), m)
       PROVE  AllClaims(Four(d, B, Append(c, m), e), z, free)
  <2>1. \A q \in Pids, w \in Wins : m \in Tokens(q, w) => Head(Q[2]) \in Tokens(q, w)
    BY <1>2, <1>11 DEF Follows
  <2> QED  BY <1>7, <1>9, <1>10, <2>1 DEF Passed
<1> QED  BY <1>10, <1>11 DEF P, B

(* The queues of the program.                                              *)
LEMMA Queues4 ==
    ASSUME TypeOK
    PROVE  /\ toDb \in Seq(Request) /\ toDb \in Seq(Message4) /\ main \in Seq(Message4)
           /\ results \in Seq(Message4) /\ toGame \in Seq(Message4)
           /\ saved \in Saved /\ Absent \in BOOLEAN
           /\ Claimed => AllClaims(Four(toDb, main, results, toGame), saved, Absent)
  BY Seq4 DEF TypeOK, SqlOK, HistOK, Saved, Absent, Claimed

(* What is next in a queue is of the queue's kind.                         *)
LEMMA Elements4 ==
    ASSUME TypeOK
    PROVE  /\ toDb # <<>> => Head(toDb) \in Request
           /\ main # <<>> => Head(main) \in Statement
           /\ results # <<>> => Head(results) \in SqlAnswer
           /\ \A m \in Request \cup Statement \cup SqlAnswer \cup Reply : m \in Message4
  BY TailIs DEF TypeOK, SqlOK, Message4

(* The game does not move.                                                 *)
LEMMA DbClaimed ==
    ASSUME UNCHANGED game, AllClaims(Four(toDb', main', results', toGame'), saved', Absent)
    PROVE  Claimed'
<1>1. \A q \in Pids, w \in Wins : Tokens(q, w)' = Tokens(q, w) /\ box'[q] = box[q]
  BY DEF game, Tokens
<1>2. Absent' = Absent  BY DEF game, Absent
<1> QED  BY <1>1, <1>2 DEF Claimed, AllClaims

(* The db moves, and will know of the item what it would have known.       *)
LEMMA DbHeld ==
    ASSUME UNCHANGED game, Held, LastOf(toDb', ItemOps, saved') = LastOf(toDb, ItemOps, saved)
    PROVE  Held' /\ LeftKnown
  BY DEF game, Held, Stored, LeftKnown

(* The db reads a packet: the game's view of it stays.                     *)
LEMMA DbReads ==
    ASSUME TypeOK, Held, Packed, UNCHANGED game, toDb # <<>>, toDb' = Tail(toDb),
           saved' = After(Head(toDb), saved)
    PROVE  Held' /\ Packed' /\ LeftKnown
<1>1. toDb \in Seq(Request) /\ saved \in Saved  BY Queues4
<1>2. LastOf(toDb', ItemOps, saved') = LastOf(toDb, ItemOps, saved)
  BY <1>1, LastOfTail DEF After
<1>3. Packed'
  BY <1>1, FlushNextTail, DestroysKept DEF Packed
<1> QED  BY <1>2, <1>3, DbHeld

(* Writes are of no load.                                                  *)
LEMMA WritesFour ==
    ASSUME TypeOK, NEW d \in Seq(Message4), NEW b \in Seq(Message4),
           NEW c \in Seq(Message4), NEW e \in Seq(Message4), NEW z, NEW free,
           AllClaims(Four(d, b, c, e), z, free), NEW q \in Writes
    PROVE  AllClaims(Four(d, b \o q, c, e), z, free)
<1>1. CASE q = <<>>
  <2>1. b \o q = b  BY <1>1
  <2> QED  BY <2>1
<1>2. CASE q # <<>>
  <2>1. PICK x \in Saved : q = <<Write(x)>>  BY <1>2 DEF Writes
  <2>2. Write(x) \in Statement /\ Write(x).op \in WriteOp  BY WriteSays
  <2>3. Write(x) \in Message4 /\ NoToken(Write(x))
    <3>1. Write(x).op \notin TokenOp("inv") \cup TokenOp("box")  BY <2>2 DEF WriteOp, TokenOp
    <3> QED  BY <2>2, <3>1, PlainMessage DEF Message4
  <2>4. b \o q = Append(b, Write(x))  BY <2>1
  <2> QED  BY <2>3, <2>4, PlainFour
<1> QED  BY <1>1, <1>2

(* What the operations of the cache queue are writes.                      *)
LEMMA CacheWrites ==
    ASSUME TypeOK
    PROVE  /\ FlushQuery(cache) \in Writes
           /\ \A x \in Saved : <<Write(x)>> \in Writes
           /\ <<>> \in Writes
           /\ Flush => main' \in {main \o q : q \in Writes}
           /\ \A x \in Data, skip \in BOOLEAN : \A s : PutItemCache(x, skip, s) => main' \in {main \o q : q \in Writes}
           /\ \A p : FlushItemCacheSet(p) => main' \in {main \o q : q \in Writes}
           /\ main \in {main \o q : q \in Writes}
<1>1. Cached(cache) \in Saved  BY CachedType DEF TypeOK, DbOK, Saved
<1>2. FlushQuery(cache) \in Writes  BY <1>1 DEF FlushQuery, Writes
<1>3. main \o <<>> = main /\ <<>> \in Writes  BY Queues4 DEF Writes
<1>4. \A x \in Saved : <<Write(x)>> \in Writes  BY DEF Writes
<1>5. \A x \in Data, skip \in BOOLEAN : \A s : PutItemCache(x, skip, s) => main' \in {main \o q : q \in Writes}
  BY <1>3, <1>4 DEF PutItemCache, Enqueue, Saved
<1>6. \A p : FlushItemCacheSet(p) => main' \in {main \o q : q \in Writes}
  BY <1>2, <1>3 DEF FlushItemCacheSet, Enqueue
<1>7. Flush => main' \in {main \o q : q \in Writes}
  BY <1>2 DEF Flush, Enqueue
<1> QED  BY <1>2, <1>3, <1>4, <1>5, <1>6, <1>7

(* The db reads a save or the end of the item.                             *)
LEMMA SaveFour ==
    ASSUME NEW d \in Seq(Request), d # <<>>, NEW b \in Seq(Message4),
           NEW c \in Seq(Message4), NEW e \in Seq(Message4),
           NEW z \in Saved, NEW free \in BOOLEAN,
           AllClaims(Four(d, b, c, e), z, free), After(Head(d), z) \in Saved,
           \A q \in Pids : Has(b, Tokens(q, "inv")) \/ Has(c, Tokens(q, "inv"))
                               => ~Of(Head(d).x, q, "inv"),
           Head(d).op = "ITEM_DESTROY" => Head(d).x = NoItem
    PROVE  AllClaims(Four(Tail(d), b, c, e), After(Head(d), z), free)
<1> DEFINE Q == Four(d, b, c, e)
           D == Tail(d)
           P == Four(D, b, c, e)
<1>1. d \in Seq(Message4) /\ D \in Seq(Message4)
  BY Seq4, TailIs
<1>2. Q \in [1..4 -> Seq(Message4)] /\ Q[1] = d /\ Q[2] = b /\ Q[3] = c
  <2>1. Q[1] = d /\ Q[2] = b /\ Q[3] = c  BY DEF Four
  <2> QED  BY <1>1, <2>1, FourIs
<1>3. With(P, Q, 1, Tail(Q[1]))
  <2>1. With(P, Q, 1, D)  BY <1>1, FourIs
  <2> QED  BY <1>2, <2>1
<1> HIDE DEF D
<1>4. P \in [1..4 -> Seq(Message4)]
  BY <1>1, FourIs
<1>5. AllClaims(Q, z, free)  OBVIOUS
<1> HIDE DEF P, Q
<1>6. /\ Q[1] \in Seq(Request) /\ Q[1] # <<>> /\ After(Head(Q[1]), z) \in Saved
      /\ Head(Q[1]).op \in ItemOps => \A q \in Pids :
             Has(Q[2], Tokens(q, "inv")) \/ Has(Q[3], Tokens(q, "inv"))
             => ~Of(Head(Q[1]).x, q, "inv")
      /\ Head(Q[1]).op = "ITEM_DESTROY" => Head(Q[1]).x = NoItem
  BY <1>2
<1>7. 2 \in 2..4  OBVIOUS
<1>8. AllClaims(P, After(Head(Q[1]), z), free)
  BY <1>2, <1>3, <1>4, <1>5, <1>6, <1>7, PassRequest
<1> QED  BY <1>2, <1>8 DEF P, D

(* Nobody who waits for a SELECT carries what is saved.                    *)
LEMMA SavedUnasked ==
    ASSUME TypeOK, NEW x, Saving(x), excuses' = {}, NEW q \in Pids,
           Has(main, Tokens(q, "inv")) \/ Has(results, Tokens(q, "inv"))
    PROVE  ~Of(x, q, "inv")
<1>1. Pending(main, q) \/ Pending(results, q)
  <2>1. /\ \A i \in DOMAIN main : main[i] \in Statement
        /\ \A i \in DOMAIN results : results[i] \in SqlAnswer
    BY LenProperties, ElementOfSeq DEF TypeOK, SqlOK
  <2>2. ASSUME NEW m \in Statement \cup SqlAnswer, m \in Tokens(q, "inv")
        PROVE  m.op = "ITEM" /\ m.p = q /\ m.s # 0
    BY <2>2 DEF Tokens, TokenOp, Statement, SqlAnswer, Message, QueryOp, WriteOp, TypeOK, GameOK
  <2> QED  BY <2>1, <2>2 DEF Has, Pending
<1>2. \A p \in Carrier(x) : ~Pending(main, p) /\ ~Pending(results, p)
  BY SavingUnseen
<1> QED  BY <1>1, <1>2 DEF Carrier, Of

(* The db reads a save or the end of the item.                             *)
LEMMA CopyItemPacket ==
    ASSUME TypeOK, Claimed, Held, Packed, QUERY_ITEM_SAVE \/ QUERY_ITEM_DESTROY, excuses' = {}
    PROVE  Claimed' /\ Held' /\ Packed'
<1> DEFINE h == Head(toDb)
<1>1. PICK x : /\ toDb # <<>> /\ toDb' = Tail(toDb) /\ Saving(x) /\ saved' = After(h, saved)
               /\ h.x = x /\ h \in Request /\ (h.op = "ITEM_DESTROY" => h.x = NoItem)
  <2>1. CASE QUERY_ITEM_SAVE
    <3>1. Packet("ITEM_SAVE") /\ Consume /\ Saving(h.x)  BY <2>1 DEF QUERY_ITEM_SAVE
    <3>2. h \in Request /\ h.op = "ITEM_SAVE"  BY <3>1, HeadOfToDb
    <3> QED  BY <3>1, <3>2 DEF Packet, Consume, Saving, After, ItemOps
  <2>2. CASE QUERY_ITEM_DESTROY
    <3>1. Packet("ITEM_DESTROY") /\ Consume /\ Saving(NoItem)  BY <2>2 DEF QUERY_ITEM_DESTROY
    <3>2. h \in Request /\ h.op = "ITEM_DESTROY"  BY <3>1, HeadOfToDb
    <3>3. h.x = NoItem
      <4>1. 1 \in DOMAIN toDb /\ toDb[1] = h  BY <3>1, Queues4, TailIs DEF Packet
      <4> QED  BY <3>2, <4>1 DEF Packed, Destroys
    <3> QED  BY <3>1, <3>2, <3>3 DEF Packet, Consume, Saving, After, ItemOps
  <2> QED  BY <2>1, <2>2
<1>2. UNCHANGED <<game, results, toGame>>
  BY DEF QUERY_ITEM_SAVE, QUERY_ITEM_DESTROY
<1>3. PICK w \in Writes : main' = main \o w
  <2>1. main' \in {main \o q : q \in Writes}
    <3>1. CASE QUERY_ITEM_SAVE
      <4>1. h.x \in Data
        <5>1. Packet("ITEM_SAVE")  BY <3>1 DEF QUERY_ITEM_SAVE
        <5> QED  BY <5>1, HeadOfToDb DEF Request
      <4>2. Enqueue(<<Write(h.x)>>) \/ PutItemCache(h.x, FALSE, set)
        BY <3>1 DEF QUERY_ITEM_SAVE
      <4> HIDE DEF h
      <4>3. <<Write(h.x)>> \in Writes  BY <4>1 DEF Writes, Saved
      <4> QED  BY <4>1, <4>2, <4>3, CacheWrites DEF Enqueue
    <3>2. CASE QUERY_ITEM_DESTROY
      <4>1. Enqueue(<<>>) \/ Enqueue(<<Write(NoItem)>>) \/ main' = main
        BY <3>2 DEF QUERY_ITEM_DESTROY
      <4>2. <<Write(NoItem)>> \in Writes /\ <<>> \in Writes  BY DEF Writes, Saved
      <4> QED  BY <4>1, <4>2, CacheWrites DEF Enqueue
    <3> QED  BY <3>1, <3>2
  <2> QED  BY <2>1
<1>4. /\ toDb \in Seq(Request) /\ main \in Seq(Message4) /\ results \in Seq(Message4)
      /\ toGame \in Seq(Message4) /\ saved \in Saved /\ Absent \in BOOLEAN
      /\ AllClaims(Four(toDb, main, results, toGame), saved, Absent)
  BY Queues4
<1>5. After(h, saved) \in Saved
  BY <1>1, <1>4 DEF After, Request, Message, Saved
<1>6. \A q \in Pids : Has(main, Tokens(q, "inv")) \/ Has(results, Tokens(q, "inv")) => ~Of(h.x, q, "inv")
  BY <1>1, SavedUnasked
<1>7. AllClaims(Four(Tail(toDb), main, results, toGame), saved', Absent)
  BY <1>1, <1>4, <1>5, <1>6, SaveFour
<1>8. Tail(toDb) \in Seq(Message4)
  BY <1>1, <1>4, TailIs, Seq4
<1>9. AllClaims(Four(Tail(toDb), main \o w, results, toGame), saved', Absent)
  BY <1>3, <1>4, <1>7, <1>8, WritesFour
<1>10. Claimed'
  BY <1>1, <1>2, <1>3, <1>9, DbClaimed
<1>11. Held' /\ Packed'
  BY <1>1, <1>2, DbReads
<1> QED  BY <1>10, <1>11

(* A packet that is not about the item.                                    *)
LEMMA OtherPacket ==
    ASSUME TypeOK, Claimed, Held, Packed, DbPacket,
           ~QUERY_ITEM_SAVE, ~QUERY_ITEM_DESTROY
    PROVE  /\ toDb # <<>> /\ toDb' = Tail(toDb) /\ Head(toDb) \in Request
           /\ Head(toDb).op \notin ItemOps
           /\ UNCHANGED <<game, results, saved>>
           /\ Held' /\ Packed'
<1>1. PICK op \in RequestOp \ ItemOps : Packet(op) /\ Consume /\ UNCHANGED <<game, results, saved>>
  BY DEF DbPacket, QUERY_ITEM_FLUSH, QUERY_PLAYER_LOAD, QUERY_PLAYER_SAVE, QUERY_LOGOUT,
         QUERY_SAFEBOX_LOAD, QUERY_FLUSH_CACHE, RequestOp, ItemOps, sql, hist
<1>2. /\ toDb # <<>> /\ toDb' = Tail(toDb) /\ Head(toDb) \in Request
      /\ Head(toDb).op \notin ItemOps
  BY <1>1, HeadOfToDb DEF Packet, Consume
<1>3. saved' = After(Head(toDb), saved)  BY <1>1, <1>2 DEF After
<1>4. Held' /\ Packed'  BY <1>1, <1>2, <1>3, DbReads
<1> QED  BY <1>1, <1>2, <1>4

(* The db reads a packet that asks for nothing.                            *)
LEMMA ClaimedQuiet ==
    ASSUME TypeOK, Claimed, Held, Packed,
           QUERY_ITEM_FLUSH \/ QUERY_PLAYER_SAVE \/ QUERY_LOGOUT \/ QUERY_FLUSH_CACHE
    PROVE  Claimed'
<1>1. ~QUERY_ITEM_SAVE /\ ~QUERY_ITEM_DESTROY /\ DbPacket
  BY DEF QUERY_ITEM_FLUSH, QUERY_PLAYER_SAVE, QUERY_LOGOUT, QUERY_FLUSH_CACHE,
         QUERY_ITEM_SAVE, QUERY_ITEM_DESTROY, Packet, DbPacket
<1>2. /\ toDb # <<>> /\ toDb' = Tail(toDb) /\ Head(toDb).op \notin ItemOps
      /\ UNCHANGED <<game, results, saved>>
  BY <1>1, OtherPacket
<1>3. toGame' = toGame
  BY DEF QUERY_ITEM_FLUSH, QUERY_PLAYER_SAVE, QUERY_LOGOUT, QUERY_FLUSH_CACHE
<1>4. PICK w \in Writes : main' = main \o w
  <2>1. main' = main \/ Flush \/ \E p : FlushItemCacheSet(p)
    BY DEF QUERY_ITEM_FLUSH, QUERY_PLAYER_SAVE, QUERY_LOGOUT, QUERY_FLUSH_CACHE, sql
  <2>2. main' \in {main \o q : q \in Writes}
    BY <2>1, CacheWrites
  <2> QED  BY <2>2
<1>5. /\ toDb \in Seq(Request) /\ main \in Seq(Message4) /\ results \in Seq(Message4)
      /\ toGame \in Seq(Message4) /\ saved \in Saved /\ Absent \in BOOLEAN
      /\ AllClaims(Four(toDb, main, results, toGame), saved, Absent)
  BY Queues4
<1>6. AllClaims(Four(Tail(toDb), main, results, toGame), saved, Absent) /\ Tail(toDb) \in Seq(Message4)
  BY <1>2, <1>5, ReadFour, TailIs, Seq4
<1>7. AllClaims(Four(Tail(toDb), main \o w, results, toGame), saved, Absent)
  BY <1>5, <1>6, WritesFour
<1> QED  BY <1>2, <1>3, <1>4, <1>7, DbClaimed

(* The db reads a request for a safebox.                                   *)
LEMMA ClaimedSafebox ==
    ASSUME TypeOK, Claimed, Held, Packed, QUERY_SAFEBOX_LOAD
    PROVE  Claimed'
<1> DEFINE h == Head(toDb)
           m == M("SAFEBOX", h.p, h.s, NoItem)
<1>1. ~QUERY_ITEM_SAVE /\ ~QUERY_ITEM_DESTROY /\ DbPacket
  BY DEF QUERY_SAFEBOX_LOAD, QUERY_ITEM_SAVE, QUERY_ITEM_DESTROY, Packet, DbPacket
<1>2. /\ toDb # <<>> /\ toDb' = Tail(toDb) /\ h.op \notin ItemOps /\ h \in Request
      /\ UNCHANGED <<game, results, saved>>
  BY <1>1, OtherPacket
<1>3. toGame' = toGame /\ main' = main \o <<m>> /\ h.op = "SAFEBOX_LOAD" /\ h.p \in Pids
  <2>1. Packet("SAFEBOX_LOAD") /\ toGame' = toGame /\ Enqueue(<<m>>)
    BY DEF QUERY_SAFEBOX_LOAD
  <2>2. h \in Request /\ h.op = "SAFEBOX_LOAD"  BY <2>1, HeadOfToDb
  <2> QED  BY <2>1, <2>2 DEF Enqueue, Request
<1>5. /\ toDb \in Seq(Request) /\ main \in Seq(Message4) /\ results \in Seq(Message4)
      /\ toGame \in Seq(Message4) /\ saved \in Saved /\ Absent \in BOOLEAN
      /\ AllClaims(Four(toDb, main, results, toGame), saved, Absent)
  BY Queues4
<1>4. /\ m \in Message4 /\ m.op = "SAFEBOX" /\ m.p = h.p /\ m.s = h.s
  <2>1. h.s \in Nat  BY <1>2 DEF Request, Message
  <2>2. m \in Statement  BY <1>3, <2>1, QueryType DEF QueryOp
  <2> QED  BY <2>2 DEF Message4, M
<1>6. Follows(h, m)
  BY <1>2, <1>3, <1>4, Elements4 DEF Follows, Tokens, TokenOp, Wins
<1> HIDE DEF h, m
<1>7. AllClaims(Four(Tail(toDb), Append(main, m), results, toGame), saved, Absent)
  BY <1>2, <1>4, <1>5, <1>6, ReadFour DEF h
<1>8. main' = Append(main, m)  BY <1>3, <1>5
<1> QED  BY <1>2, <1>3, <1>7, <1>8, DbClaimed

(* A load is answered from the set only with what the last save says.      *)
LEMMA ClaimedPlayerLoad ==
    ASSUME TypeOK, Claimed, Held, Packed, SetsRight, QUERY_PLAYER_LOAD
    PROVE  Claimed'
<1> DEFINE h == Head(toDb)
           n == M("PLAYER", h.p, h.s, NoItem)
           m == M("ITEM", h.p, h.s, NoItem)
           k == M("PLAYER_LOAD_SUCCESS", h.p, h.s, NoItem)
           l == M("ITEM_LOAD", h.p, h.s, ItemsInSet(h.p))
<1>1. ~QUERY_ITEM_SAVE /\ ~QUERY_ITEM_DESTROY /\ DbPacket
  BY DEF QUERY_PLAYER_LOAD, QUERY_ITEM_SAVE, QUERY_ITEM_DESTROY, Packet, DbPacket
<1>2. /\ toDb # <<>> /\ toDb' = Tail(toDb) /\ h.op \notin ItemOps /\ h \in Request
      /\ UNCHANGED <<game, results, saved>>
  BY <1>1, OtherPacket
<1>3. h.op = "PLAYER_LOAD" /\ h.p \in Pids /\ h.s \in Nat /\ up
  BY HeadOfToDb DEF QUERY_PLAYER_LOAD, Packet, Request, Message
<1>4. \/ main' = main \o (<<n>> \o <<m>>) /\ toGame' = toGame
      \/ main' = main /\ toGame' = toGame
      \/ main' = main /\ toGame' = toGame \o <<k, l>>
      \/ main' = main \o (<<>> \o <<m>>) /\ toGame' = Append(toGame, k)
  BY DEF QUERY_PLAYER_LOAD, Enqueue, Answer
<1>5. /\ toDb \in Seq(Request) /\ main \in Seq(Message4) /\ results \in Seq(Message4)
      /\ toGame \in Seq(Message4) /\ saved \in Saved /\ Absent \in BOOLEAN /\ toDb \in Seq(Message4)
      /\ AllClaims(Four(toDb, main, results, toGame), saved, Absent)
  BY Queues4
<1>6. ItemsInSet(h.p) \in Saved /\ (ItemsInSet(h.p) # NoItem => ItemsInSet(h.p) = saved /\ Of(saved, h.p, "inv"))
  <2>1. Cached(cache) \in Saved  BY CachedType DEF TypeOK, DbOK, Saved
  <2>2. set[h.p] = "with" => Cached(cache) = Matches(saved, h.p, "inv")
    BY <1>3 DEF SetsRight
  <2> QED  BY <2>1, <2>2 DEF ItemsInSet, Matches, Of, Saved
<1>7. /\ n \in Message4 /\ m \in Message4 /\ k \in Message4 /\ l \in Message4
  <2>1. n \in Statement /\ m \in Statement  BY <1>3, QueryType DEF QueryOp
  <2>2. k \in Reply /\ l \in Reply  BY <1>3, <1>6, ReplyType DEF AnswerOp, Saved
  <2> QED  BY <2>1, <2>2 DEF Message4
<1>8. NoToken(n) /\ NoToken(k)
  <2>1. n.op \notin TokenOp("inv") \cup TokenOp("box") /\ k.op \notin TokenOp("inv") \cup TokenOp("box")
    BY DEF M, TokenOp
  <2> QED  BY <2>1, PlainMessage
<1>9. Follows(h, m) /\ Follows(h, l)
  BY <1>2, <1>3, Elements4 DEF Follows, Tokens, TokenOp, Wins, M
<1>10. Right(l, saved)
  BY <1>6 DEF Right, Tokens, TokenOp, Wins, M
<1> HIDE DEF n, m, k, l, h
<1>11. /\ main \o (<<n>> \o <<m>>) = Append(Append(main, n), m)
       /\ main \o (<<>> \o <<m>>) = Append(main, m)
       /\ toGame \o <<k, l>> = Append(Append(toGame, k), l)
  BY <1>5, <1>7
<1>12. Append(main, n) \in Seq(Message4) /\ Append(toGame, k) \in Seq(Message4)
  BY <1>5, <1>7, AppendProperties
<1>13. /\ AllClaims(Four(toDb, Append(main, n), results, toGame), saved, Absent)
       /\ AllClaims(Four(toDb, main, results, Append(toGame, k)), saved, Absent)
  BY <1>5, <1>7, <1>8, PlainFour
<1>14. CASE main' = main \o (<<n>> \o <<m>>) /\ toGame' = toGame
  <2>1. AllClaims(Four(Tail(toDb), Append(Append(main, n), m), results, toGame), saved, Absent)
    BY <1>2, <1>5, <1>7, <1>9, <1>12, <1>13, ReadFour DEF h
  <2> QED  BY <1>2, <1>11, <1>14, <2>1, DbClaimed
<1>15. CASE main' = main /\ toGame' = toGame
  <2>1. AllClaims(Four(Tail(toDb), main, results, toGame), saved, Absent)
    BY <1>2, <1>5, ReadFour DEF h
  <2> QED  BY <1>2, <1>15, <2>1, DbClaimed
<1>16. CASE main' = main /\ toGame' = toGame \o <<k, l>>
  <2>1. AllClaims(Four(Tail(toDb), main, results, Append(Append(toGame, k), l)), saved, Absent)
    BY <1>2, <1>5, <1>7, <1>9, <1>10, <1>12, <1>13, ReadFour DEF h
  <2> QED  BY <1>2, <1>11, <1>16, <2>1, DbClaimed
<1>17. CASE main' = main \o (<<>> \o <<m>>) /\ toGame' = Append(toGame, k)
  <2>1. AllClaims(Four(Tail(toDb), Append(main, m), results, Append(toGame, k)), saved, Absent)
    BY <1>2, <1>5, <1>7, <1>9, <1>12, <1>13, ReadFour DEF h
  <2> QED  BY <1>2, <1>11, <1>17, <2>1, DbClaimed
<1> QED  BY <1>4, <1>14, <1>15, <1>16, <1>17

(* Every packet the db reads keeps the claims.                             *)
LEMMA CopyPacket ==
    ASSUME TypeOK, Claimed, Held, Packed, SetsRight, DbPacket, excuses' = {}
    PROVE  Claimed' /\ Held' /\ Packed'
<1>1. CASE QUERY_ITEM_SAVE \/ QUERY_ITEM_DESTROY
  BY <1>1, CopyItemPacket
<1>2. CASE ~QUERY_ITEM_SAVE /\ ~QUERY_ITEM_DESTROY
  <2>1. Held' /\ Packed'  BY <1>2, OtherPacket
  <2>2. Claimed'
    BY <1>2, ClaimedQuiet, ClaimedSafebox, ClaimedPlayerLoad DEF DbPacket
  <2> QED  BY <2>1, <2>2
<1> QED  BY <1>1, <1>2

(* The connection to the db stays.                                         *)
LEMMA DbStays ==
    ASSUME UNCHANGED <<game, toDb, saved>>, Held, Packed
    PROVE  Held' /\ Packed' /\ LeftKnown
<1>1. Packed'  BY DEF Packed
<1> QED  BY <1>1, DbHeld

(* Every answer of SQL the db reads keeps the claims.                      *)
LEMMA ClaimedResult ==
    ASSUME TypeOK, Claimed, Kept, Blank, BoxAnswered, DbResult
    PROVE  Claimed' /\ UNCHANGED <<game, toDb, saved>>
<1> DEFINE h == Head(results)
           c == Tail(results)
<1>1. /\ results # <<>> /\ results' = c /\ UNCHANGED <<game, toDb, saved>>
  BY DEF DbResult, ResultWithoutPeer, RESULT_PLAYER_LOAD, RESULT_ITEM_LOAD, RESULT_SAFEBOX_LOAD,
         Result, PopResult, hist
<1>2. /\ toDb \in Seq(Request) /\ main \in Seq(Message4) /\ results \in Seq(Message4)
      /\ toGame \in Seq(Message4) /\ saved \in Saved /\ Absent \in BOOLEAN /\ toDb \in Seq(Message4)
      /\ AllClaims(Four(toDb, main, results, toGame), saved, Absent)
  BY Queues4
<1>3. /\ h \in SqlAnswer /\ h \in Message(QueryOp) /\ h.p \in Pids /\ c \in Seq(Message4)
      /\ h.s \in Nat /\ h.x \in Saved /\ h = results[1] /\ 1 \in DOMAIN results
  BY <1>1, <1>2, TailIs, Elements4 DEF SqlAnswer, Message, Saved
<1>4. AllClaims(Four(toDb, main, c, toGame), saved, Absent)
  BY <1>1, <1>2, ResultFour
<1>5. \A op \in QueryOp : [h EXCEPT !.op = op] \in Message4
  BY <1>3 DEF SqlAnswer, Message, Message4
<1>6. \A op \in AnswerOp : [h EXCEPT !.op = op] \in Message4
  BY <1>3 DEF Reply, Message, Message4
<1>7. \A op : /\ [h EXCEPT !.op = op].op = op /\ [h EXCEPT !.op = op].x = h.x
              /\ [h EXCEPT !.op = op].p = h.p /\ [h EXCEPT !.op = op].s = h.s
  BY <1>3 DEF Message
<1>8. /\ \A op : h.op = "ITEM" /\ op \in AnswerOp /\ op = "ITEM_LOAD" => Follows(h, [h EXCEPT !.op = op])
      /\ \A op : h.op \in TokenOp("box") /\ op \in TokenOp("box") => Follows(h, [h EXCEPT !.op = op])
  <2>1. ASSUME NEW op, h.op = "ITEM", op = "ITEM_LOAD"
        PROVE  Follows(h, [h EXCEPT !.op = op])
    BY <1>3, <1>7, <2>1, Elements4 DEF Follows, Tokens, TokenOp, Wins
  <2>2. ASSUME NEW op, h.op \in TokenOp("box"), op \in TokenOp("box")
        PROVE  Follows(h, [h EXCEPT !.op = op])
    <3>1. op \notin TokenOp("inv") /\ h \in Message4  BY <1>3, <2>2, Elements4 DEF TokenOp
    <3> QED  BY <1>3, <1>7, <2>2, <3>1 DEF Follows, Tokens, Wins
  <2> QED  BY <2>1, <2>2
<1> HIDE DEF c
<1>9. CASE ResultWithoutPeer
  <2>1. main' = main /\ toGame' = toGame  BY <1>9 DEF ResultWithoutPeer
  <2> QED  BY <1>1, <1>4, <2>1, DbClaimed
<1>10. CASE RESULT_PLAYER_LOAD
  <2> DEFINE m == [h EXCEPT !.op = "PLAYER_LOAD_SUCCESS"]
  <2>1. main' = main /\ (toGame' = toGame \/ toGame' = Append(toGame, m))
    BY <1>10 DEF RESULT_PLAYER_LOAD, Answer
  <2>2. m \in Message4 /\ NoToken(m)
    <3>1. m.op \notin TokenOp("inv") \cup TokenOp("box")  BY <1>7 DEF TokenOp
    <3>2. m \in Message4  BY <1>6 DEF AnswerOp
    <3> HIDE DEF m
    <3> QED  BY <3>1, <3>2, PlainMessage
  <2> HIDE DEF m
  <2>3. AllClaims(Four(toDb, main, c, Append(toGame, m)), saved, Absent)
    BY <1>2, <1>3, <1>4, <2>2, PlainFour
  <2>4. CASE toGame' = toGame  BY <1>1, <1>4, <2>1, <2>4, DbClaimed
  <2>5. CASE toGame' = Append(toGame, m)  BY <1>1, <2>1, <2>3, <2>5, DbClaimed
  <2> QED  BY <2>1, <2>4, <2>5
<1>11. CASE RESULT_ITEM_LOAD
  <2> DEFINE m == [h EXCEPT !.op = "ITEM_LOAD"]
  <2>1. toGame' = Append(toGame, m) /\ h.op = "ITEM" /\ h.s # 0
    BY <1>11 DEF RESULT_ITEM_LOAD, Answer, Result
  <2>2. PICK w \in Writes : main' = main \o w
    <3>1. main' \in {main \o q : q \in Writes}
      <4>1. CASE h.x = NoItem
        <5>1. main' = main  BY <1>11, <4>1 DEF RESULT_ITEM_LOAD
        <5> QED  BY <5>1, CacheWrites
      <4>2. CASE h.x # NoItem
        <5>1. \E s : PutItemCache(h.x, TRUE, s)  BY <1>11, <4>2 DEF RESULT_ITEM_LOAD
        <5>2. h.x \in Data  BY <1>3, <4>2 DEF Saved
        <5> HIDE DEF h
        <5> QED  BY <5>1, <5>2, CacheWrites
      <4> QED  BY <4>1, <4>2
    <3> QED  BY <3>1
  <2>3. m \in Message4 /\ m.op = "ITEM_LOAD" /\ m.p = h.p /\ m.s = h.s /\ m.x = h.x
    BY <1>6, <1>7 DEF AnswerOp
  <2>4. Follows(h, m)  BY <1>8, <2>1 DEF AnswerOp
  <2>5. m.x # NoItem => h.x.owner = h.p /\ saved = h.x /\ saved.win = "inv"
    BY <1>1, <2>1, <2>3, LoadedIsSaved
  <2>6. Right(m, saved)
    <3> HIDE DEF m, h
    <3> SUFFICES ASSUME NEW q \in Pids, NEW v \in Wins, m \in Tokens(q, v), m.x # NoItem
                 PROVE  m.x = saved /\ Of(saved, q, v)
      BY DEF Right
    <3>1. v = "inv" /\ m.p = q  BY <2>3 DEF Tokens, TokenOp, Wins
    <3> QED  BY <2>3, <2>5, <3>1 DEF Of
  <2> HIDE DEF m, h
  <2>7. AllClaims(Four(toDb, main, c, Append(toGame, m)), saved, Absent)
    BY <1>1, <1>2, <2>3, <2>4, <2>6, ResultFour DEF c, h
  <2>8. Append(toGame, m) \in Seq(Message4)  BY <1>2, <2>3, AppendProperties
  <2>9. AllClaims(Four(toDb, main \o w, c, Append(toGame, m)), saved, Absent)
    BY <1>2, <1>3, <2>2, <2>7, <2>8, WritesFour
  <2> QED  BY <1>1, <2>1, <2>2, <2>9, DbClaimed
<1>12. CASE RESULT_SAFEBOX_LOAD
  <2> DEFINE m(op) == [h EXCEPT !.op = op]
  <2>1. \/ h.op = "SAFEBOX" /\ main' = main \o <<m("SAFEBOX_ITEM")>> /\ toGame' = toGame
        \/ h.op = "SAFEBOX" /\ main' = main /\ toGame' = Append(toGame, m("WRONG_PASSWORD"))
        \/ h.op = "SAFEBOX_ITEM" /\ main' = main /\ toGame' = Append(toGame, m("SAFEBOX_LOAD"))
    BY <1>12 DEF RESULT_SAFEBOX_LOAD, Answer, Enqueue
  <2>2. h.op \in TokenOp("box")  BY <2>1 DEF TokenOp
  <2>3. /\ m("SAFEBOX_ITEM") \in Message4 /\ m("WRONG_PASSWORD") \in Message4
        /\ m("SAFEBOX_LOAD") \in Message4
    BY <1>5, <1>6 DEF QueryOp, AnswerOp
  <2>4. Follows(h, m("SAFEBOX_ITEM")) /\ Follows(h, m("WRONG_PASSWORD")) /\ Follows(h, m("SAFEBOX_LOAD"))
    BY <1>8, <2>2 DEF TokenOp
  <2>5. h.op = "SAFEBOX" => Right(m("WRONG_PASSWORD"), saved)
    <3>1. h.op = "SAFEBOX" => h.x = NoItem  BY <1>3 DEF Blank
    <3> QED  BY <1>7, <3>1 DEF Right
  <2>6. h.op = "SAFEBOX_ITEM" => Right(m("SAFEBOX_LOAD"), saved)
    <3> SUFFICES ASSUME h.op = "SAFEBOX_ITEM", NEW q \in Pids, NEW v \in Wins,
                        m("SAFEBOX_LOAD") \in Tokens(q, v), h.x # NoItem
                 PROVE  h.x = saved /\ Of(saved, q, v)
      BY <1>7 DEF Right
    <3>1. v = "box" /\ Cur(h, q)  BY <1>7 DEF Tokens, TokenOp, Wins, Cur
    <3>2. h.x = Matches(saved, q, "box")  BY <1>3, <3>1 DEF BoxAnswered
    <3> QED  BY <3>1, <3>2 DEF Matches, Of
  <2> HIDE DEF m, h
  <2>7. CASE h.op = "SAFEBOX" /\ main' = main \o <<m("SAFEBOX_ITEM")>> /\ toGame' = toGame
    <3>1. AllClaims(Four(toDb, Append(main, m("SAFEBOX_ITEM")), c, toGame), saved, Absent)
      BY <1>1, <1>2, <2>3, <2>4, ResultFour DEF c, h
    <3>2. main' = Append(main, m("SAFEBOX_ITEM"))  BY <1>2, <2>7
    <3> QED  BY <1>1, <2>7, <3>1, <3>2, DbClaimed
  <2>8. CASE h.op = "SAFEBOX" /\ main' = main /\ toGame' = Append(toGame, m("WRONG_PASSWORD"))
    <3>1. AllClaims(Four(toDb, main, c, Append(toGame, m("WRONG_PASSWORD"))), saved, Absent)
      BY <1>1, <1>2, <2>3, <2>4, <2>5, <2>8, ResultFour DEF c, h
    <3> QED  BY <1>1, <2>8, <3>1, DbClaimed
  <2>9. CASE h.op = "SAFEBOX_ITEM" /\ main' = main /\ toGame' = Append(toGame, m("SAFEBOX_LOAD"))
    <3>1. AllClaims(Four(toDb, main, c, Append(toGame, m("SAFEBOX_LOAD"))), saved, Absent)
      BY <1>1, <1>2, <2>3, <2>4, <2>6, <2>9, ResultFour DEF c, h
    <3> QED  BY <1>1, <2>9, <3>1, DbClaimed
  <2> QED  BY <2>1, <2>7, <2>8, <2>9
<1> QED  BY <1>1, <1>9, <1>10, <1>11, <1>12 DEF DbResult

(* Timers and executed statements keep the claims.                         *)
LEMMA ClaimedDb ==
    ASSUME TypeOK, Claimed, DbTimer \/ Shutdown \/ MainExecutes \/ AsyncExecutes
    PROVE  Claimed' /\ UNCHANGED <<game, toDb, saved>>
<1>1. UNCHANGED <<game, toDb, saved, toGame>>
  BY DEF DbTimer, UpdateItemCache, UpdatePlayerCache, UpdateLogoutPlayer, Shutdown,
         MainExecutes, AsyncExecutes, hist
<1>2. /\ toDb \in Seq(Request) /\ main \in Seq(Message4) /\ results \in Seq(Message4)
      /\ toGame \in Seq(Message4) /\ saved \in Saved /\ Absent \in BOOLEAN /\ toDb \in Seq(Message4)
      /\ AllClaims(Four(toDb, main, results, toGame), saved, Absent)
  BY Queues4
<1>3. CASE DbTimer \/ Shutdown \/ AsyncExecutes
  <2>1. results' = results
    BY <1>3 DEF DbTimer, UpdateItemCache, UpdatePlayerCache, UpdateLogoutPlayer, Shutdown, AsyncExecutes
  <2>2. PICK w \in Writes : main' = main \o w
    <3>1. main' = main \/ Flush \/ Enqueue(FlushQuery(cache)) \/ \E p : FlushItemCacheSet(p)
      BY <1>3 DEF DbTimer, UpdateItemCache, UpdatePlayerCache, UpdateLogoutPlayer, Shutdown, AsyncExecutes
    <3>2. main' \in {main \o q : q \in Writes}
      BY <3>1, CacheWrites DEF Enqueue
    <3> QED  BY <3>2
  <2>3. AllClaims(Four(toDb, main \o w, results, toGame), saved, Absent)
    BY <1>2, WritesFour
  <2> QED  BY <1>1, <2>1, <2>2, <2>3, DbClaimed
<1>4. CASE MainExecutes
  <2> DEFINE h == Head(main)
  <2>1. /\ main # <<>> /\ main' = Tail(main)
        /\ \/ results' = results
           \/ h.op \notin WriteOp /\ results' = Append(results, Selected(h))
    BY <1>4 DEF MainExecutes, WriteOp
  <2>2. AllClaims(Four(toDb, Tail(main), results, toGame), saved, Absent)
    BY <1>2, <2>1, SelectFour
  <2>3. CASE results' = results  BY <1>1, <2>1, <2>2, <2>3, DbClaimed
  <2>4. CASE h.op \notin WriteOp /\ results' = Append(results, Selected(h))
    <3> DEFINE m == Selected(h)
    <3>1. h \in Statement /\ row \in Saved /\ h.op \in QueryOp /\ h.p \in Pids
      BY <2>1, <2>4, Elements4 DEF TypeOK, SqlOK, Saved, Statement, Message
    <3>2. m.op = h.op /\ m.p = h.p /\ m.s = h.s
      BY <3>1 DEF Selected, Statement, Message
    <3>3. m \in Message4 /\ h \in Message4
      <4>1. m \in SqlAnswer
        BY <3>1 DEF Selected, Statement, SqlAnswer, Message, Matches, Saved
      <4> QED  BY <3>1, <4>1 DEF Message4
    <3>4. Follows(h, m)
      BY <3>2, <3>3 DEF Follows, Tokens
    <3> HIDE DEF m, h
    <3>5. AllClaims(Four(toDb, Tail(main), Append(results, m), toGame), saved, Absent)
      BY <1>2, <2>1, <3>3, <3>4, SelectFour DEF h
    <3> QED  BY <1>1, <2>1, <2>4, <3>5, DbClaimed DEF m
  <2> QED  BY <2>1, <2>3, <2>4
<1> QED  BY <1>1, <1>3, <1>4

(* PutItemCache makes the sets say what is put.                            *)
LEMMA PutItemCacheRight ==
    ASSUME cache \in CacheState, NEW sets \in SetState, Consistent(cache, sets),
           NEW x \in Data, x.win = "inv", NEW skip \in BOOLEAN, PutItemCache(x, skip, sets)
    PROVE  RightSets(cache', set', x)
<1> DEFINE s == IF cache.owner # x.owner THEN Unlinked(sets) ELSE sets
<1>1. /\ \A p \in Pids : Unlinked(sets)[p] # "with"
      /\ s \in SetState /\ x.owner \in Pids
  BY UnlinkedFrees, UnlinkedType DEF Data
<1>2. \A p \in Pids : s[p] = "with" => p = x.owner
  BY <1>1 DEF Consistent
<1>3. \A p \in Pids : p # x.owner => Matches(x, p, "inv") = NoItem
  BY DEF Matches
<1>4. CASE s[x.owner] # "none"
  <2>1. /\ set' = [s EXCEPT ![x.owner] = "with"]
        /\ cache' = [in |-> TRUE, owner |-> x.owner, ver |-> x.ver, dead |-> FALSE,
                     dirty |-> cache.dirty \/ ~skip]
    BY <1>4 DEF PutItemCache
  <2>2. Cached(cache') = x
    BY <2>1 DEF Cached, InInv, Data
  <2>3. Matches(x, x.owner, "inv") = x  BY DEF Matches
  <2> HIDE DEF s
  <2> QED  BY <1>1, <1>2, <1>3, <2>1, <2>2, <2>3 DEF RightSets, SetState
<1>5. CASE s[x.owner] = "none"
  <2>1. set' = s  BY <1>5 DEF PutItemCache
  <2> HIDE DEF s
  <2> QED  BY <1>2, <1>3, <1>5, <2>1 DEF RightSets
<1> QED  BY <1>4, <1>5

(* A set that goes away says nothing.                                      *)
LEMMA FlushSetRight ==
    ASSUME cache \in CacheState, set \in SetState, Consistent(cache, set),
           NEW p \in Pids, FlushItemCacheSet(p), NEW z, RightSets(cache, set, z)
    PROVE  RightSets(cache', set', z)
<1>1. set' = [set EXCEPT ![p] = "none"]
  BY DEF FlushItemCacheSet
<1>2. CASE set[p] = "with"
  <2>1. \A q \in Pids : q # p => set[q] # "with"  BY <1>2 DEF Consistent
  <2> QED  BY <1>1, <2>1 DEF RightSets, SetState
<1>3. CASE set[p] # "with"
  <2>1. cache' = cache  BY <1>3 DEF FlushItemCacheSet
  <2> QED  BY <1>1, <2>1 DEF RightSets, SetState
<1> QED  BY <1>2, <1>3

(* Writing the cached data leaves what the sets say.                       *)
LEMMA FlushRight ==
    ASSUME cache \in CacheState, Flush \/ cache' = cache, NEW z, RightSets(cache, set, z)
    PROVE  RightSets(cache', set, z)
<1>1. Cached(cache') = Cached(cache)
  BY DEF Flush, Cached, CacheState
<1> QED  BY <1>1 DEF RightSets

(* Nobody has an item that is gone.                                        *)
LEMMA NoItemRight ==
    /\ \A p \in Pids : \A w : Matches(NoItem, p, w) = NoItem
    /\ \A c, s : (\A p \in Pids : s[p] = "with" => Cached(c) = NoItem) => RightSets(c, s, NoItem)
  BY DEF Matches, NoItem, RightSets, Pids, Nobody

(* Every step but a crash of the game keeps the sets right.                *)
LEMMA SetsStep ==
    ASSUME TypeOK, CacheSets, SetsRight, Kept, Next, ~GameCrash
    PROVE  SetsRight'
<1> SUFFICES ASSUME up' PROVE RightSets(cache', set', saved')
  BY DEF SetsRight, RightSets
<1>1. up
  BY DEF Next, DbPacket, DbResult, DbTimer, Shutdown, MainExecutes, AsyncExecutes,
         GameItem, ItemManagerUpdate, GameSession, GameAnswer,
         QUERY_ITEM_SAVE, QUERY_ITEM_DESTROY, QUERY_ITEM_FLUSH, QUERY_PLAYER_LOAD, QUERY_PLAYER_SAVE,
         QUERY_LOGOUT, QUERY_SAFEBOX_LOAD, QUERY_FLUSH_CACHE, Packet,
         ResultWithoutPeer, RESULT_PLAYER_LOAD, RESULT_ITEM_LOAD, RESULT_SAFEBOX_LOAD,
         UpdateItemCache, UpdatePlayerCache, UpdateLogoutPlayer,
         CreateItem, ModifyItem, DropItem, DestroyItem, SafeboxCheckin,
         SafeboxCheckout, PickupItem, ExchangeItem, ItemOp,
         CharacterSelect, SavePlayer, FlushCommand, Disconnect, ReqSafeboxLoad, CloseSafebox,
         AnswerIgnored, PlayerLoad, ItemLoad, SafeboxLoad, SafeboxWrongPassword, dbVars
<1>2. RightSets(cache, set, saved) /\ Consistent(cache, set) /\ cache \in CacheState /\ set \in SetState
  BY <1>1 DEF SetsRight, RightSets, CacheSets, TypeOK, DbOK
<1>3. CASE UNCHANGED <<cache, set, saved>>
  BY <1>2, <1>3
<1>4. CASE QUERY_ITEM_SAVE
  <2> DEFINE x == Head(toDb).x
  <2>1. Packet("ITEM_SAVE") /\ saved' = x
    BY <1>4 DEF QUERY_ITEM_SAVE, Saving
  <2>2. x \in Data  BY <2>1, HeadOfToDb DEF Request
  <2>3. CASE x.win = "box"
    <3>1. set' = Unlinked(set)  BY <1>4, <2>3 DEF QUERY_ITEM_SAVE
    <3>2. \A p \in Pids : set'[p] # "with"  BY <1>2, <3>1, UnlinkedFrees
    <3>3. \A p \in Pids : Matches(x, p, "inv") = NoItem  BY <2>3 DEF Matches
    <3> QED  BY <2>1, <3>2, <3>3 DEF RightSets
  <2>4. CASE x.win # "box"
    <3>1. PutItemCache(x, FALSE, set)  BY <1>4, <2>4 DEF QUERY_ITEM_SAVE
    <3>2. x.win = "inv"  BY <2>2, <2>4 DEF Data
    <3>3. FALSE \in BOOLEAN  OBVIOUS
    <3> HIDE DEF x
    <3> QED  BY <1>2, <2>1, <2>2, <3>1, <3>2, <3>3, PutItemCacheRight
  <2> QED  BY <2>3, <2>4
<1>5. CASE QUERY_ITEM_DESTROY
  <2>1. saved' = NoItem /\ set' = set
    BY <1>5 DEF QUERY_ITEM_DESTROY, Saving
  <2>2. \A p \in Pids : set[p] = "with" => Cached(cache') = NoItem
    <3>1. CASE cache.in
      <4>1. cache' = [cache EXCEPT !.dead = TRUE, !.dirty = FALSE]
        BY <1>5, <3>1 DEF QUERY_ITEM_DESTROY
      <4> QED  BY <1>2, <4>1 DEF Cached, CacheState
    <3>2. CASE ~cache.in
      BY <1>2, <3>2 DEF Consistent
    <3> QED  BY <3>1, <3>2
  <2> QED  BY <2>1, <2>2, NoItemRight
<1>6. CASE QUERY_ITEM_FLUSH \/ UpdateItemCache \/ \E p \in Pids : UpdatePlayerCache(p)
  <2>1. UNCHANGED <<set, saved>> /\ (Flush \/ cache' = cache)
    BY <1>6 DEF QUERY_ITEM_FLUSH, UpdateItemCache, UpdatePlayerCache, hist
  <2> QED  BY <1>2, <2>1, FlushRight
<1>7. CASE QUERY_FLUSH_CACHE \/ \E p \in Pids : UpdateLogoutPlayer(p)
  <2>1. UNCHANGED saved /\ (UNCHANGED <<cache, set>> \/ \E p \in Pids : FlushItemCacheSet(p))
    <3>1. CASE QUERY_FLUSH_CACHE
      <4>1. Packet("FLUSH_CACHE")  BY <3>1 DEF QUERY_FLUSH_CACHE
      <4>2. Head(toDb) \in Request /\ Head(toDb).op = "FLUSH_CACHE"  BY <4>1, HeadOfToDb
      <4>3. Head(toDb).p \in Pids  BY <4>2 DEF Request
      <4> QED  BY <3>1, <4>3 DEF QUERY_FLUSH_CACHE, hist
    <3>2. CASE \E p \in Pids : UpdateLogoutPlayer(p)
      BY <3>2 DEF UpdateLogoutPlayer
    <3> QED  BY <1>7, <3>1, <3>2
  <2> QED  BY <1>2, <2>1, FlushSetRight
<1>8. CASE RESULT_ITEM_LOAD
  <2> DEFINE m == Head(results)
             sets == [set EXCEPT ![m.p] = IF @ = "none" THEN "without" ELSE @]
  <2>1. /\ results # <<>> /\ m.op = "ITEM" /\ m.s # 0 /\ saved' = saved
        /\ IF m.x = NoItem THEN set' = sets /\ UNCHANGED <<cache, main>>
           ELSE PutItemCache(m.x, TRUE, sets)
    BY <1>8 DEF RESULT_ITEM_LOAD, Result, hist
  <2>2. m.p \in Pids /\ m.x \in Saved /\ m = results[1] /\ 1 \in DOMAIN results
    BY <2>1, HeadOfResults, TailIs DEF TypeOK, SqlOK, Message, Saved
  <2>3. m.x = Matches(saved, m.p, "inv")
    BY <2>1, <2>2 DEF Kept, Store, Answered
  <2> HIDE DEF m
  <2>4. CASE m.x = NoItem
    BY <1>2, <2>1, <2>2, <2>3, <2>4 DEF RightSets, SetState
  <2>5. CASE m.x # NoItem
    <3>1. sets \in SetState /\ Consistent(cache, sets)
      BY <1>2, <2>2 DEF SetState, Consistent, CacheState
    <3>2. m.x \in Data /\ saved = m.x /\ m.x.win = "inv"
      BY <2>1, <2>2, <2>3, <2>5 DEF Matches, Saved
    <3>3. PutItemCache(m.x, TRUE, sets) /\ TRUE \in BOOLEAN
      BY <2>1, <2>5
    <3> HIDE DEF sets
    <3>4. RightSets(cache', set', m.x)  BY <1>2, <3>1, <3>2, <3>3, PutItemCacheRight
    <3> QED  BY <2>1, <3>2, <3>4
  <2> QED  BY <2>4, <2>5
<1>9. \/ UNCHANGED <<cache, set, saved>> \/ QUERY_ITEM_SAVE \/ QUERY_ITEM_DESTROY
      \/ QUERY_ITEM_FLUSH \/ UpdateItemCache \/ (\E p \in Pids : UpdatePlayerCache(p))
      \/ QUERY_FLUSH_CACHE \/ (\E p \in Pids : UpdateLogoutPlayer(p)) \/ RESULT_ITEM_LOAD
  BY DEF Next, DbPacket, DbResult, DbTimer, Shutdown, MainExecutes, AsyncExecutes,
         GameItem, ItemManagerUpdate, GameSession, GameAnswer,
         QUERY_PLAYER_LOAD, QUERY_PLAYER_SAVE,
         QUERY_LOGOUT, QUERY_SAFEBOX_LOAD,
         ResultWithoutPeer, RESULT_PLAYER_LOAD, RESULT_SAFEBOX_LOAD,
         CreateItem, ModifyItem, DropItem, DestroyItem, SafeboxCheckin,
         SafeboxCheckout, PickupItem, ExchangeItem, ItemOp,
         CharacterSelect, SavePlayer, FlushCommand, Disconnect, ReqSafeboxLoad, CloseSafebox,
         AnswerIgnored, PlayerLoad, ItemLoad, SafeboxLoad, SafeboxWrongPassword, dbVars, hist, sql
<1> QED  BY <1>3, <1>4, <1>5, <1>6, <1>7, <1>8, <1>9

(* What is in a queue with one message more, and without its first.        *)
LEMMA ToSetIs ==
    ASSUME NEW T, NEW q \in Seq(T)
    PROVE  /\ q # <<>> => Head(q) \in ToSet(q) /\ ToSet(Tail(q)) \subseteq ToSet(q)
           /\ \A m \in T : ToSet(Append(q, m)) = ToSet(q) \cup {m}
<1>1. ASSUME q # <<>> PROVE Head(q) \in ToSet(q) /\ ToSet(Tail(q)) \subseteq ToSet(q)
  <2> DEFINE n == Len(q)
             t == Tail(q)
  <2>1. /\ Head(q) = q[1] /\ 1 \in DOMAIN q /\ n \in Nat \ {0}
        /\ DOMAIN q = 1..n /\ DOMAIN t = 1..(n - 1)
        /\ \A i \in 1..(n - 1) : t[i] = q[i + 1]
    BY <1>1, TailIs
  <2>2. \A i \in 1..(n - 1) : i + 1 \in 1..n
    BY <2>1
  <2> HIDE DEF n, t
  <2>3. \A i \in DOMAIN t : t[i] \in ToSet(q)
    BY <2>1, <2>2 DEF ToSet
  <2> QED  BY <2>1, <2>3 DEF ToSet, t
<1>2. ASSUME NEW m \in T PROVE ToSet(Append(q, m)) = ToSet(q) \cup {m}
  <2> DEFINE n == Len(q)
             a == Append(q, m)
  <2>1. /\ n \in Nat /\ DOMAIN q = 1..n /\ DOMAIN a = 1..(n + 1)
        /\ (\A i \in 1..n : a[i] = q[i]) /\ a[n + 1] = m
    BY AppendIs
  <2>2. 1..(n + 1) = 1..n \cup {n + 1}
    BY <2>1
  <2> HIDE DEF n, a
  <2>3. ToSet(a) = {a[i] : i \in 1..n} \cup {m}
    BY <2>1, <2>2 DEF ToSet
  <2>4. {a[i] : i \in 1..n} = ToSet(q)
    BY <2>1 DEF ToSet
  <2> QED  BY <2>3, <2>4 DEF a
<1> QED  BY <1>1, <1>2

(* Blank, by the messages that are there.                                  *)
LEMMA BlankSets ==
    Blank <=> /\ \A m \in ToSet(results) : BlankResult(m)
              /\ \A m \in ToSet(toGame) : BlankReply(m)
  BY DEF Blank, ToSet, BlankResult, BlankReply

(* A queue of blank messages stays one.                                    *)
LEMMA BlankQueues ==
    ASSUME Blank, TypeOK,
           \/ results' = results
           \/ results # <<>> /\ results' = Tail(results)
           \/ \E m \in SqlAnswer : BlankResult(m) /\ results' = Append(results, m),
           \/ toGame' = toGame
           \/ toGame # <<>> /\ toGame' = Tail(toGame)
           \/ \E m \in Reply : BlankReply(m) /\ toGame' = Append(toGame, m)
           \/ \E m, n \in Reply : BlankReply(m) /\ BlankReply(n)
                                  /\ toGame' = Append(Append(toGame, m), n)
    PROVE  Blank'
<1>1. results \in Seq(SqlAnswer) /\ toGame \in Seq(Reply)
  BY DEF TypeOK, SqlOK
<1>2. \A m \in ToSet(results) : BlankResult(m)  BY BlankSets
<1>3. \A m \in ToSet(toGame) : BlankReply(m)  BY BlankSets
<1>4. \A m \in ToSet(results') : BlankResult(m)
  <2>1. /\ results # <<>> => ToSet(Tail(results)) \subseteq ToSet(results)
        /\ \A m \in SqlAnswer : ToSet(Append(results, m)) = ToSet(results) \cup {m}
    BY <1>1, ToSetIs
  <2>2. ToSet(results') \subseteq ToSet(results) \cup {m \in SqlAnswer : BlankResult(m)}
    BY <2>1
  <2> QED  BY <1>2, <2>2
<1>5. \A m, n \in Reply : /\ Append(toGame, m) \in Seq(Reply)
                          /\ ToSet(Append(toGame, m)) = ToSet(toGame) \cup {m}
                          /\ ToSet(Append(Append(toGame, m), n)) = ToSet(toGame) \cup {m, n}
  <2> TAKE m, n \in Reply
  <2>1. Append(toGame, m) \in Seq(Reply)  BY <1>1, AppendIs
  <2>2. ToSet(Append(toGame, m)) = ToSet(toGame) \cup {m}  BY <1>1, ToSetIs
  <2>3. ToSet(Append(Append(toGame, m), n)) = ToSet(Append(toGame, m)) \cup {n}
    BY <2>1, ToSetIs
  <2> QED  BY <2>1, <2>2, <2>3
<1>6. \A m \in ToSet(toGame') : BlankReply(m)
  <2>1. toGame # <<>> => ToSet(Tail(toGame)) \subseteq ToSet(toGame)
    BY <1>1, ToSetIs
  <2>2. ToSet(toGame') \subseteq ToSet(toGame) \cup {m \in Reply : BlankReply(m)}
    <3>1. CASE toGame' = toGame \/ (toGame # <<>> /\ toGame' = Tail(toGame))
      BY <2>1, <3>1
    <3>2. ASSUME NEW m \in Reply, BlankReply(m), toGame' = Append(toGame, m)
          PROVE  ToSet(toGame') \subseteq ToSet(toGame) \cup {k \in Reply : BlankReply(k)}
      BY <1>5, <3>2
    <3>3. ASSUME NEW m \in Reply, NEW n \in Reply, BlankReply(m), BlankReply(n),
                 toGame' = Append(Append(toGame, m), n)
          PROVE  ToSet(toGame') \subseteq ToSet(toGame) \cup {k \in Reply : BlankReply(k)}
      BY <1>5, <3>3
    <3> QED  BY <3>1, <3>2, <3>3
  <2> QED  BY <1>3, <2>2
<1> QED  BY <1>4, <1>6 DEF Blank, ToSet, BlankResult, BlankReply

(* Every step but a crash of the game keeps the messages blank.            *)
LEMMA BlankStep ==
    ASSUME TypeOK, Blank, Next, ~GameCrash PROVE Blank'
<1>1. CASE DbPacket
  <2> DEFINE h == Head(toDb)
             load == M("PLAYER_LOAD_SUCCESS", h.p, h.s, NoItem)
             items == M("ITEM_LOAD", h.p, h.s, ItemsInSet(h.p))
  <2>1. results' = results
    BY <1>1 DEF DbPacket, QUERY_ITEM_SAVE, QUERY_ITEM_DESTROY, QUERY_ITEM_FLUSH, QUERY_PLAYER_LOAD,
                QUERY_PLAYER_SAVE, QUERY_LOGOUT, QUERY_SAFEBOX_LOAD, QUERY_FLUSH_CACHE, sql
  <2>2. CASE ~QUERY_PLAYER_LOAD
    <3>1. toGame' = toGame
      BY <1>1, <2>2 DEF DbPacket, QUERY_ITEM_SAVE, QUERY_ITEM_DESTROY, QUERY_ITEM_FLUSH,
                QUERY_PLAYER_SAVE, QUERY_LOGOUT, QUERY_SAFEBOX_LOAD, QUERY_FLUSH_CACHE
    <3> QED  BY <2>1, <3>1, BlankQueues
  <2>3. CASE QUERY_PLAYER_LOAD
    <3>1. Packet("PLAYER_LOAD")  BY <2>3 DEF QUERY_PLAYER_LOAD
    <3>2. h \in Request /\ h.op = "PLAYER_LOAD"  BY <3>1, HeadOfToDb
    <3>3. h.p \in Pids /\ h.s \in Nat  BY <3>2 DEF Request, Message
    <3>4. cache \in CacheState /\ toGame \in Seq(Reply)  BY DEF TypeOK, DbOK
    <3>5. ItemsInSet(h.p) \in Data \cup {NoItem}
      BY <3>4, CachedType DEF ItemsInSet
    <3>6. load \in Reply /\ items \in Reply
      BY <3>3, <3>5, ReplyType DEF AnswerOp
    <3>7. BlankReply(load) /\ BlankReply(items)
      BY DEF BlankReply, M
    <3>8. \/ toGame' = toGame \/ toGame' = Append(toGame, load)
          \/ toGame' = toGame \o <<load, items>>
      BY <2>3 DEF QUERY_PLAYER_LOAD, Answer
    <3> HIDE DEF load, items
    <3>9. toGame \o <<load, items>> = Append(Append(toGame, load), items)
      BY <3>4, <3>6
    <3> QED  BY <2>1, <3>6, <3>7, <3>8, <3>9, BlankQueues
  <2> QED  BY <2>2, <2>3
<1>2. CASE DbResult
  <2> DEFINE h == Head(results)
             m(op) == [h EXCEPT !.op = op]
  <2>1. results # <<>> /\ results' = Tail(results)
    BY <1>2 DEF DbResult, ResultWithoutPeer, RESULT_PLAYER_LOAD, RESULT_ITEM_LOAD, RESULT_SAFEBOX_LOAD,
         Result, PopResult
  <2>2. h \in Message(QueryOp) /\ h.p \in Pids  BY <2>1, HeadOfResults
  <2>3. \A op \in AnswerOp : m(op) \in Reply /\ m(op).op = op /\ m(op).x = h.x
    BY <2>2 DEF Reply, Message
  <2>4. \/ toGame' = toGame
        \/ h.op = "PLAYER" /\ toGame' = Append(toGame, m("PLAYER_LOAD_SUCCESS"))
        \/ \E op \in AnswerOp \ {"PLAYER_LOAD_SUCCESS"} : toGame' = Append(toGame, m(op))
    <3>1. CASE ResultWithoutPeer  BY <3>1 DEF ResultWithoutPeer
    <3>2. CASE RESULT_PLAYER_LOAD  BY <3>2 DEF RESULT_PLAYER_LOAD, Answer, Result
    <3>3. CASE RESULT_ITEM_LOAD
      <4>1. toGame' = Append(toGame, m("ITEM_LOAD"))
        BY <3>3 DEF RESULT_ITEM_LOAD, Answer
      <4> HIDE DEF m
      <4> QED  BY <4>1 DEF AnswerOp
    <3>4. CASE RESULT_SAFEBOX_LOAD
      <4>1. \/ toGame' = toGame \/ toGame' = Append(toGame, m("WRONG_PASSWORD"))
            \/ toGame' = Append(toGame, m("SAFEBOX_LOAD"))
        BY <3>4 DEF RESULT_SAFEBOX_LOAD, Answer
      <4> HIDE DEF m
      <4> QED  BY <4>1 DEF AnswerOp
    <3> QED  BY <1>2, <3>1, <3>2, <3>3, <3>4 DEF DbResult
  <2>5. BlankResult(h)
    <3>1. results \in Seq(SqlAnswer)  BY DEF TypeOK, SqlOK
    <3>2. h \in ToSet(results)  BY <2>1, <3>1, ToSetIs
    <3> QED  BY <3>2, BlankSets
  <2>6. h.op = "PLAYER" => BlankReply(m("PLAYER_LOAD_SUCCESS"))
    <3>1. "PLAYER_LOAD_SUCCESS" \in AnswerOp  BY DEF AnswerOp
    <3> HIDE DEF m
    <3> QED  BY <2>3, <2>5, <3>1 DEF BlankReply, BlankResult
  <2>7. \A op \in AnswerOp \ {"PLAYER_LOAD_SUCCESS"} : BlankReply(m(op))
    <3> HIDE DEF m
    <3> QED  BY <2>3 DEF BlankReply
  <2>8. "PLAYER_LOAD_SUCCESS" \in AnswerOp  BY DEF AnswerOp
  <2> HIDE DEF m, h
  <2> QED  BY <2>1, <2>3, <2>4, <2>6, <2>7, <2>8, BlankQueues
<1>3. CASE DbTimer \/ Shutdown \/ AsyncExecutes \/ GameItem \/ ItemManagerUpdate \/ GameSession
  <2>1. UNCHANGED <<results, toGame>>
    BY <1>3 DEF DbTimer, UpdateItemCache, UpdatePlayerCache, UpdateLogoutPlayer, Shutdown, AsyncExecutes,
         GameItem, CreateItem, ModifyItem, DropItem, DestroyItem, SafeboxCheckin,
         SafeboxCheckout, PickupItem, ExchangeItem, ItemOp, ItemManagerUpdate,
         GameSession, CharacterSelect, SavePlayer, Disconnect, ReqSafeboxLoad,
         CloseSafebox, FlushCommand, game, sql
  <2> QED  BY <2>1, BlankQueues
<1>4. CASE MainExecutes
  <2> DEFINE h == Head(main)
             m == Selected(h)
  <2>1. /\ main # <<>> /\ toGame' = toGame
        /\ results' = results \/ (h.op \notin WriteOp /\ results' = Append(results, m))
    BY <1>4 DEF MainExecutes, WriteOp
  <2>2. ASSUME h.op \notin WriteOp PROVE m \in SqlAnswer /\ BlankResult(m)
    <3>1. h \in Statement /\ row \in Saved /\ h.op \in QueryOp /\ h.p \in Pids
      BY <2>1, <2>2, Elements4 DEF TypeOK, SqlOK, Saved, Statement, Message
    <3>2. m.op = h.op /\ (h.op \in {"PLAYER", "SAFEBOX"} => m.x = NoItem)
      BY <3>1 DEF Selected, Statement, Message
    <3>3. m \in SqlAnswer
      BY <3>1 DEF Selected, Statement, SqlAnswer, Message, Matches, Saved
    <3> QED  BY <3>2, <3>3 DEF BlankResult
  <2> HIDE DEF m, h
  <2> QED  BY <2>1, <2>2, BlankQueues
<1>5. CASE GameAnswer
  <2>1. results' = results /\ toGame # <<>> /\ toGame' = Tail(toGame)
    BY <1>5 DEF GameAnswer, AnswerIgnored, PlayerLoad, ItemLoad,
         SafeboxLoad, SafeboxWrongPassword, AnswerIs, Received, sql
  <2> QED  BY <2>1, BlankQueues
<1> QED  BY <1>1, <1>2, <1>3, <1>4, <1>5 DEF Next

-----------------------------------------------------------------------------
(* A safebox under way: what its SELECT finds of the last save.            *)

(* A statement is queued.                                                  *)
LEMMA BoxViewAppend ==
    ASSUME NEW q \in Seq(Statement), NEW m \in Statement, NEW r, NEW z, BoxView(q, r, z),
           \A p \in Pids : BoxSelect(m, p) =>
               \A v \in Saved : Says(q, WriteOp, r, Len(q) + 1, v) => Matches(v, p, "box") = Matches(z, p, "box")
    PROVE  BoxView(Append(q, m), r, z)
<1> DEFINE n == Len(q)
           a == Append(q, m)
<1>1. /\ n \in Nat /\ DOMAIN q = 1..n /\ DOMAIN a = 1..(n + 1)
      /\ \A i \in 1..n : a[i] = q[i]
      /\ a[n + 1] = m
  BY AppendIs
<1>2. \A v \in Saved : \A k \in 1..(n + 1) :
          Says(a, WriteOp, r, k, v) => Says(q, WriteOp, r, k, v)
  BY SaysAppendBefore
<1>3. \A p \in Pids : BoxSelect(m, p) =>
          \A v \in Saved : Says(q, WriteOp, r, n + 1, v) => Matches(v, p, "box") = Matches(z, p, "box")
  OBVIOUS
<1> HIDE DEF n, a
<1> SUFFICES ASSUME NEW k \in 1..(n + 1), NEW p \in Pids, BoxSelect(a[k], p),
                    NEW v \in Saved, Says(a, WriteOp, r, k, v)
             PROVE  Matches(v, p, "box") = Matches(z, p, "box")
  BY <1>1 DEF BoxView, a
<1>4. Says(q, WriteOp, r, k, v)  BY <1>2
<1>5. CASE k = n + 1
  BY <1>1, <1>3, <1>4, <1>5
<1>6. CASE k # n + 1
  <2>1. k \in 1..n  BY <1>1, <1>6
  <2> QED  BY <1>1, <1>4, <2>1 DEF BoxView
<1> QED  BY <1>5, <1>6

(* A statement is executed.                                                *)
LEMMA BoxViewTail ==
    ASSUME NEW q \in Seq(Statement), q # <<>>, NEW r, NEW z, BoxView(q, r, z)
    PROVE  BoxView(Tail(q), IF Head(q).op \in WriteOp THEN Head(q).x ELSE r, z)
<1> DEFINE n == Len(q)
           t == Tail(q)
           y == IF Head(q).op \in WriteOp THEN Head(q).x ELSE r
<1>1. /\ n \in Nat \ {0} /\ DOMAIN q = 1..n /\ DOMAIN t = 1..(n - 1)
      /\ \A i \in 1..(n - 1) : t[i] = q[i + 1]
  BY TailIs
<1>2. \A v \in Saved : \A k \in Nat \ {0} :
          Says(t, WriteOp, y, k, v) => Says(q, WriteOp, r, k + 1, v)
  BY SaysTail
<1> HIDE DEF n, t, y
<1> SUFFICES ASSUME NEW k \in 1..(n - 1), NEW p \in Pids, BoxSelect(t[k], p),
                    NEW v \in Saved, Says(t, WriteOp, y, k, v)
             PROVE  Matches(v, p, "box") = Matches(z, p, "box")
  BY <1>1 DEF BoxView, t, y
<1>3. k \in Nat \ {0} /\ k + 1 \in 1..n /\ t[k] = q[k + 1]  BY <1>1
<1>4. Says(q, WriteOp, r, k + 1, v)  BY <1>2, <1>3
<1> QED  BY <1>1, <1>3, <1>4 DEF BoxView

(* The last save changes to one that no such SELECT can tell from it.      *)
LEMMA BoxUnseen ==
    ASSUME NEW q, NEW r, NEW y, NEW z,
           \A p \in Pids : (\E k \in DOMAIN q : BoxSelect(q[k], p))
                               => Matches(y, p, "box") = Matches(z, p, "box")
    PROVE  (BoxView(q, r, y) => BoxView(q, r, z)) /\ (BoxAnswer(q, y) => BoxAnswer(q, z))
  BY DEF BoxView, BoxAnswer

(* An answer is taken, or added.                                           *)
LEMMA BoxAnswerMoves ==
    ASSUME NEW q \in Seq(SqlAnswer), NEW z, BoxAnswer(q, z)
    PROVE  /\ q # <<>> => BoxAnswer(Tail(q), z)
           /\ \A m \in SqlAnswer : (\A p \in Pids : BoxSelect(m, p) => m.x = Matches(z, p, "box"))
                  => BoxAnswer(Append(q, m), z)
<1>1. \A m \in ToSet(q) : \A p \in Pids : BoxSelect(m, p) => m.x = Matches(z, p, "box")
  BY DEF BoxAnswer, ToSet
<1>2. q # <<>> => ToSet(Tail(q)) \subseteq ToSet(q)
  BY ToSetIs
<1>3. \A m \in SqlAnswer : ToSet(Append(q, m)) = ToSet(q) \cup {m}
  BY ToSetIs
<1>4. \A s : (\A m \in ToSet(s) : \A p \in Pids : BoxSelect(m, p) => m.x = Matches(z, p, "box"))
                 => BoxAnswer(s, z)
  BY DEF BoxAnswer, ToSet
<1> QED  BY <1>1, <1>2, <1>3, <1>4

(* A query queued, or a statement executed, does not change the last       *)
(* write.                                                                  *)
LEMMA SaysMoves ==
    ASSUME NEW q \in Seq(Statement), NEW r, NEW v
    PROVE  /\ \A m \in Statement : m.op \notin WriteOp =>
                 (Says(Append(q, m), WriteOp, r, Len(Append(q, m)) + 1, v) => Says(q, WriteOp, r, Len(q) + 1, v))
           /\ q # <<>> => (Says(Tail(q), WriteOp, IF Head(q).op \in WriteOp THEN Head(q).x ELSE r,
                                Len(Tail(q)) + 1, v) => Says(q, WriteOp, r, Len(q) + 1, v))
<1>1. ASSUME NEW m \in Statement, m.op \notin WriteOp,
             Says(Append(q, m), WriteOp, r, Len(Append(q, m)) + 1, v)
      PROVE  Says(q, WriteOp, r, Len(q) + 1, v)
  <2>1. Len(Append(q, m)) + 1 = Len(q) + 2
    BY AppendProperties, LenProperties
  <2>2. Says(Append(q, m), WriteOp, r, Len(q) + 2, v)  BY <1>1, <2>1
  <2> QED  BY <1>1, <2>2, SaysAppendNew
<1>2. ASSUME q # <<>>, Says(Tail(q), WriteOp, IF Head(q).op \in WriteOp THEN Head(q).x ELSE r,
                            Len(Tail(q)) + 1, v)
      PROVE  Says(q, WriteOp, r, Len(q) + 1, v)
  <2>1. Len(Tail(q)) + 1 = Len(q) /\ Len(q) \in Nat \ {0}
    BY <1>2, TailIs, HeadTailProperties
  <2>2. Says(Tail(q), WriteOp, IF Head(q).op \in WriteOp THEN Head(q).x ELSE r, Len(q), v)
    BY <1>2, <2>1
  <2> QED  BY <1>2, <2>1, <2>2, SaysTail
<1> QED  BY <1>1, <1>2

(* The SELECT of a safebox is of the load of that safebox.                 *)
LEMMA BoxTokens ==
    ASSUME TypeOK
    PROVE  /\ \A m \in Message4 : \A p : BoxSelect(m, p) => m \in Tokens(p, "box")
           /\ \A p : (\E k \in DOMAIN main : BoxSelect(main[k], p)) => Has(main, Tokens(p, "box"))
           /\ \A p : (\E k \in DOMAIN results : BoxSelect(results[k], p)) => Has(results, Tokens(p, "box"))
<1>1. \A m \in Message4 : \A p : BoxSelect(m, p) => m \in Tokens(p, "box")
  BY DEF BoxSelect, Cur, Tokens, TokenOp
<1>2. /\ \A k \in DOMAIN main : main[k] \in Message4
      /\ \A k \in DOMAIN results : results[k] \in Message4
  BY Queues4, LenProperties, ElementOfSeq
<1> QED  BY <1>1, <1>2 DEF Has

(* What is saved while a safebox is under way is not, and was not, in it.  *)
LEMMA BoxUnsaved ==
    ASSUME TypeOK, Claimed, toDb # <<>>, Head(toDb).op \in ItemOps,
           Head(toDb).op = "ITEM_DESTROY" => Head(toDb).x = NoItem,
           NEW p \in Pids, Has(main, Tokens(p, "box")) \/ Has(results, Tokens(p, "box"))
    PROVE  ~Of(saved, p, "box") /\ ~Of(Head(toDb).x, p, "box")
<1> DEFINE Q == Four(toDb, main, results, toGame)
<1>1. Q[1] = toDb /\ Q[2] = main /\ Q[3] = results
  BY DEF Four
<1>2. /\ toDb \in Seq(Request) /\ saved \in Saved /\ Absent \in BOOLEAN /\ AllClaims(Q, saved, Absent)
  BY Queues4
<1> HIDE DEF Q
<1>3. "box" \in Wins  BY DEF Wins
<1>4. Claims(Q, saved, Absent, box[p], Tokens(p, "box"), p, "box")
  BY <1>2, <1>3 DEF AllClaims
<1> DEFINE A == Tokens(p, "box")
           b == box[p]
<1>5. Claims(Q, saved, Absent, b, A, p, "box") /\ (Has(Q[2], A) \/ Has(Q[3], A))
  BY <1>1, <1>4
<1> HIDE DEF A, b
<1>6. Claim(toDb, saved, Absent, p, "box", 1)
  BY <1>1, <1>5 DEF Claims
<1>7. /\ Of(saved, p, "box") => NoItemOp(toDb, 1)
      /\ \A j \in DOMAIN toDb : ~BoxPut(toDb[j], p)
  BY <1>2, <1>6, ClaimFirst
<1>8. 1 \in DOMAIN toDb /\ toDb[1] = Head(toDb) /\ 1 >= 1
  BY <1>2, TailIs
<1>9. ~Of(saved, p, "box")
  BY <1>7, <1>8 DEF NoItemOp
<1>10. ~Of(Head(toDb).x, p, "box")
  <2>1. CASE Head(toDb).op = "ITEM_DESTROY"
    BY <2>1 DEF Of, NoItem
  <2>2. CASE Head(toDb).op # "ITEM_DESTROY"
    BY <1>7, <1>8, <2>2 DEF BoxPut, ItemOps
  <2> QED  BY <2>1, <2>2
<1> QED  BY <1>9, <1>10

(* The db reads a save or the end of the item: what a safebox brings stays.*)
LEMMA BoxSaved ==
    ASSUME TypeOK, Claimed, toDb # <<>>, Head(toDb).op \in ItemOps,
           Head(toDb).op = "ITEM_DESTROY" => Head(toDb).x = NoItem
    PROVE  /\ BoxView(main, row, saved) => BoxView(main, row, Head(toDb).x)
           /\ BoxAnswer(results, saved) => BoxAnswer(results, Head(toDb).x)
<1> DEFINE x == Head(toDb).x
<1>1. ASSUME NEW p \in Pids, Has(main, Tokens(p, "box")) \/ Has(results, Tokens(p, "box"))
      PROVE  Matches(saved, p, "box") = Matches(x, p, "box")
  <2>1. ~Of(saved, p, "box") /\ ~Of(x, p, "box")
    BY <1>1, BoxUnsaved
  <2> HIDE DEF x
  <2> QED  BY <2>1 DEF Of, Matches
<1> HIDE DEF x
<1>2. \A p \in Pids : (\E k \in DOMAIN main : BoxSelect(main[k], p))
                          => Matches(saved, p, "box") = Matches(x, p, "box")
  BY <1>1, BoxTokens
<1>3. \A p \in Pids : (\E k \in DOMAIN results : BoxSelect(results[k], p))
                          => Matches(saved, p, "box") = Matches(x, p, "box")
  BY <1>1, BoxTokens
<1>4. BoxView(main, row, saved) => BoxView(main, row, x)
  BY <1>2, BoxUnseen
<1>5. BoxAnswer(results, saved) => BoxAnswer(results, x)
  BY <1>3, BoxUnseen
<1> QED  BY <1>4, <1>5 DEF x

(* Statements that are no such SELECT are queued.                          *)
LEMMA BoxPlain ==
    ASSUME TypeOK, NEW z, BoxView(main, row, z)
    PROVE  /\ \A m \in Statement : Plain(m) => BoxView(Append(main, m), row, z)
           /\ \A m, n \in Statement : Plain(m) /\ Plain(n) => BoxView(Append(Append(main, m), n), row, z)
           /\ \A w \in Writes : BoxView(main \o w, row, z)
<1>1. main \in Seq(Statement)  BY DEF TypeOK, SqlOK
<1>2. ASSUME NEW q \in Seq(Statement), BoxView(q, row, z), NEW m \in Statement, Plain(m)
      PROVE  Append(q, m) \in Seq(Statement) /\ BoxView(Append(q, m), row, z)
  <2>1. \A p \in Pids : ~BoxSelect(m, p)  BY <1>2 DEF Plain, BoxSelect
  <2>2. BoxView(Append(q, m), row, z)  BY <1>2, <2>1, BoxViewAppend
  <2> QED  BY <2>2, AppendIs
<1>3. \A m \in Statement : Plain(m) => BoxView(Append(main, m), row, z) /\ Append(main, m) \in Seq(Statement)
  BY <1>1, <1>2
<1>4. \A m, n \in Statement : Plain(m) /\ Plain(n) => BoxView(Append(Append(main, m), n), row, z)
  BY <1>2, <1>3
<1>5. ASSUME NEW w \in Writes PROVE BoxView(main \o w, row, z)
  <2>1. CASE w = <<>>
    <3>1. main \o w = main  BY <1>1, <2>1
    <3> QED  BY <3>1
  <2>2. CASE w # <<>>
    <3>1. PICK x \in Saved : w = <<Write(x)>>  BY <2>2 DEF Writes
    <3>2. Write(x) \in Statement /\ Plain(Write(x))  BY WriteSays DEF WriteOp, Plain
    <3>3. main \o w = Append(main, Write(x))  BY <1>1, <3>1, <3>2, AppendIsConcat
    <3> QED  BY <1>3, <3>2, <3>3
  <2> QED  BY <2>1, <2>2
<1> QED  BY <1>3, <1>4, <1>5

(* BoxAnswered and BoxView in this state.                                  *)
LEMMA BoxNow ==
    /\ BoxAnswered <=> BoxAnswer(results, saved)
    /\ UNCHANGED game => \A q, r, z : BoxView(q, r, z)' <=> BoxView(q, r, z)
  BY DEF BoxAnswered, BoxAnswer, BoxSelect, Cur, BoxView, game, Says

(* BoxViews and BoxAnswered in the next state, if the game does not move.  *)
LEMMA BoxThen ==
    ASSUME UNCHANGED game
    PROVE  /\ (async' = 0 => BoxView(main', row', saved')) => BoxViews'
           /\ BoxAnswer(results', saved') => BoxAnswered'
<1>1. ASSUME async' = 0 => BoxView(main', row', saved') PROVE BoxViews'
  BY <1>1 DEF BoxViews, BoxView, BoxSelect, Cur, game
<1>2. ASSUME BoxAnswer(results', saved') PROVE BoxAnswered'
  BY <1>2 DEF BoxAnswered, BoxAnswer, BoxSelect, Cur, game
<1> QED  BY <1>1, <1>2

(* A load asks SQL for the player, the items, or the safebox.              *)
LEMMA AsksGrow ==
    ASSUME TypeOK, QUERY_PLAYER_LOAD \/ QUERY_SAFEBOX_LOAD
    PROVE  \/ main' = main
           \/ \E m \in Asks : main' = Append(main, m)
           \/ \E m, n \in Asks : main' = Append(Append(main, m), n)
<1>0. main \in Seq(Statement)  BY DEF TypeOK, SqlOK
<1>1. CASE QUERY_PLAYER_LOAD
  <2> DEFINE h == Head(toDb)
             n == M("PLAYER", h.p, h.s, NoItem)
             m == M("ITEM", h.p, h.s, NoItem)
  <2>1. Packet("PLAYER_LOAD")  BY <1>1 DEF QUERY_PLAYER_LOAD
  <2>2. h \in Request /\ h.op = "PLAYER_LOAD"  BY <2>1, HeadOfToDb
  <2>3. h.p \in Pids /\ h.s \in Nat  BY <2>2 DEF Request, Message
  <2>4. n \in Asks /\ m \in Asks
    <3>1. "PLAYER" \in QueryOp /\ "ITEM" \in QueryOp  BY DEF QueryOp
    <3>2. n.op = "PLAYER" /\ m.op = "ITEM"  BY DEF M
    <3> QED  BY <2>3, <3>1, <3>2, QueryType DEF Asks
  <2>5. main' = main \/ main' = main \o (<<n>> \o <<m>>) \/ main' = main \o (<<>> \o <<m>>)
    BY <1>1 DEF QUERY_PLAYER_LOAD, Enqueue
  <2> HIDE DEF n, m
  <2>6. n \in Statement /\ m \in Statement  BY <2>4 DEF Asks
  <2>7. /\ main \o (<<n>> \o <<m>>) = Append(Append(main, n), m)
        /\ main \o (<<>> \o <<m>>) = Append(main, m)
    BY <1>0, <2>6
  <2> QED  BY <2>4, <2>5, <2>7, <1>0
<1>2. CASE QUERY_SAFEBOX_LOAD
  <2> DEFINE h == Head(toDb)
             m == M("SAFEBOX", h.p, h.s, NoItem)
  <2>1. Packet("SAFEBOX_LOAD")  BY <1>2 DEF QUERY_SAFEBOX_LOAD
  <2>2. h \in Request /\ h.op = "SAFEBOX_LOAD"  BY <2>1, HeadOfToDb
  <2>3. h.p \in Pids /\ h.s \in Nat  BY <2>2 DEF Request, Message
  <2>4. m \in Asks
    <3>1. "SAFEBOX" \in QueryOp /\ m.op = "SAFEBOX"  BY DEF QueryOp, M
    <3> QED  BY <2>3, <3>1, QueryType DEF Asks
  <2>5. main' = main \o <<m>>  BY <1>2 DEF QUERY_SAFEBOX_LOAD, Enqueue
  <2> HIDE DEF m
  <2>6. m \in Statement  BY <2>4 DEF Asks
  <2>7. main' = Append(main, m)  BY <1>0, <2>5, <2>6, AppendIsConcat
  <2> QED  BY <2>4, <2>7
<1> QED  BY <1>1, <1>2

(* No packet and no timer asks for the items of a safebox.                 *)
LEMMA MainGrows ==
    ASSUME TypeOK, DbPacket \/ DbTimer \/ Shutdown \/ AsyncExecutes
    PROVE  Grown
<1>0. main \in Seq(Statement)  BY DEF TypeOK, SqlOK
<1>1. CASE DbTimer \/ Shutdown \/ AsyncExecutes
  <2>1. main' = main \/ Flush \/ Enqueue(FlushQuery(cache)) \/ \E p : FlushItemCacheSet(p)
    BY <1>1 DEF DbTimer, UpdateItemCache, UpdatePlayerCache, UpdateLogoutPlayer, Shutdown, AsyncExecutes
  <2> QED  BY <2>1, CacheWrites DEF Enqueue, Grown
<1>2. CASE QUERY_ITEM_FLUSH \/ QUERY_PLAYER_SAVE \/ QUERY_LOGOUT \/ QUERY_FLUSH_CACHE
  <2>1. main' = main \/ Flush \/ \E p : FlushItemCacheSet(p)
    BY <1>2 DEF QUERY_ITEM_FLUSH, QUERY_PLAYER_SAVE, QUERY_LOGOUT, QUERY_FLUSH_CACHE, sql
  <2> QED  BY <2>1, CacheWrites DEF Grown
<1>3. CASE QUERY_ITEM_SAVE
  <2> DEFINE x == Head(toDb).x
  <2>1. Packet("ITEM_SAVE") /\ (Enqueue(<<Write(x)>>) \/ PutItemCache(x, FALSE, set))
    BY <1>3 DEF QUERY_ITEM_SAVE
  <2>2. x \in Data  BY <2>1, HeadOfToDb DEF Request
  <2> HIDE DEF x
  <2>3. <<Write(x)>> \in Writes /\ FALSE \in BOOLEAN  BY <2>2 DEF Writes, Saved
  <2> QED  BY <2>1, <2>2, <2>3, CacheWrites DEF Enqueue, Grown
<1>4. CASE QUERY_ITEM_DESTROY
  <2>1. Enqueue(<<>>) \/ Enqueue(<<Write(NoItem)>>) \/ main' = main
    BY <1>4 DEF QUERY_ITEM_DESTROY
  <2>2. <<Write(NoItem)>> \in Writes /\ <<>> \in Writes  BY DEF Writes, Saved
  <2> QED  BY <2>1, <2>2, CacheWrites DEF Enqueue, Grown
<1>5. CASE QUERY_PLAYER_LOAD \/ QUERY_SAFEBOX_LOAD
  BY <1>5, AsksGrow, CacheWrites DEF Grown
<1> QED  BY <1>1, <1>2, <1>3, <1>4, <1>5 DEF DbPacket

(* What is queued so does not touch a safebox under way.                   *)
LEMMA BoxGrown ==
    ASSUME TypeOK, Grown, NEW z, BoxView(main, row, z)
    PROVE  BoxView(main', row, z)
<1>1. \A m \in Asks : m \in Statement /\ Plain(m)  BY DEF Asks, Plain
<1> QED  BY <1>1, BoxPlain DEF Grown

(* Every packet keeps what a safebox under way will bring.                 *)
LEMMA BoxPacket ==
    ASSUME TypeOK, Claimed, Held, Packed, DbPacket, BoxViews, BoxAnswered
    PROVE  BoxViews' /\ BoxAnswered'
<1>1. Grown  BY MainGrows
<1>2. UNCHANGED <<game, results, row>>
  BY DEF DbPacket, QUERY_ITEM_SAVE, QUERY_ITEM_DESTROY, QUERY_ITEM_FLUSH, QUERY_PLAYER_LOAD,
         QUERY_PLAYER_SAVE, QUERY_LOGOUT, QUERY_SAFEBOX_LOAD, QUERY_FLUSH_CACHE, sql
<1>3. BoxAnswer(results, saved)  BY BoxNow
<1>4. async' = 0 => async = 0
  <2>1. async \in Nat  BY DEF TypeOK, SqlOK
  <2>2. async' = async \/ async' = async + 1
    BY DEF DbPacket, QUERY_ITEM_SAVE, QUERY_ITEM_DESTROY, QUERY_ITEM_FLUSH, QUERY_PLAYER_LOAD,
           QUERY_PLAYER_SAVE, QUERY_LOGOUT, QUERY_SAFEBOX_LOAD, QUERY_FLUSH_CACHE, sql
  <2> QED  BY <2>1, <2>2
<1>5. /\ async = 0 => BoxView(main, row, saved')
      /\ BoxAnswer(results, saved')
  <2>1. CASE QUERY_ITEM_SAVE \/ QUERY_ITEM_DESTROY
    <3> DEFINE h == Head(toDb)
    <3>1. /\ toDb # <<>> /\ h.op \in ItemOps /\ saved' = h.x
          /\ h.op = "ITEM_DESTROY" => h.x = NoItem
      <4>1. CASE QUERY_ITEM_SAVE
        BY <4>1 DEF QUERY_ITEM_SAVE, Packet, Saving, ItemOps
      <4>2. CASE QUERY_ITEM_DESTROY
        <5>1. toDb # <<>> /\ h.op = "ITEM_DESTROY" /\ saved' = NoItem
          BY <4>2 DEF QUERY_ITEM_DESTROY, Packet, Saving
        <5>2. 1 \in DOMAIN toDb /\ toDb[1] = h  BY <5>1, Queues4, TailIs
        <5>3. h.x = NoItem  BY <5>1, <5>2 DEF Packed, Destroys
        <5> QED  BY <5>1, <5>3 DEF ItemOps
      <4> QED  BY <2>1, <4>1, <4>2
    <3> HIDE DEF h
    <3> QED  BY <1>3, <3>1, BoxSaved DEF h, BoxViews
  <2>2. CASE ~QUERY_ITEM_SAVE /\ ~QUERY_ITEM_DESTROY
    <3>1. saved' = saved
      BY <2>2 DEF DbPacket, QUERY_ITEM_FLUSH, QUERY_PLAYER_LOAD,
             QUERY_PLAYER_SAVE, QUERY_LOGOUT, QUERY_SAFEBOX_LOAD, QUERY_FLUSH_CACHE, hist
    <3> QED  BY <1>3, <3>1 DEF BoxViews
  <2> QED  BY <2>1, <2>2
<1>6. async = 0 => BoxView(main', row, saved')
  BY <1>1, <1>5, BoxGrown
<1>7. (async' = 0 => BoxView(main', row', saved')) /\ BoxAnswer(results', saved')
  BY <1>2, <1>4, <1>5, <1>6
<1> QED  BY <1>2, <1>7, BoxThen

(* So does every timer, and the connection that does not answer.           *)
LEMMA BoxTimer ==
    ASSUME TypeOK, Kept, DbTimer \/ Shutdown \/ AsyncExecutes, excuses' = {}, BoxViews, BoxAnswered
    PROVE  BoxViews' /\ BoxAnswered'
<1>1. Grown  BY MainGrows
<1>2. UNCHANGED <<game, results, saved>>
  BY DEF DbTimer, UpdateItemCache, UpdatePlayerCache, UpdateLogoutPlayer, Shutdown, AsyncExecutes, hist
<1>3. BoxAnswer(results', saved')  BY <1>2, BoxNow
<1>4. CASE UNCHANGED <<row, async>>
  <2>1. async = 0 => BoxView(main', row, saved)  BY <1>1, BoxGrown DEF BoxViews
  <2> QED  BY <1>2, <1>3, <1>4, <2>1, BoxThen
<1>5. CASE AsyncExecutes
  <2>1. /\ main' = main /\ row' = NoItem /\ async > 0
        /\ \A q \in ToSet(main) : q.op # "REPLACE"
    BY <1>5 DEF AsyncExecutes
  <2>2. \A k \in DOMAIN main : main[k].op # "REPLACE"  BY <2>1 DEF ToSet
  <2>3. Store(cache, main, async, row, saved, results)  BY DEF Kept
  <2>4. \A i \in DOMAIN main : main[i].op \in WriteOp => main[i].x = NoItem
    BY <2>2, <2>3 DEF Store, WellWritten, WriteOp
  <2>5. \A k, v : Says(main, WriteOp, NoItem, k, v) => v = NoItem
    BY <2>4, SaysSame
  <2>6. saved.win # "box"
    <3>1. CASE ~cache.dirty
      BY <2>1, <2>2, <2>3, <3>1 DEF Store, NoItem
    <3>2. CASE cache.dirty
      BY <2>3, <3>2 DEF Store, Cached, InInv, NoItem
    <3> QED  BY <3>1, <3>2
  <2>7. \A p : Matches(NoItem, p, "box") = NoItem /\ Matches(saved, p, "box") = NoItem
    BY <2>6 DEF Matches
  <2>8. BoxView(main, NoItem, saved)
    BY <2>5, <2>7 DEF BoxView
  <2> QED  BY <1>2, <1>3, <2>1, <2>8, BoxThen
<1>6. UNCHANGED <<row, async>> \/ AsyncExecutes
  BY DEF DbTimer, UpdateItemCache, UpdatePlayerCache, UpdateLogoutPlayer, Shutdown
<1> QED  BY <1>4, <1>5, <1>6

(* The main connection executes a statement.                               *)
LEMMA MainHead ==
    ASSUME TypeOK, MainExecutes, excuses' = {}
    PROVE  /\ main # <<>> /\ main' = Tail(main) /\ async = 0 /\ async' = 0
           /\ row' = IF Head(main).op \in WriteOp THEN Head(main).x ELSE row
           /\ \/ results' = results
              \/ /\ Head(main).op \in QueryOp /\ row' = row
                 /\ results' = Append(results, Selected(Head(main)))
                 /\ Selected(Head(main)) \in SqlAnswer
                 /\ Selected(Head(main)).op = Head(main).op /\ Selected(Head(main)).p = Head(main).p
                 /\ Selected(Head(main)).s = Head(main).s
                 /\ Head(main).op = "SAFEBOX_ITEM" =>
                        Selected(Head(main)).x = Matches(row, Head(main).p, "box")
           /\ UNCHANGED <<game, toDb, saved, cache>>
<1> DEFINE h == Head(main)
           m == Selected(h)
<1>1. async = 0
  <2>1. async \in Nat  BY DEF TypeOK, SqlOK
  <2>2. ~(async > 0)  BY DEF MainExecutes
  <2> QED  BY <2>1, <2>2
<1>2. /\ main # <<>> /\ main' = Tail(main) /\ async' = async
      /\ IF h.op \in WriteOp THEN row' = h.x /\ results' = results
         ELSE row' = row /\ results' = Append(results, m)
      /\ UNCHANGED <<game, toDb, saved, cache>>
  BY DEF MainExecutes, WriteOp, dbVars
<1>3. ASSUME h.op \notin WriteOp
      PROVE  /\ h.op \in QueryOp /\ m \in SqlAnswer /\ m.op = h.op /\ m.p = h.p /\ m.s = h.s
             /\ h.op = "SAFEBOX_ITEM" => m.x = Matches(row, h.p, "box")
  <2>1. h \in Statement /\ row \in Saved /\ h.op \in QueryOp /\ h.p \in Pids
    BY <1>2, <1>3, Elements4 DEF TypeOK, SqlOK, Saved, Statement, Message
  <2>2. /\ m.op = h.op /\ m.p = h.p /\ m.s = h.s
        /\ h.op = "SAFEBOX_ITEM" => m.x = Matches(row, h.p, "box")
    BY <2>1 DEF Selected, Statement, Message
  <2>3. m \in SqlAnswer
    BY <2>1 DEF Selected, Statement, SqlAnswer, Message, Matches, Saved
  <2> QED  BY <2>1, <2>2, <2>3
<1> HIDE DEF h, m
<1> QED  BY <1>1, <1>2, <1>3 DEF h, m

(* So does every statement of the main connection.                         *)
LEMMA BoxMain ==
    ASSUME TypeOK, MainExecutes, excuses' = {}, BoxViews, BoxAnswered
    PROVE  BoxViews' /\ BoxAnswered'
<1> DEFINE h == Head(main)
           m == Selected(h)
<1>1. /\ main # <<>> /\ main' = Tail(main) /\ async = 0 /\ async' = 0
      /\ row' = IF h.op \in WriteOp THEN h.x ELSE row
      /\ UNCHANGED <<game, saved>>
  BY MainHead
<1>2. BoxView(main, row, saved) /\ BoxAnswer(results, saved)
  BY <1>1, BoxNow DEF BoxViews
<1>3. main \in Seq(Statement) /\ results \in Seq(SqlAnswer) /\ row \in Saved
  BY DEF TypeOK, SqlOK, Saved
<1>4. BoxView(Tail(main), row', saved)
  BY <1>1, <1>2, <1>3, BoxViewTail
<1>5. BoxAnswer(results', saved)
  <2>1. \/ results' = results
        \/ /\ results' = Append(results, m) /\ m \in SqlAnswer
           /\ m.op = h.op /\ m.p = h.p /\ m.s = h.s
           /\ h.op = "SAFEBOX_ITEM" => m.x = Matches(row, h.p, "box")
    BY MainHead
  <2>2. CASE results' = results  BY <1>2, <2>2
  <2>3. CASE /\ results' = Append(results, m) /\ m \in SqlAnswer
             /\ m.op = h.op /\ m.p = h.p /\ m.s = h.s
             /\ h.op = "SAFEBOX_ITEM" => m.x = Matches(row, h.p, "box")
    <3>1. 1 \in DOMAIN main /\ main[1] = h /\ DOMAIN main = 1..Len(main)
      BY <1>1, <1>3, TailIs
    <3>2. Says(main, WriteOp, row, 1, row)
      <4>1. \A i \in DOMAIN main : ~(i < 1)  BY <3>1
      <4> QED  BY <4>1 DEF Says
    <3> HIDE DEF m, h
    <3>3. ASSUME NEW p \in Pids, BoxSelect(m, p) PROVE m.x = Matches(saved, p, "box")
      <4>1. BoxSelect(h, p) /\ h.op = "SAFEBOX_ITEM" /\ h.p = p
        BY <2>3, <3>3 DEF BoxSelect, Cur
      <4>2. Matches(row, p, "box") = Matches(saved, p, "box")
        BY <1>2, <1>3, <3>1, <3>2, <4>1 DEF BoxView
      <4> QED  BY <2>3, <4>1, <4>2
    <3> QED  BY <1>2, <1>3, <2>3, <3>3, BoxAnswerMoves
  <2> QED  BY <2>1, <2>2, <2>3
<1>6. (async' = 0 => BoxView(main', row', saved')) /\ BoxAnswer(results', saved')
  BY <1>1, <1>4, <1>5
<1> QED  BY <1>1, <1>6, BoxThen

-----------------------------------------------------------------------------
(* Unwritten data that takes the item out of a safebox.                    *)

(* So does every answer of SQL: the SELECT that RESULT_SAFEBOX_LOAD queues *)
(* finds the last save, for unwritten data did not come out of that        *)
(* safebox.                                                                *)
LEMMA BoxResult ==
    ASSUME TypeOK, Kept, FlushNow, DbResult, BoxViews, BoxAnswered
    PROVE  BoxViews' /\ BoxAnswered'
<1> DEFINE h == Head(results)
           m == [h EXCEPT !.op = "SAFEBOX_ITEM"]
<1>1. /\ results # <<>> /\ results' = Tail(results) /\ UNCHANGED <<game, toDb, saved, async, row>>
  BY DEF DbResult, ResultWithoutPeer, RESULT_PLAYER_LOAD, RESULT_ITEM_LOAD, RESULT_SAFEBOX_LOAD,
         Result, PopResult, hist
<1>2. main \in Seq(Statement) /\ results \in Seq(SqlAnswer) /\ main \in Seq(Message4)
  BY Queues4 DEF TypeOK, SqlOK
<1>3. BoxAnswer(results', saved')
  BY <1>1, <1>2, BoxNow, BoxAnswerMoves
<1>4. /\ h \in SqlAnswer /\ h \in Message(QueryOp) /\ h.p \in Pids /\ h.x \in Saved /\ h \in Message4
      /\ h \in ToSet(results)
  BY <1>1, <1>2, Elements4, ToSetIs DEF SqlAnswer, Message, Saved
<1>5. CASE Grown
  BY <1>1, <1>3, <1>5, BoxGrown, BoxThen DEF BoxViews
<1>6. CASE h.op = "SAFEBOX" /\ main' = main \o <<m>> /\ h.s # 0
  <2>1. m \in Statement /\ m.p = h.p /\ m.s = h.s
    BY <1>4 DEF Statement, Message, QueryOp
  <2>2. ASSUME async = 0, NEW p \in Pids, BoxSelect(m, p),
               NEW v \in Saved, Says(main, WriteOp, row, Len(main) + 1, v)
        PROVE  Matches(v, p, "box") = Matches(saved, p, "box")
    <3>1. Store(cache, main, async, row, saved, results)  BY DEF Kept
    <3>2. CASE ~cache.dirty
      <4>1. v = saved  BY <2>2, <3>1, <3>2 DEF Store, Ends
      <4> QED  BY <4>1
    <3>3. CASE cache.dirty
      <4>1. saved.win # "box"  BY <3>1, <3>3 DEF Store, Cached, InInv, NoItem
      <4>2. h \in Tokens(p, "box")
        BY <1>4, <1>6, <2>1, <2>2 DEF BoxSelect, Cur, Tokens, TokenOp
      <4>3. Has(results, Tokens(p, "box"))
        BY <1>4, <4>2 DEF Has, ToSet
      <4>4. ~Of(v, p, "box")
        BY <2>2, <3>3, <4>3 DEF FlushNow, BoxLast, Ready, Of
      <4> QED  BY <4>1, <4>4 DEF Matches, Of
    <3> QED  BY <3>2, <3>3
  <2> HIDE DEF m
  <2>3. main' = Append(main, m)  BY <1>2, <1>6, <2>1, AppendIsConcat
  <2>4. async = 0 => BoxView(main', row, saved)
    BY <1>2, <2>1, <2>2, <2>3, BoxViewAppend DEF BoxViews
  <2> QED  BY <1>1, <1>3, <2>4, BoxThen
<1>7. Grown \/ (h.op = "SAFEBOX" /\ main' = main \o <<m>> /\ h.s # 0)
  <2>1. CASE ResultWithoutPeer \/ RESULT_PLAYER_LOAD
    <3>1. main' = main  BY <2>1 DEF ResultWithoutPeer, RESULT_PLAYER_LOAD
    <3> QED  BY <3>1, CacheWrites DEF Grown
  <2>2. CASE RESULT_ITEM_LOAD
    <3>1. CASE h.x = NoItem
      <4>1. main' = main  BY <2>2, <3>1 DEF RESULT_ITEM_LOAD
      <4> QED  BY <4>1, CacheWrites DEF Grown
    <3>2. CASE h.x # NoItem
      <4>1. \E s : PutItemCache(h.x, TRUE, s)  BY <2>2, <3>2 DEF RESULT_ITEM_LOAD
      <4>2. h.x \in Data  BY <1>4, <3>2 DEF Saved
      <4> HIDE DEF h
      <4> QED  BY <4>1, <4>2, CacheWrites DEF Grown
    <3> QED  BY <3>1, <3>2
  <2>3. CASE RESULT_SAFEBOX_LOAD
    <3>1. main' = main \/ (h.op = "SAFEBOX" /\ main' = main \o <<m>> /\ h.s # 0)
      BY <2>3 DEF RESULT_SAFEBOX_LOAD, Enqueue
    <3> HIDE DEF m, h
    <3> QED  BY <3>1, CacheWrites DEF Grown
  <2> QED  BY <2>1, <2>2, <2>3 DEF DbResult
<1> QED  BY <1>5, <1>6, <1>7

(* The game only adds to what the db will read.                            *)
LEMMA GameSends ==
    ASSUME TypeOK, GameItem \/ ItemManagerUpdate \/ GameSession \/ GameAnswer
    PROVE  toDb' = toDb \/ \E r \in Seq(Request) : Send(r)
<1>1. /\ toDb \in Seq(Request) /\ item \in ItemState /\ sess \in [Pids -> Nat \ {0}] /\ GameOK
      /\ <<>> \in Seq(Request)
  BY Sequences1 DEF TypeOK, GameOK
<1>2. CASE GameItem \/ ItemManagerUpdate
  <2>1. TypeOK'  BY <1>2, TypeGameItem
  <2>2. item' \in ItemState  BY <2>1 DEF TypeOK, GameOK
  <2> DEFINE flush == M("ITEM_FLUSH", Nobody, 0, NoItem)
             gone == M("ITEM_DESTROY", item.last, 0, NoItem)
  <2>3. \/ UNCHANGED toDb
        \/ Send(SaveSingleItem(item')) \/ Send(SaveSingleItem(item))
        \/ Send(<<gone>>) \/ Send(SaveSingleItem(item') \o <<flush>>)
    <3>1. CASE GameItem
      BY <3>1 DEF GameItem, CreateItem, ModifyItem, DropItem, DestroyItem, SafeboxCheckin,
         SafeboxCheckout, PickupItem, ExchangeItem, Change, ChangeAndFlush
    <3>2. CASE ItemManagerUpdate  BY <3>2 DEF ItemManagerUpdate
    <3> QED  BY <1>2, <3>1, <3>2
  <2>4. gone \in Request /\ flush \in Request
    <3>1. item.last \in Pids \cup {Nobody}  BY <1>1 DEF ItemState
    <3> QED  BY <3>1 DEF M, Message, Request, RequestOp
  <2> HIDE DEF gone, flush
  <2>5. <<gone>> \in Seq(Request) /\ <<flush>> \in Seq(Request)  BY <2>4, Sequences1
  <2>6. \A i \in ItemState : SaveSingleItem(i) \in Seq(Request)  BY SaveSingleItemType
  <2>7. SaveSingleItem(item') \o <<flush>> \in Seq(Request)
    BY <2>2, <2>5, <2>6, ConcatProperties
  <2> QED  BY <1>1, <2>2, <2>3, <2>5, <2>6, <2>7
<1>3. CASE GameSession
  <2> PICK p \in Pids : \/ CharacterSelect(p) \/ SavePlayer(p) \/ Disconnect(p)
                        \/ ReqSafeboxLoad(p) \/ CloseSafebox(p) \/ FlushCommand(p)
    BY <1>3 DEF GameSession
  <2>1. \A op \in RequestOp \ {"ITEM_SAVE"} : \A s \in Nat : <<M(op, p, s, NoItem)>> \in Seq(Request)
    BY RequestType, Sequences1
  <2>2. PendingOf(p) \in Seq(Request)  BY <1>1, PendingOfType
  <2>3. CASE CharacterSelect(p)
    <3>1. TypeOK'  BY <1>3, TypeGameSession
    <3>2. sess'[p] \in Nat  BY <3>1 DEF TypeOK, GameOK
    <3> QED  BY <2>1, <2>3, <3>2 DEF CharacterSelect, RequestOp
  <2>4. CASE SavePlayer(p)  BY <2>1, <2>4 DEF SavePlayer, RequestOp
  <2>5. CASE ReqSafeboxLoad(p)  BY <1>1, <2>1, <2>5 DEF ReqSafeboxLoad, RequestOp
  <2>6. CASE FlushCommand(p)  BY <2>1, <2>6 DEF FlushCommand, RequestOp
  <2>7. CASE CloseSafebox(p)  BY <2>2, <2>7 DEF CloseSafebox
  <2>8. CASE Disconnect(p)
    <3> DEFINE save == IF InGame(p) THEN <<M("PLAYER_SAVE", p, 0, NoItem)>> ELSE <<>>
               bye == <<M("LOGOUT", p, 0, NoItem)>>
    <3>1. save \in Seq(Request) /\ bye \in Seq(Request)
      BY <1>1, <2>1 DEF RequestOp
    <3>2. Send(save \o PendingOf(p) \o bye)  BY <2>8 DEF Disconnect
    <3> HIDE DEF save, bye
    <3>3. (save \o PendingOf(p)) \o bye \in Seq(Request)
      BY <2>2, <3>1, ConcatProperties
    <3> QED  BY <3>2, <3>3
  <2> QED  BY <2>3, <2>4, <2>5, <2>6, <2>7, <2>8
<1>4. CASE GameAnswer
  BY <1>4 DEF GameAnswer, AnswerIgnored, PlayerLoad, ItemLoad,
         SafeboxLoad, SafeboxWrongPassword
<1> QED  BY <1>2, <1>3, <1>4

(* The game leaves SQL alone, and what the db reads next; what is under    *)
(* way is for nobody new.                                                  *)
LEMMA GameQuiet ==
    ASSUME TypeOK, Numbered, GameItem \/ ItemManagerUpdate \/ GameSession \/ GameAnswer
    PROVE  /\ UNCHANGED <<main, results, row, async, cache, saved>>
           /\ toDb # <<>> => toDb' # <<>> /\ Head(toDb') = Head(toDb)
           /\ \A q \in Pids, m \in ToSet(main) \cup ToSet(results) : Cur(m, q)' => Cur(m, q)
<1>1. UNCHANGED <<main, results, row, async, cache, saved>>
  <2>1. UNCHANGED sql /\ UNCHANGED dbVars /\ UNCHANGED hist
    BY DEF GameItem, CreateItem, ModifyItem, DropItem, DestroyItem, SafeboxCheckin,
         SafeboxCheckout, PickupItem, ExchangeItem, ItemOp, ItemManagerUpdate,
         GameSession, CharacterSelect, SavePlayer, Disconnect, ReqSafeboxLoad,
         CloseSafebox, FlushCommand, GameAnswer, AnswerIgnored, PlayerLoad, ItemLoad,
         SafeboxLoad, SafeboxWrongPassword
  <2> QED  BY <2>1 DEF sql, dbVars, hist
<1>2. ASSUME toDb # <<>> PROVE toDb' # <<>> /\ Head(toDb') = Head(toDb)
  <2>1. toDb \in Seq(Request)  BY DEF TypeOK
  <2>2. CASE toDb' = toDb  BY <1>2, <2>2
  <2>3. ASSUME NEW r \in Seq(Request), toDb' = toDb \o r
        PROVE  toDb' # <<>> /\ Head(toDb') = Head(toDb)
    <3>1. /\ toDb \o r \in Seq(Request) /\ Len(toDb \o r) = Len(toDb) + Len(r)
          /\ \A i \in 1..Len(toDb) : (toDb \o r)[i] = toDb[i]
          /\ Len(toDb) \in Nat /\ Len(r) \in Nat
      BY <2>1, ConcatProperties, LenProperties
    <3>2. Len(toDb) >= 1 /\ Head(toDb) = toDb[1]  BY <1>2, <2>1, TailIs
    <3>3. toDb \o r # <<>>  BY <3>1, <3>2, EmptySeq
    <3>4. Head(toDb \o r) = (toDb \o r)[1]  BY <3>1, <3>3, TailIs
    <3>5. (toDb \o r)[1] = toDb[1]  BY <3>1, <3>2
    <3> QED  BY <2>3, <3>2, <3>3, <3>4, <3>5
  <2> QED  BY <2>2, <2>3, GameSends DEF Send
<1>3. ASSUME NEW q \in Pids, NEW m \in ToSet(main) \cup ToSet(results), Cur(m, q)' PROVE Cur(m, q)
  <2>1. m.p = q /\ m.s = sess'[q] /\ st'[q] # "off"  BY <1>3 DEF Cur
  <2>2. /\ st \in [Pids -> {"off", "asked", "loading", "play"}]
        /\ sess \in [Pids -> Nat \ {0}] /\ nSess \in Nat
    BY DEF TypeOK, GameOK
  <2> DEFINE same == sess'[q] = sess[q] /\ (st'[q] # "off" => st[q] # "off")
  <2>3. same \/ CharacterSelect(q)
    <3>1. CASE GameItem \/ ItemManagerUpdate
      BY <3>1 DEF GameItem, CreateItem, ModifyItem, DropItem, DestroyItem, SafeboxCheckin,
         SafeboxCheckout, PickupItem, ExchangeItem, ItemOp, ItemManagerUpdate
    <3>2. ASSUME NEW p \in Pids, CharacterSelect(p) PROVE same \/ CharacterSelect(q)
      BY <2>2, <3>2 DEF CharacterSelect
    <3>3. ASSUME NEW p \in Pids, SavePlayer(p) \/ Disconnect(p)
                        \/ ReqSafeboxLoad(p) \/ CloseSafebox(p) \/ FlushCommand(p) PROVE same \/ CharacterSelect(q)
      BY <2>2, <3>3 DEF SavePlayer, Disconnect, ReqSafeboxLoad, CloseSafebox, FlushCommand, game
    <3>4. CASE GameAnswer
      BY <2>2, <3>4 DEF GameAnswer, AnswerIgnored, PlayerLoad, ItemLoad,
         SafeboxLoad, SafeboxWrongPassword, game
    <3> QED  BY <3>1, <3>2, <3>3, <3>4 DEF GameSession
  <2>4. CASE CharacterSelect(q)
    <3>1. sess'[q] = NPlayers + nSess + 1  BY <2>2, <2>4 DEF CharacterSelect
    <3>2. m.s <= NPlayers + nSess
      BY DEF Numbered, Bounded, ToSet
    <3>3. NPlayers \in Nat  BY ItemAssumption
    <3> QED  BY <2>1, <2>2, <3>1, <3>2, <3>3
  <2> QED  BY <2>1, <2>3, <2>4 DEF Cur
<1> QED  BY <1>1, <1>2, <1>3

(* Nothing moves but what a load needs.                                    *)
LEMMA ReadyStays ==
    ASSUME TypeOK, FlushNow, cache' = cache, async' = 0 => async = 0,
           toDb # <<>> => toDb' # <<>> /\ Head(toDb') = Head(toDb),
           \A v \in Saved : BoxLast(v)' => BoxLast(v),
           \A p \in Pids : Has(main', Tokens(p, "box")') \/ Has(results', Tokens(p, "box")')
                => Has(main, Tokens(p, "box")) \/ Has(results, Tokens(p, "box"))
    PROVE  FlushNow'
<1> SUFFICES ASSUME cache'.dirty, async' = 0, NEW v \in Saved, BoxLast(v)'
             PROVE  Ready(v.owner)'
  BY DEF FlushNow
<1>1. BoxLast(v) /\ Ready(v.owner)  BY DEF FlushNow
<1>2. v.owner \in Pids  BY <1>1 DEF BoxLast, Saved, Data, NoItem
<1> DEFINE p == v.owner
           A == Tokens(p, "box")
           B == Tokens(p, "box")'
<1>3. /\ Has(main', B) \/ Has(results', B) => Has(main, A) \/ Has(results, A)
      /\ toDb # <<>> /\ Head(toDb).op = "ITEM_FLUSH" /\ ~Has(main, A) /\ ~Has(results, A)
  BY <1>1, <1>2 DEF Ready
<1> HIDE DEF A, B
<1>4. toDb' # <<>> /\ Head(toDb').op = "ITEM_FLUSH" /\ ~Has(main', B) /\ ~Has(results', B)
  BY <1>3
<1> QED  BY <1>4 DEF Ready, B

(* The item, out of a safebox, is what the db reads before its flush.      *)
LEMMA FlushSave ==
    ASSUME TypeOK, Kept, Claimed, Packed, FlushNow, QUERY_ITEM_SAVE
    PROVE  FlushNow'
<1> DEFINE h == Head(toDb)
<1> SUFFICES ASSUME cache'.dirty, async' = 0, NEW v \in Saved, BoxLast(v)'
             PROVE  Ready(v.owner)'
  BY DEF FlushNow
<1>1. Packet("ITEM_SAVE") /\ toDb' = Tail(toDb) /\ UNCHANGED <<game, async, results, row>>
  BY DEF QUERY_ITEM_SAVE, Consume
<1>2. h \in Request /\ h.op = "ITEM_SAVE"  BY <1>1, HeadOfToDb
<1>3. h.x \in Data  BY <1>2 DEF Request
<1>4. toDb # <<>> /\ toDb \in Seq(Request) /\ main \in Seq(Statement)
  BY <1>1 DEF Packet, TypeOK, SqlOK
<1>5. h.x.win = "inv" /\ main' = main
  <2> DEFINE x == h.x
  <2>1. x.win = "box" => cache' = NoCache
    BY DEF QUERY_ITEM_SAVE
  <2>2. x.win # "box"  BY <2>1 DEF NoCache
  <2>3. PutItemCache(x, FALSE, set)
    BY <2>2 DEF QUERY_ITEM_SAVE
  <2>4. main' = main \o <<>>
    <3> HIDE DEF x
    <3>1. ~cache'.dirty \/ Enqueue(<<>>)
      BY <2>3 DEF PutItemCache, CacheState
    <3> QED  BY <3>1 DEF Enqueue
  <2>5. main \o <<>> = main  BY <1>4
  <2> QED  BY <1>3, <2>2, <2>4, <2>5 DEF Data
<1> HIDE DEF h
<1>6. BoxLast(v) /\ v.win = "box"  BY <1>1, <1>5 DEF BoxLast
<1>7. v.owner \in Pids  BY <1>6 DEF Saved, Data, NoItem
<1>8. v = saved /\ saved \in Saved
  <2>1. ~cache.dirty
    BY <1>1, <1>2, <1>6 DEF FlushNow, Ready, h
  <2>2. Store(cache, main, async, row, saved, results)  BY DEF Kept
  <2>3. Ends(main, row, saved)  BY <1>1, <2>1, <2>2 DEF Store
  <2> QED  BY <1>6, <2>3 DEF Ends, BoxLast
<1>9. toDb' # <<>> /\ Head(toDb').op = "ITEM_FLUSH"
  <2>1. /\ 1 \in DOMAIN toDb /\ toDb[1] = h /\ DOMAIN toDb = 1..Len(toDb) /\ Len(toDb) \in Nat
        /\ Tail(toDb) \in Seq(Request)
        /\ DOMAIN Tail(toDb) = 1..(Len(toDb) - 1)
        /\ \A i \in 1..(Len(toDb) - 1) : Tail(toDb)[i] = toDb[i + 1]
    BY <1>4, TailIs DEF h
  <2>2. Says(toDb, ItemOps, saved, 1, saved)
    <3>1. \A i \in DOMAIN toDb : ~(i < 1)  BY <2>1
    <3> QED  BY <3>1 DEF Says
  <2>3. TakesOut(toDb, saved, 1)
    BY <1>2, <1>5, <1>6, <1>8, <2>1, <2>2 DEF TakesOut
  <2>4. 2 \in DOMAIN toDb /\ toDb[2].op = "ITEM_FLUSH"
    BY <2>1, <2>3 DEF Packed, FlushNext
  <2>5. 1 \in DOMAIN Tail(toDb) /\ Tail(toDb)[1] = toDb[2]
    BY <2>1, <2>4
  <2>6. Tail(toDb) # <<>>
    <3>1. Len(Tail(toDb)) = Len(toDb) - 1 /\ Len(toDb) >= 2
      BY <1>4, <2>1, <2>4, HeadTailProperties
    <3>2. Len(<<>>) = 0  BY EmptySeq
    <3> QED  BY <2>1, <3>1, <3>2
  <2>7. Head(Tail(toDb)) = Tail(toDb)[1]  BY <2>1, <2>6, TailIs
  <2> QED  BY <1>1, <2>4, <2>5, <2>6, <2>7
<1>10. ~Has(main, Tokens(v.owner, "box")) /\ ~Has(results, Tokens(v.owner, "box"))
  <2>1. Of(saved, v.owner, "box")  BY <1>6, <1>8 DEF Of
  <2>2. h.op \in ItemOps /\ h.op # "ITEM_DESTROY"  BY <1>2 DEF ItemOps
  <2> QED  BY <1>4, <1>7, <2>1, <2>2, BoxUnsaved DEF h
<1>11. Tokens(v.owner, "box")' = Tokens(v.owner, "box")
  BY <1>1 DEF Tokens, game
<1> QED  BY <1>1, <1>5, <1>9, <1>10, <1>11 DEF Ready

(* Any other packet: unwritten data stays only where nothing is written.   *)
LEMMA FlushPacket ==
    ASSUME TypeOK, CacheSets, FlushNow, DbPacket, ~QUERY_ITEM_SAVE
    PROVE  FlushNow'
<1> SUFFICES ASSUME cache'.dirty, async' = 0, NEW v \in Saved, BoxLast(v)'
             PROVE  FALSE
  BY DEF FlushNow
<1>1. /\ up /\ row' = row /\ async \in Nat /\ main \in Seq(Statement)
      /\ async' = async \/ async' = async + 1
  BY DEF TypeOK, SqlOK, DbPacket, QUERY_ITEM_SAVE, QUERY_ITEM_DESTROY, QUERY_ITEM_FLUSH, QUERY_PLAYER_LOAD,
         QUERY_PLAYER_SAVE, QUERY_LOGOUT, QUERY_SAFEBOX_LOAD, QUERY_FLUSH_CACHE, Packet, sql
<1>2. async = 0  BY <1>1
<1>3. cache.dirty => cache.in
  BY <1>1 DEF CacheSets, Consistent
<1>4. cache' = cache /\ ~QUERY_ITEM_FLUSH
  <2>1. cache' = cache \/ cache' = NoCache \/ ~cache'.dirty
    <3>0. cache \in CacheState  BY DEF TypeOK, DbOK
    <3>1. CASE QUERY_ITEM_DESTROY
      BY <3>0, <3>1 DEF QUERY_ITEM_DESTROY, CacheState
    <3>2. CASE QUERY_ITEM_FLUSH
      BY <3>0, <3>2 DEF QUERY_ITEM_FLUSH, Flush, CacheState
    <3>3. CASE QUERY_FLUSH_CACHE
      BY <3>3 DEF QUERY_FLUSH_CACHE, FlushItemCacheSet
    <3>4. CASE QUERY_PLAYER_LOAD \/ QUERY_PLAYER_SAVE \/ QUERY_LOGOUT \/ QUERY_SAFEBOX_LOAD
      BY <3>4 DEF QUERY_PLAYER_LOAD, QUERY_PLAYER_SAVE, QUERY_LOGOUT, QUERY_SAFEBOX_LOAD, dbVars
    <3> QED  BY <3>1, <3>2, <3>3, <3>4 DEF DbPacket
  <2>2. cache' = cache  BY <2>1 DEF NoCache
  <2>3. ASSUME QUERY_ITEM_FLUSH PROVE FALSE
    <3>1. Flush  BY <1>3, <2>2, <2>3 DEF QUERY_ITEM_FLUSH
    <3>2. cache \in CacheState  BY DEF TypeOK, DbOK
    <3> QED  BY <3>1, <3>2 DEF Flush, CacheState
  <2> QED  BY <2>2, <2>3
<1>5. cache.dirty  BY <1>4
<1>6. ~QUERY_ITEM_DESTROY
  <2>1. ASSUME QUERY_ITEM_DESTROY PROVE FALSE
    <3>1. cache' = [cache EXCEPT !.dead = TRUE, !.dirty = FALSE]
      BY <1>3, <1>5, <2>1 DEF QUERY_ITEM_DESTROY
    <3>2. cache \in CacheState  BY DEF TypeOK, DbOK
    <3> QED  BY <3>1, <3>2 DEF CacheState
  <2> QED  BY <2>1
<1>7. toDb # <<>> /\ Head(toDb).op # "ITEM_FLUSH"
  BY <1>4, <1>6 DEF DbPacket, QUERY_PLAYER_LOAD, QUERY_PLAYER_SAVE, QUERY_LOGOUT,
                    QUERY_SAFEBOX_LOAD, QUERY_FLUSH_CACHE, Packet
<1>8. ~BoxLast(v)  BY <1>2, <1>5, <1>7 DEF FlushNow, Ready
<1>9. \/ main' = main
      \/ \E m \in Asks : main' = Append(main, m)
      \/ \E m, n \in Asks : main' = Append(Append(main, m), n)
  <2>1. CASE QUERY_FLUSH_CACHE
    BY <1>5, <1>4, <2>1 DEF QUERY_FLUSH_CACHE, FlushItemCacheSet, NoCache
  <2>2. CASE QUERY_PLAYER_SAVE \/ QUERY_LOGOUT
    BY <2>2 DEF QUERY_PLAYER_SAVE, QUERY_LOGOUT, sql
  <2>3. CASE QUERY_PLAYER_LOAD \/ QUERY_SAFEBOX_LOAD
    BY <2>3, AsksGrow
  <2> QED  BY <1>4, <1>6, <2>1, <2>2, <2>3 DEF DbPacket
<1>10. \A m \in Asks : m \in Statement /\ m.op \notin WriteOp
  BY DEF Asks, WriteOp
<1>11. \A q \in Seq(Statement) : \A m \in Asks :
          /\ Append(q, m) \in Seq(Statement)
          /\ Says(Append(q, m), WriteOp, row, Len(Append(q, m)) + 1, v) => Says(q, WriteOp, row, Len(q) + 1, v)
  BY <1>10, SaysMoves, AppendIs
<1>12. Says(main', WriteOp, row, Len(main') + 1, v) /\ v.win = "box"
  BY <1>1 DEF BoxLast
<1>13. Says(main, WriteOp, row, Len(main) + 1, v)
  BY <1>1, <1>9, <1>11, <1>12
<1> QED  BY <1>8, <1>12, <1>13 DEF BoxLast

(* A load puts nothing to write in a clean cache.                          *)
LEMMA PutClean ==
    ASSUME NEW x, NEW s, PutItemCache(x, TRUE, s), ~cache.dirty
    PROVE  ~cache'.dirty
<1> DEFINE t == IF cache.owner # x.owner THEN Unlinked(s) ELSE s
           c == [in |-> TRUE, owner |-> x.owner, ver |-> x.ver, dead |-> FALSE,
                 dirty |-> cache.dirty \/ ~TRUE]
<1>1. cache' = c \/ cache' = [c EXCEPT !.dirty = FALSE]
  BY DEF PutItemCache
<1>2. ~c.dirty /\ ~[c EXCEPT !.dirty = FALSE].dirty  OBVIOUS
<1> QED  BY <1>1, <1>2

(* An answer of SQL is read.                                               *)
LEMMA FlushResult ==
    ASSUME TypeOK, Kept, FlushNow, DbResult
    PROVE  FlushNow'
<1> DEFINE h == Head(results)
           m == [h EXCEPT !.op = "SAFEBOX_ITEM"]
<1>1. /\ results # <<>> /\ results' = Tail(results) /\ UNCHANGED <<game, toDb, saved, async, row>>
  BY DEF DbResult, ResultWithoutPeer, RESULT_PLAYER_LOAD, RESULT_ITEM_LOAD, RESULT_SAFEBOX_LOAD,
         Result, PopResult, hist
<1>2. main \in Seq(Statement) /\ results \in Seq(SqlAnswer)  BY DEF TypeOK, SqlOK
<1>3. h \in SqlAnswer /\ h \in Message(QueryOp) /\ h \in Message4
  BY <1>1, <1>2, Elements4, TailIs DEF SqlAnswer
<1>4. /\ m \in Statement /\ m \in Message4 /\ m.p = h.p /\ m.s = h.s
      /\ m.op = "SAFEBOX_ITEM" /\ m.op \notin WriteOp
  <2>1. m \in Statement /\ m.p = h.p /\ m.s = h.s /\ m.op = "SAFEBOX_ITEM"
    BY <1>3 DEF SqlAnswer, Statement, Message, QueryOp
  <2> HIDE DEF m
  <2> QED  BY <2>1 DEF Message4, WriteOp
<1>5. CASE ~cache'.dirty  BY <1>5 DEF FlushNow
<1>6. CASE /\ cache' = cache
           /\ main' = main \/ (main' = main \o <<m>> /\ h.op = "SAFEBOX")
  <2> HIDE DEF m, h
  <2>1. main \o <<m>> = Append(main, m)  BY <1>2, <1>4, AppendIsConcat
  <2>2. \A v \in Saved : BoxLast(v)' => BoxLast(v)
    <3> TAKE v \in Saved
    <3>1. Says(Append(main, m), WriteOp, row, Len(Append(main, m)) + 1, v)
              => Says(main, WriteOp, row, Len(main) + 1, v)
      BY <1>2, <1>4, SaysMoves
    <3> QED  BY <1>1, <1>6, <2>1, <3>1 DEF BoxLast
  <2>3. ASSUME NEW p \in Pids, Has(main', Tokens(p, "box")') \/ Has(results', Tokens(p, "box")')
        PROVE  Has(main, Tokens(p, "box")) \/ Has(results, Tokens(p, "box"))
    <3> DEFINE A == Tokens(p, "box")
    <3>1. Tokens(p, "box")' = A  BY <1>1 DEF Tokens, game
    <3>2. m \in A => h \in A \/ h.op # "SAFEBOX"
      BY <1>3, <1>4 DEF Tokens, TokenOp
    <3> HIDE DEF A
    <3>3. Has(main', A) \/ Has(results', A)  BY <2>3, <3>1
    <3>4. Has(results, A) <=> Has(Tail(results), A) \/ h \in A
      BY <1>1, <1>2, HasTail DEF h
    <3>5. Has(Append(main, m), A) <=> Has(main, A) \/ m \in A
      BY <1>2, <1>4, HasAppend
    <3>6. Has(main, A) \/ Has(results, A)
      BY <1>1, <1>6, <2>1, <3>2, <3>3, <3>4, <3>5
    <3> QED  BY <3>6 DEF A
  <2> QED  BY <1>1, <1>6, <2>2, <2>3, ReadyStays
<1>7. ~cache'.dirty \/ (/\ cache' = cache
                        /\ main' = main \/ (main' = main \o <<m>> /\ h.op = "SAFEBOX"))
  <2>1. CASE ResultWithoutPeer \/ RESULT_PLAYER_LOAD
    <3>1. main' = main /\ UNCHANGED dbVars
      BY <2>1 DEF ResultWithoutPeer, RESULT_PLAYER_LOAD
    <3> QED  BY <3>1 DEF dbVars
  <2>2. CASE RESULT_ITEM_LOAD
    <3>1. CASE h.x = NoItem
      <4>1. UNCHANGED <<cache, main>>  BY <2>2, <3>1 DEF RESULT_ITEM_LOAD
      <4> QED  BY <4>1
    <3>2. CASE h.x # NoItem
      <4>1. \E s : PutItemCache(h.x, TRUE, s)  BY <2>2, <3>2 DEF RESULT_ITEM_LOAD
      <4>2. ~cache.dirty
        BY <2>2, <3>2, LoadedIsSaved DEF RESULT_ITEM_LOAD, Result
      <4> DEFINE x == h.x
      <4>3. PICK s : PutItemCache(x, TRUE, s)  BY <4>1
      <4> HIDE DEF x
      <4>4. ~cache'.dirty  BY <4>2, <4>3, PutClean
      <4> QED  BY <4>4
    <3> QED  BY <3>1, <3>2
  <2>3. CASE RESULT_SAFEBOX_LOAD
    <3>1. UNCHANGED dbVars
      BY <2>3 DEF RESULT_SAFEBOX_LOAD
    <3>2. main' = main \/ (h.op = "SAFEBOX" /\ main' = main \o <<m>>)
      BY <2>3 DEF RESULT_SAFEBOX_LOAD, Enqueue
    <3> HIDE DEF m, h
    <3> QED  BY <3>1, <3>2 DEF dbVars
  <2> QED  BY <2>1, <2>2, <2>3 DEF DbResult
<1> QED  BY <1>5, <1>6, <1>7

(* The main connection executes a statement.                               *)
LEMMA FlushMain ==
    ASSUME TypeOK, FlushNow, MainExecutes, excuses' = {}
    PROVE  FlushNow'
<1> DEFINE h == Head(main)
           m == Selected(h)
<1>1. /\ main # <<>> /\ main' = Tail(main) /\ async = 0 /\ async' = 0
      /\ row' = IF h.op \in WriteOp THEN h.x ELSE row
      /\ UNCHANGED <<game, toDb, saved, cache>>
      /\ \/ results' = results
         \/ /\ results' = Append(results, m) /\ m \in SqlAnswer
            /\ m.op = h.op /\ m.p = h.p /\ m.s = h.s
  BY MainHead
<1>2. main \in Seq(Statement) /\ results \in Seq(SqlAnswer)  BY DEF TypeOK, SqlOK
<1>3. h \in Message4  BY <1>1, Elements4
<1> HIDE DEF m, h
<1>4. \A v \in Saved : BoxLast(v)' => BoxLast(v)
  <2> TAKE v \in Saved
  <2>1. Says(Tail(main), WriteOp, IF Head(main).op \in WriteOp THEN Head(main).x ELSE row,
             Len(Tail(main)) + 1, v) => Says(main, WriteOp, row, Len(main) + 1, v)
    BY <1>1, <1>2, SaysMoves
  <2> QED  BY <1>1, <2>1 DEF BoxLast, h
<1>5. ASSUME NEW p \in Pids, Has(main', Tokens(p, "box")') \/ Has(results', Tokens(p, "box")')
      PROVE  Has(main, Tokens(p, "box")) \/ Has(results, Tokens(p, "box"))
  <2> DEFINE A == Tokens(p, "box")
  <2>1. Tokens(p, "box")' = A  BY <1>1 DEF Tokens, game
  <2>2. m \in A => h \in A \/ results' = results
    BY <1>1, <1>3 DEF Tokens, TokenOp
  <2> HIDE DEF A
  <2>3. Has(main', A) \/ Has(results', A)  BY <1>5, <2>1
  <2>4. Has(main, A) <=> Has(Tail(main), A) \/ h \in A
    BY <1>1, <1>2, HasTail DEF h
  <2>5. m \in SqlAnswer => (Has(Append(results, m), A) <=> Has(results, A) \/ m \in A)
    BY <1>2, HasAppend
  <2>6. Has(main, A) \/ Has(results, A)
    BY <1>1, <2>2, <2>3, <2>4, <2>5
  <2> QED  BY <2>6 DEF A
<1> QED  BY <1>1, <1>4, <1>5, ReadyStays

(* A timer fires, the db stops, or the other connection executes a DELETE. *)
LEMMA FlushTimer ==
    ASSUME TypeOK, Kept, FlushNow, DbTimer \/ Shutdown \/ AsyncExecutes, excuses' = {}
    PROVE  FlushNow'
<1>1. CASE DbTimer \/ Shutdown
  <2>0. cache \in CacheState  BY DEF TypeOK, DbOK
  <2>1. UNCHANGED <<game, toDb, results, row, async>>
    BY <1>1 DEF DbTimer, UpdateItemCache, UpdatePlayerCache, UpdateLogoutPlayer, Shutdown
  <2>2. ~cache'.dirty \/ UNCHANGED <<cache, main>>
    <3>1. Flush \/ cache' = NoCache \/ UNCHANGED <<cache, main>>
      BY <1>1 DEF DbTimer, UpdateItemCache, UpdatePlayerCache, UpdateLogoutPlayer, Shutdown,
                  FlushItemCacheSet
    <3> QED  BY <2>0, <3>1, FlushedClean DEF Flush
  <2>3. CASE ~cache'.dirty  BY <2>3 DEF FlushNow
  <2>4. CASE UNCHANGED <<cache, main>>
    <3>1. \A v : BoxLast(v)' <=> BoxLast(v)  BY <2>1, <2>4 DEF BoxLast
    <3>2. \A p : Ready(p)' <=> Ready(p)  BY <2>1, <2>4 DEF Ready, Tokens, game
    <3> QED  BY <2>1, <2>4, <3>1, <3>2 DEF FlushNow
  <2> QED  BY <2>2, <2>3, <2>4
<1>2. CASE AsyncExecutes
  <2>1. /\ main' = main /\ row' = NoItem
        /\ \A q \in ToSet(main) : q.op # "REPLACE"
    BY <1>2 DEF AsyncExecutes
  <2>2. \A k \in DOMAIN main : main[k].op # "REPLACE"  BY <2>1 DEF ToSet
  <2>3. WellWritten(main)  BY DEF Kept, Store
  <2>4. \A i \in DOMAIN main : main[i].op \in WriteOp => main[i].x = NoItem
    BY <2>2, <2>3 DEF WellWritten, WriteOp
  <2>5. \A k, v : Says(main, WriteOp, NoItem, k, v) => v = NoItem
    BY <2>4, SaysSame
  <2>6. \A v : ~BoxLast(v)'
    BY <2>1, <2>5 DEF BoxLast, NoItem
  <2> QED  BY <2>6 DEF FlushNow
<1> QED  BY <1>1, <1>2

(* The game moves.                                                         *)
LEMMA FlushGame ==
    ASSUME TypeOK, Numbered, FlushNow, GameItem \/ ItemManagerUpdate \/ GameSession \/ GameAnswer
    PROVE  FlushNow'
<1>1. /\ UNCHANGED <<main, results, row, async, cache, saved>>
      /\ toDb # <<>> => toDb' # <<>> /\ Head(toDb') = Head(toDb)
      /\ \A q \in Pids, m \in ToSet(main) \cup ToSet(results) : Cur(m, q)' => Cur(m, q)
  BY GameQuiet
<1>2. \A v \in Saved : BoxLast(v)' => BoxLast(v)
  BY <1>1 DEF BoxLast
<1>3. ASSUME NEW p \in Pids, NEW q \in {main, results}, Has(q, Tokens(p, "box")')
      PROVE  Has(q, Tokens(p, "box"))
  <2>1. PICK i \in DOMAIN q : q[i] \in Tokens(p, "box")'  BY <1>3 DEF Has
  <2>2. q[i] \in ToSet(main) \cup ToSet(results)  BY <1>3 DEF ToSet
  <2>3. Cur(q[i], p)' /\ q[i] \in Message4 /\ q[i].op \in TokenOp("box")
    BY <2>1 DEF Tokens, Cur
  <2>4. Cur(q[i], p)  BY <1>1, <2>2, <2>3
  <2>5. q[i] \in Tokens(p, "box")  BY <2>3, <2>4 DEF Tokens, Cur
  <2> QED  BY <2>5 DEF Has
<1>4. \A p \in Pids : Has(main', Tokens(p, "box")') \/ Has(results', Tokens(p, "box")')
          => Has(main, Tokens(p, "box")) \/ Has(results, Tokens(p, "box"))
  BY <1>1, <1>3
<1> QED  BY <1>1, <1>2, <1>4, ReadyStays

(* The game moves: what a safebox under way will bring stays.              *)
LEMMA BoxGame ==
    ASSUME TypeOK, Numbered, BoxViews, BoxAnswered,
           GameItem \/ ItemManagerUpdate \/ GameSession \/ GameAnswer
    PROVE  BoxViews' /\ BoxAnswered'
<1>1. /\ UNCHANGED <<main, results, row, async, cache, saved>>
      /\ \A q \in Pids, m \in ToSet(main) \cup ToSet(results) : Cur(m, q)' => Cur(m, q)
  BY GameQuiet
<1>2. /\ \A k \in DOMAIN main : main[k] \in ToSet(main)
      /\ \A k \in DOMAIN results : results[k] \in ToSet(results)
  BY DEF ToSet
<1>3. ASSUME async' = 0 PROVE BoxView(main, row, saved)'
  <2>1. BoxView(main, row, saved)  BY <1>1, <1>3 DEF BoxViews
  <2>2. \A k \in DOMAIN main : \A p \in Pids : BoxSelect(main[k], p)' => BoxSelect(main[k], p)
    BY <1>1, <1>2 DEF BoxSelect
  <2> QED  BY <1>1, <2>1, <2>2 DEF BoxView
<1>4. BoxAnswered'
  BY <1>1, <1>2 DEF BoxAnswered
<1> QED  BY <1>3, <1>4 DEF BoxViews

(* The invariant holds at first.                                           *)
LEMMA CopyInit == Init => CopyInv
<1> USE ItemAssumption
<1> SUFFICES ASSUME Init
             PROVE  Claimed /\ Held /\ Packed /\ Blank /\ SetsRight /\ BoxViews /\ BoxAnswered /\ FlushNow
  BY DEF CopyInv
<1>1. /\ toDb = <<>> /\ toGame = <<>> /\ main = <<>> /\ results = <<>>
      /\ saved = row /\ ~delayed /\ box = [p \in Pids |-> "closed"]
  BY DEF Init
<1>2. Claimed
  <2>1. AllClaims(Four(<<>>, <<>>, <<>>, <<>>), saved, Absent)
    BY DEF AllClaims, Claims, Four, Has, One4, None4
  <2> QED  BY <1>1, <2>1 DEF Claimed
<1>3. Held
  <2>1. LastOf(<<>>, ItemOps, saved) = saved  BY DEF LastOf
  <2>2. /\ item.at \in {"inv", "box"} => item.at = "inv" /\ saved = Told1(item) /\ Of(saved, item.by, item.at)
        /\ item.at \in {"ground", "unborn"} => saved = NoItem
    <3>1. CASE Online
      BY <1>1, <3>1 DEF Init, InitOnline, Item, Told1, Of, InInv
    <3>2. CASE ~Online
      BY <1>1, <3>2 DEF Init, InitOffline, Item
    <3> QED  BY <3>1, <3>2
  <2> QED  BY <1>1, <2>1, <2>2 DEF Held, Stored, Holding
<1>4. Packed
  BY <1>1 DEF Packed, FlushNext, Destroys
<1>5. Blank /\ BoxViews /\ BoxAnswered
  BY <1>1 DEF Blank, BoxViews, BoxView, BoxAnswered
<1>6. SetsRight
  <2>1. CASE Online
    <3>1. CASE row = InInv(1, 0)
      <4>1. /\ cache = [NoCache EXCEPT !.in = TRUE, !.owner = 1]
            /\ set = [p \in Pids |-> IF p = 1 THEN "with" ELSE "without"]
        BY <2>1, <3>1 DEF Init, InitOnline
      <4>2. Cached(cache) = InInv(1, 0)  BY <4>1 DEF Cached, NoCache
      <4>3. \A p \in Pids : set[p] = "with" <=> p = 1  BY <4>1
      <4>4. \A p \in Pids : Matches(saved, p, "inv") = IF p = 1 THEN InInv(1, 0) ELSE NoItem
        BY <1>1, <3>1 DEF Matches, InInv
      <4> QED  BY <4>1, <4>2, <4>3, <4>4 DEF SetsRight
    <3>2. CASE row # InInv(1, 0)
      <4>1. set = [p \in Pids |-> "without"]  BY <2>1, <3>2 DEF Init, InitOnline
      <4>2. row = NoItem \/ row = InBox(1, 0)  BY <3>2 DEF Init
      <4>3. \A p \in Pids : Matches(saved, p, "inv") = NoItem
        BY <1>1, <4>2 DEF Matches, InBox, NoItem
      <4> QED  BY <4>1, <4>3 DEF SetsRight
    <3> QED  BY <3>1, <3>2
  <2>2. CASE ~Online
    <3>1. set = [p \in Pids |-> "none"]  BY <2>2 DEF Init, InitOffline
    <3> QED  BY <3>1 DEF SetsRight
  <2> QED  BY <2>1, <2>2
<1>7. FlushNow
  <2>1. cache \in {NoCache, [NoCache EXCEPT !.in = TRUE, !.owner = 1]}
    BY DEF Init, InitOnline, InitOffline
  <2>2. ~NoCache.dirty /\ ~[NoCache EXCEPT !.in = TRUE, !.owner = 1].dirty
    BY DEF NoCache
  <2> QED  BY <2>1, <2>2 DEF FlushNow
<1> QED  BY <1>2, <1>3, <1>4, <1>5, <1>6, <1>7

(* One case for each of those who move.                                    *)
LEMMA CopyNext ==
    ASSUME TypeOK, CacheSets, Numbered, Carried, Kept, Next, excuses' = {},
           Claimed, Held, Packed, Blank, SetsRight, BoxViews, BoxAnswered, FlushNow
    PROVE  /\ Claimed' /\ Held' /\ Packed' /\ Blank' /\ SetsRight'
           /\ BoxViews' /\ BoxAnswered' /\ FlushNow'
           /\ LeftKnown
<1>1. ~GameCrash  BY DEF GameCrash
<1>2. Blank' /\ SetsRight'  BY <1>1, BlankStep, SetsStep
<1>3. UNCHANGED game => LeftKnown
  BY DEF LeftKnown, game
<1>4. CASE DbPacket
  <2>1. Claimed' /\ Held' /\ Packed'  BY <1>4, CopyPacket
  <2>2. BoxViews' /\ BoxAnswered'  BY <1>4, BoxPacket
  <2>3. FlushNow'  BY <1>4, FlushSave, FlushPacket
  <2>4. UNCHANGED game
    BY <1>4 DEF DbPacket, QUERY_ITEM_SAVE, QUERY_ITEM_DESTROY, QUERY_ITEM_FLUSH, QUERY_PLAYER_LOAD,
                QUERY_PLAYER_SAVE, QUERY_LOGOUT, QUERY_SAFEBOX_LOAD, QUERY_FLUSH_CACHE
  <2> QED  BY <1>2, <1>3, <2>1, <2>2, <2>3, <2>4
<1>5. CASE DbResult
  <2>1. Claimed' /\ UNCHANGED <<game, toDb, saved>>  BY <1>5, ClaimedResult
  <2>2. Held' /\ Packed' /\ LeftKnown  BY <2>1, DbStays
  <2>3. BoxViews' /\ BoxAnswered'  BY <1>5, BoxResult
  <2>4. FlushNow'  BY <1>5, FlushResult
  <2> QED  BY <1>2, <2>1, <2>2, <2>3, <2>4
<1>6. CASE DbTimer \/ Shutdown \/ AsyncExecutes
  <2>1. Claimed' /\ UNCHANGED <<game, toDb, saved>>  BY <1>6, ClaimedDb
  <2>2. Held' /\ Packed' /\ LeftKnown  BY <2>1, DbStays
  <2>3. BoxViews' /\ BoxAnswered'  BY <1>6, BoxTimer
  <2>4. FlushNow'  BY <1>6, FlushTimer
  <2> QED  BY <1>2, <2>1, <2>2, <2>3, <2>4
<1>7. CASE MainExecutes
  <2>1. Claimed' /\ UNCHANGED <<game, toDb, saved>>  BY <1>7, ClaimedDb
  <2>2. Held' /\ Packed' /\ LeftKnown  BY <2>1, DbStays
  <2>3. BoxViews' /\ BoxAnswered'  BY <1>7, BoxMain
  <2>4. FlushNow'  BY <1>7, FlushMain
  <2> QED  BY <1>2, <2>1, <2>2, <2>3, <2>4
<1>8. CASE GameItem \/ ItemManagerUpdate \/ GameSession \/ GameAnswer
  <2>1. Claimed' /\ Held' /\ Packed' /\ LeftKnown
    BY <1>8, CopyItem, CopySession, CopyAnswer
  <2>2. BoxViews' /\ BoxAnswered'  BY <1>8, BoxGame
  <2>3. FlushNow'  BY <1>8, FlushGame
  <2> QED  BY <1>2, <2>1, <2>2, <2>3
<1> QED  BY <1>1, <1>4, <1>5, <1>6, <1>7, <1>8 DEF Next

(* Every step keeps the invariant, and the item leaves the game only when  *)
(* the db will know of it.                                                 *)
LEMMA CopyStep ==
    ASSUME TypeOK, CacheSets, SavesInv, CopyInv, [Next]_vars
    PROVE  CopyInv' /\ (Next /\ excuses' = {} => LeftKnown)
<1> SUFFICES ASSUME excuses' = {}
             PROVE  /\ (Claimed /\ Held /\ Packed /\ Blank /\ SetsRight /\ BoxViews /\ BoxAnswered /\ FlushNow)'
                    /\ Next => LeftKnown
  BY DEF CopyInv
<1>1. excuses = {}  BY ExcusesGrow
<1>2. Claimed /\ Held /\ Packed /\ Blank /\ SetsRight /\ BoxViews /\ BoxAnswered /\ FlushNow
  BY <1>1 DEF CopyInv
<1>3. CASE Next
  <2>1. Numbered /\ Carried /\ Kept  BY <1>1 DEF SavesInv
  <2> QED  BY <1>2, <1>3, <2>1, CopyNext
<1>4. CASE UNCHANGED vars /\ ~Next
  <2>1. UNCHANGED <<game, toDb, toGame, main, async, results, row, cache, set, up, saved>>
    BY <1>4 DEF vars, dbVars, sql, hist
  <2>2. UNCHANGED <<item, delayed, st, sess, box>>  BY <2>1 DEF game
  <2>3. Claimed'
    <3>1. AllClaims(Four(toDb', main', results', toGame'), saved', Absent)
      BY <1>2, <2>1 DEF Claimed
    <3> QED  BY <2>1, <3>1, DbClaimed
  <2>4. Held' /\ Packed'  BY <1>2, <2>1, DbStays
  <2>5. Blank'  BY <1>2, <2>1 DEF Blank
  <2>6. SetsRight'  BY <1>2, <2>1 DEF SetsRight
  <2>7. BoxViews' /\ BoxAnswered'
    BY <1>2, <2>1, <2>2 DEF BoxViews, BoxView, BoxAnswered, BoxSelect, Cur
  <2>8. FlushNow'
    BY <1>2, <2>1, <2>2 DEF FlushNow, BoxLast, Ready, Tokens
  <2> QED  BY <1>4, <2>3, <2>4, <2>5, <2>6, <2>7, <2>8
<1> QED  BY <1>3, <1>4

(* An answer the game still waits for brings what nobody has.              *)
LEMMA CopyOnce == TypeOK /\ CopyInv /\ excuses = {} => ~Duplicated
<1> SUFFICES ASSUME TypeOK, CopyInv, excuses = {}, Duplicated PROVE FALSE
  OBVIOUS
<1>1. Claimed /\ Blank  BY DEF CopyInv
<1>2. PICK m \in ToSet(toGame) : /\ m.x # NoItem /\ m.s = sess[m.p] /\ st[m.p] # "off"
                                 /\ item.at \notin {"unborn", "none"}
  BY DEF Duplicated
<1>3. PICK k \in DOMAIN toGame : toGame[k] = m  BY DEF ToSet
<1>4. m \in Reply /\ m \in Message4 /\ m.p \in Pids
  <2>1. toGame \in Seq(Reply)  BY DEF TypeOK
  <2>2. m \in Reply  BY <1>3, <2>1, LenProperties, ElementOfSeq
  <2> QED  BY <2>2 DEF Reply, Message4
<1>5. m.op # "PLAYER_LOAD_SUCCESS"  BY <1>1, <1>2, <1>3 DEF Blank
<1>6. PICK w \in Wins : m.op \in TokenOp(w)
  <2>1. m.op \in {"ITEM_LOAD", "SAFEBOX_LOAD", "WRONG_PASSWORD"}
    BY <1>4, <1>5 DEF Reply, Message, AnswerOp
  <2> QED  BY <2>1 DEF Wins, TokenOp
<1>7. m \in Tokens(m.p, w)  BY <1>2, <1>4, <1>6 DEF Tokens
<1>8. AllClaims(Four(toDb, main, results, toGame), saved, Absent)
  BY <1>1, Queues4
<1> DEFINE Q == Four(toDb, main, results, toGame)
<1>9. Q[4] = toGame  BY DEF Four
<1> HIDE DEF Q
<1>10. Claims(Q, saved, Absent, box[m.p], Tokens(m.p, w), m.p, w)
  BY <1>4, <1>6, <1>8 DEF AllClaims, Q
<1>11. Absent  BY <1>2, <1>3, <1>7, <1>9, <1>10 DEF Claims
<1> QED  BY <1>2, <1>11 DEF Absent

(* What the db has of player p, in a set or from SQL, is the last save.    *)
LEMMA LoadedNow ==
    ASSUME TypeOK, Kept, SetsRight, BoxAnswered, Next,
           NEW p \in Pids, NEW m \in ToSet(toGame') \ ToSet(toGame),
           m.p = p, m.s = sess[p], st[p] # "off"
    PROVE  /\ m.op = "ITEM_LOAD"    => m.x = Matches(saved, p, "inv")
           /\ m.op = "SAFEBOX_LOAD" => m.x = Matches(saved, p, "box")
<1>1. toGame \in Seq(Reply) /\ results \in Seq(SqlAnswer)  BY DEF TypeOK, SqlOK
<1>2. \A n \in Reply : ToSet(Append(toGame, n)) = ToSet(toGame) \cup {n}
  BY <1>1, ToSetIs
<1>3. toGame' # toGame  OBVIOUS
<1> DEFINE h == Head(results)
<1>4. CASE QUERY_PLAYER_LOAD
  <2> DEFINE r == Head(toDb)
             a == M("PLAYER_LOAD_SUCCESS", r.p, r.s, NoItem)
             b == M("ITEM_LOAD", r.p, r.s, ItemsInSet(r.p))
  <2>1. Packet("PLAYER_LOAD")  BY <1>4 DEF QUERY_PLAYER_LOAD
  <2>2. r \in Request /\ r.op = "PLAYER_LOAD" /\ up  BY <2>1, HeadOfToDb DEF Packet
  <2>3. r.p \in Pids /\ r.s \in Nat  BY <2>2 DEF Request, Message
  <2>4. ItemsInSet(r.p) \in Data \cup {NoItem}
    BY CachedType DEF TypeOK, DbOK, ItemsInSet
  <2>5. a \in Reply /\ b \in Reply
    BY <2>3, <2>4, ReplyType DEF AnswerOp
  <2>6. /\ a.op = "PLAYER_LOAD_SUCCESS"
        /\ b.p = r.p /\ b.op = "ITEM_LOAD" /\ b.x = ItemsInSet(r.p)
    BY DEF M
  <2>7. \/ set[r.p] # "none" /\ toGame' = toGame \o <<a, b>>
        \/ toGame' = Append(toGame, a)
    BY <1>3, <1>4 DEF QUERY_PLAYER_LOAD, Answer
  <2>8. set[r.p] # "none" => ItemsInSet(r.p) = Matches(saved, r.p, "inv")
    <3>1. set[r.p] \in {"none", "without", "with"}  BY <2>3 DEF TypeOK, DbOK, SetState
    <3> QED  BY <2>2, <2>3, <3>1 DEF SetsRight, ItemsInSet
  <2> HIDE DEF a, b, r
  <2>9. ToSet(toGame \o <<a, b>>) = ToSet(toGame) \cup {a, b}
    <3>1. toGame \o <<a, b>> = Append(Append(toGame, a), b) /\ Append(toGame, a) \in Seq(Reply)
      BY <1>1, <2>5
    <3> DEFINE q == Append(toGame, a)
    <3> HIDE DEF q
    <3>2. \A n \in Reply : ToSet(Append(q, n)) = ToSet(q) \cup {n}
      BY <3>1, ToSetIs DEF q
    <3> QED  BY <1>2, <2>5, <3>1, <3>2 DEF q
  <2>10. m = a \/ (m = b /\ set[r.p] # "none")
    BY <1>2, <2>5, <2>7, <2>9
  <2> QED  BY <2>6, <2>8, <2>10
<1>5. ASSUME results # <<>>, NEW op \in AnswerOp, toGame' = Append(toGame, [h EXCEPT !.op = op])
      PROVE  m.op = op /\ m.x = h.x /\ h.p = p /\ h.s = m.s /\ 1 \in DOMAIN results /\ results[1] = h
  <2>1. h \in SqlAnswer /\ 1 \in DOMAIN results /\ results[1] = h
    BY <1>1, <1>5, TailIs
  <2> DEFINE n == [h EXCEPT !.op = op]
  <2>2. n \in Reply /\ n.op = op /\ n.x = h.x /\ n.p = h.p /\ n.s = h.s
    <3>1. h \in Message(QueryOp) /\ h.p \in Pids  BY <2>1 DEF SqlAnswer
    <3> HIDE DEF h
    <3> QED  BY <3>1 DEF Reply, Message
  <2> HIDE DEF n
  <2>3. toGame' = Append(toGame, n)  BY <1>5 DEF n
  <2>4. m = n  BY <1>2, <2>2, <2>3
  <2> QED  BY <2>1, <2>2, <2>4
<1>6. CASE RESULT_ITEM_LOAD
  <2>1. /\ results # <<>> /\ h.op = "ITEM" /\ h.s # 0
        /\ toGame' = Append(toGame, [h EXCEPT !.op = "ITEM_LOAD"])
    BY <1>6 DEF RESULT_ITEM_LOAD, Result, Answer
  <2>2. "ITEM_LOAD" \in AnswerOp  BY DEF AnswerOp
  <2>3. /\ m.op = "ITEM_LOAD" /\ m.x = h.x /\ h.p = p
        /\ 1 \in DOMAIN results /\ results[1] = h
    BY <1>5, <2>1, <2>2
  <2> HIDE DEF h
  <2>4. h.x = Matches(saved, p, "inv")
    BY <2>1, <2>3 DEF Kept, Store, Answered
  <2> QED  BY <2>3, <2>4
<1>7. CASE RESULT_SAFEBOX_LOAD
  <2>1. /\ results # <<>>
        /\ \/ toGame' = Append(toGame, [h EXCEPT !.op = "WRONG_PASSWORD"])
           \/ h.op = "SAFEBOX_ITEM" /\ toGame' = Append(toGame, [h EXCEPT !.op = "SAFEBOX_LOAD"])
    BY <1>3, <1>7 DEF RESULT_SAFEBOX_LOAD, Answer
  <2>2. "WRONG_PASSWORD" \in AnswerOp /\ "SAFEBOX_LOAD" \in AnswerOp  BY DEF AnswerOp
  <2>3. CASE toGame' = Append(toGame, [h EXCEPT !.op = "WRONG_PASSWORD"])
    <3>1. m.op = "WRONG_PASSWORD"  BY <1>5, <2>1, <2>2, <2>3
    <3> QED  BY <3>1
  <2>4. CASE h.op = "SAFEBOX_ITEM" /\ toGame' = Append(toGame, [h EXCEPT !.op = "SAFEBOX_LOAD"])
    <3>1. /\ m.op = "SAFEBOX_LOAD" /\ m.x = h.x /\ h.p = p /\ h.s = m.s
          /\ 1 \in DOMAIN results /\ results[1] = h
      BY <1>5, <2>1, <2>2, <2>4
    <3> HIDE DEF h
    <3>2. h.x = Matches(saved, p, "box")
      BY <2>4, <3>1 DEF BoxAnswered, Cur
    <3> QED  BY <3>1, <3>2
  <2> QED  BY <2>1, <2>3, <2>4
<1>8. CASE RESULT_PLAYER_LOAD
  <2>1. results # <<>> /\ toGame' = Append(toGame, [h EXCEPT !.op = "PLAYER_LOAD_SUCCESS"])
    BY <1>3, <1>8 DEF RESULT_PLAYER_LOAD, Result, Answer
  <2>2. "PLAYER_LOAD_SUCCESS" \in AnswerOp  BY DEF AnswerOp
  <2>3. m.op = "PLAYER_LOAD_SUCCESS"  BY <1>5, <2>1, <2>2
  <2> QED  BY <2>3
<1>9. CASE GameAnswer \/ GameCrash
  <2>1. toGame' = <<>> \/ (toGame # <<>> /\ toGame' = Tail(toGame))
    BY <1>9 DEF GameAnswer, AnswerIgnored, PlayerLoad, ItemLoad, SafeboxLoad,
                SafeboxWrongPassword, AnswerIs, Received, GameCrash
  <2>2. ToSet(<<>>) = {}  BY DEF ToSet
  <2>3. toGame # <<>> => ToSet(Tail(toGame)) \subseteq ToSet(toGame)
    BY <1>1, ToSetIs
  <2> QED  BY <2>1, <2>2, <2>3
<1>10. \/ QUERY_PLAYER_LOAD \/ RESULT_ITEM_LOAD \/ RESULT_SAFEBOX_LOAD \/ RESULT_PLAYER_LOAD
       \/ GameAnswer \/ GameCrash
  <2>1. ASSUME DbPacket, ~QUERY_PLAYER_LOAD PROVE FALSE
    BY <1>3, <2>1 DEF DbPacket, QUERY_ITEM_SAVE, QUERY_ITEM_DESTROY, QUERY_ITEM_FLUSH,
           QUERY_PLAYER_SAVE, QUERY_LOGOUT, QUERY_SAFEBOX_LOAD, QUERY_FLUSH_CACHE
  <2>2. ASSUME ResultWithoutPeer \/ DbTimer \/ Shutdown \/ MainExecutes \/ AsyncExecutes PROVE FALSE
    BY <1>3, <2>2 DEF ResultWithoutPeer, DbTimer, UpdateItemCache, UpdatePlayerCache,
           UpdateLogoutPlayer, Shutdown, MainExecutes, AsyncExecutes
  <2>3. ASSUME GameItem \/ ItemManagerUpdate \/ GameSession PROVE FALSE
    BY <1>3, <2>3 DEF GameItem, CreateItem, ModifyItem, DropItem, DestroyItem, SafeboxCheckin,
         SafeboxCheckout, PickupItem, ExchangeItem, ItemOp, ItemManagerUpdate,
         GameSession, CharacterSelect, SavePlayer, Disconnect, ReqSafeboxLoad,
         CloseSafebox, FlushCommand
  <2> QED  BY <2>1, <2>2, <2>3 DEF Next, DbResult
<1> QED  BY <1>4, <1>6, <1>7, <1>8, <1>9, <1>10

(* All of the invariant.                                                   *)
LEMMA CopyInvariant == Spec => [](TypeOK /\ CacheSets /\ SavesInv /\ CopyInv)
<1>1. Init => TypeOK /\ CacheSets /\ SavesInv /\ CopyInv
  BY TypeInit, CacheInit, SavesInit, CopyInit
<1>2. TypeOK /\ CacheSets /\ SavesInv /\ CopyInv /\ [Next]_vars
          => (TypeOK /\ CacheSets /\ SavesInv /\ CopyInv)'
  <2>1. TypeOK /\ CacheSets /\ SavesInv /\ [Next]_vars => (TypeOK /\ CacheSets /\ SavesInv)'
    BY TypeStep, CacheStep, SavesStep
  <2>2. TypeOK /\ CacheSets /\ SavesInv /\ CopyInv /\ [Next]_vars => CopyInv'
    BY CopyStep
  <2> QED  BY <2>1, <2>2
<1> QED  BY <1>1, <1>2, PTL DEF Spec

(* However sessions, trades, safeboxes, timers and SQL interleave: as long *)
(* as nothing of what the code is known not to survive has happened, an    *)
(* item somebody has in the game is not on its way to the game again, and  *)
(* what the db keeps of it is its last save.                               *)
THEOREM OneCopyOfAnItem == Spec => []OneCopy
<1>1. TypeOK /\ CacheSets /\ SavesInv /\ CopyInv => OneCopy
  BY SavesInvPersist, CopyOnce DEF OneCopy
<1> QED  BY <1>1, CopyInvariant, PTL

(* QUERY_PLAYER_LOAD, RESULT_ITEM_LOAD and RESULT_SAFEBOX_LOAD answer a    *)
(* session that still waits with exactly what the last save says.          *)
THEOREM LoadsAreCurrent == Spec => LoadsCurrent
<1>1. TypeOK /\ CacheSets /\ SavesInv /\ CopyInv /\ [Next]_vars =>
        [\A p \in Pids : \A m \in ToSet(toGame') \ ToSet(toGame) :
            excuses = {} /\ m.p = p /\ m.s = sess[p] /\ st[p] # "off"
            => /\ m.op = "ITEM_LOAD"    => m.x = Matches(saved, p, "inv")
               /\ m.op = "SAFEBOX_LOAD" => m.x = Matches(saved, p, "box")]_vars
  <2> SUFFICES ASSUME TypeOK, CacheSets, SavesInv, CopyInv, Next, excuses = {},
                      NEW p \in Pids, NEW m \in ToSet(toGame') \ ToSet(toGame),
                      m.p = p, m.s = sess[p], st[p] # "off"
               PROVE  /\ m.op = "ITEM_LOAD"    => m.x = Matches(saved, p, "inv")
                      /\ m.op = "SAFEBOX_LOAD" => m.x = Matches(saved, p, "box")
    OBVIOUS
  <2>1. Kept /\ SetsRight /\ BoxAnswered  BY DEF SavesInv, CopyInv
  <2> QED  BY <2>1, LoadedNow
<1> QED  BY <1>1, CopyInvariant, PTL DEF Spec, LoadsCurrent

(* An item a player carries or stores leaves the game, by Disconnect,      *)
(* CloseSafebox, DestroyItem, only when the db was told, or will read, its *)
(* last state or its end.                                                  *)
THEOREM LeavingItemsAreSaved == Spec => SavedWhenGone
<1>1. TypeOK /\ CacheSets /\ SavesInv /\ CopyInv /\ [Next]_vars =>
        [excuses' = {} /\ item.at \in {"inv", "box"} /\ item'.at = "none"
         => Told' \in {NoItem, IF item.at = "inv" THEN InInv(item.by, item.ver)
                                 ELSE InBox(item.by, item.ver)}]_vars
  <2> SUFFICES ASSUME TypeOK, CacheSets, SavesInv, CopyInv, Next, excuses' = {},
                      item.at \in {"inv", "box"}, item'.at = "none"
               PROVE  Told' \in {NoItem, IF item.at = "inv" THEN InInv(item.by, item.ver)
                                           ELSE InBox(item.by, item.ver)}
    OBVIOUS
  <2>1. LeftKnown  BY CopyStep
  <2>2. Told' = LastOf(toDb', ItemOps, saved')  BY DEF Told, ItemOps
  <2>3. Told1(item) = IF item.at = "inv" THEN InInv(item.by, item.ver)
                        ELSE InBox(item.by, item.ver)
    BY DEF Told1
  <2> QED  BY <2>1, <2>2, <2>3 DEF LeftKnown
<1> QED  BY <1>1, CopyInvariant, PTL DEF Spec, SavedWhenGone
=============================================================================

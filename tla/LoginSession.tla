---------------------------- MODULE LoginSession ----------------------------
(***************************************************************************)
(* One account's sessions, as the db process and the game processes keep   *)
(* them.  The auth server authenticates a client and registers a login key *)
(* with the db; the client presents the key to a game process, which asks  *)
(* the db to log the account on; the db answers after a chain of queries.  *)
(* The db tracks the account in CLoginData objects reached from four maps. *)
(*                                                                         *)
(* Accounts do not interact: three of the maps are keyed by login or       *)
(* account id, and a login key belongs to one account.  The model has one  *)
(* account, so those maps are one pointer each; m_map_pkLoginDataByAID is  *)
(* always written together with m_map_pkLoginDataByLogin and is not a      *)
(* field of its own.                                                       *)
(*                                                                         *)
(* Each game process has one TCP connection to the db, FIFO in both        *)
(* directions.  It may be lost (game or network), the db process may crash *)
(* and restart, and the game reconnects and reports its logins (SETUP).    *)
(***************************************************************************)
EXTENDS Integers, Sequences, FiniteSets

CONSTANTS
    NGames,           \* number of game processes
    MaxDesc,          \* bound: client descriptors over all game processes
    MaxAuth,          \* bound: authentications, one fresh login key each
    MaxLoss,          \* bound: lost connections and db crashes
    HasIndex          \* the account's player_index row exists from the start

ASSUME LoginAssumption ==
    /\ NGames \in Nat \ {0} /\ MaxDesc \in Nat /\ MaxAuth \in Nat
    /\ MaxLoss \in Nat /\ HasIndex \in BOOLEAN

Games == 1..NGames
Descs == 1..MaxDesc
Keys  == 1..MaxAuth
NULL  == 0

VARIABLES
    db,               \* the login tables of CClientManager, see NoLogins
    busy,             \* the game whose SETUP packet the db is in the middle of
    player_index,     \* the account's row exists
    results,          \* QID_* answers on their way from SQL, FIFO
    logoutTimer,      \* m_map_logout holds the account's players
    handle,           \* peer handle of each game's connection, 0 when down
    nHandle,          \* handles given out
    toDb, toGame,     \* the connections
    desc,             \* client descriptors of the game processes
    nAuth,            \* keys handed out by the auth server
    losses            \* connections lost and db crashes

vars == <<db, busy, player_index, results, logoutTimer, handle, nHandle, toDb,
          toGame, desc, nAuth, losses>>

net == <<handle, nHandle>>

Phase  == {"free", "idle", "asked", "select", "load", "play", "closed"}
Bound  == {"select", "load", "play"}      \* the account table is bound
Qid    == {"LOGIN_BY_KEY", "LOGIN", "PLAYER_INDEX_CREATE", "PLAYER"}
Answer == {"LOGIN_NOT_EXIST", "LOGIN_ALREADY", "LOGIN_SUCCESS",
           "PLAYER_LOAD_SUCCESS", "PLAYER_LOAD_FAILED"}

LoginData == [alive : BOOLEAN, key : Keys, peer : Nat, play : BOOLEAN,
              deleted : BOOLEAN, loaded : BOOLEAN]

CLoginData(k) == [alive |-> TRUE, key |-> k, peer |-> 0, play |-> FALSE,
                  deleted |-> FALSE, loaded |-> FALSE]

(* The maps of CClientManager: byKey is m_map_pkLoginData, byLogin is      *)
(* m_map_pkLoginDataByLogin (and ByAID), logon is m_map_kLogonAccount; ld  *)
(* is the heap of CLoginData objects, in the order they were allocated.    *)
LoginTables == [byKey : [Keys -> Nat], byLogin : Nat, logon : Nat,
                ld : Seq(LoginData)]

NoLogins == [byKey |-> [k \in Keys |-> NULL], byLogin |-> NULL,
             logon |-> NULL, ld |-> <<>>]

Init == /\ db = NoLogins /\ busy = 0
        /\ player_index = HasIndex
        /\ results = <<>>
        /\ logoutTimer = FALSE
        /\ handle = [g \in Games |-> g] /\ nHandle = NGames
        /\ toDb = [g \in Games |-> <<>>] /\ toGame = [g \in Games |-> <<>>]
        /\ desc = [d \in Descs |-> [game |-> 0, key |-> 0, phase |-> "free"]]
        /\ nAuth = 0 /\ losses = 0
-----------------------------------------------------------------------------
(* The login tables: each operator maps the tables before to those after.  *)

NewLoginData(t, k) == [t EXCEPT !.ld = Append(@, CLoginData(k))]

Freed(o) == [CLoginData(o.key) EXCEPT !.alive = FALSE]

(* std::map::insert: an existing entry stays. *)
InsertLoginData(t, l) ==
    [t EXCEPT !.byKey[t.ld[l].key] = IF @ = NULL THEN l ELSE @,
              !.byLogin = IF @ = NULL THEN l ELSE @]

(* Mutant: the object is freed although the account is logged on with it. *)
DeleteLoginDataAlways(t, l) ==
    [t EXCEPT !.byKey[t.ld[l].key] = NULL, !.byLogin = NULL, !.ld[l] = Freed(@)]

(* Mutant: the key of the previous authentication stays in the map. *)
DeleteLoginDataKeepsKey(t, l) ==
    [t EXCEPT !.byLogin = NULL,
              !.ld[l] = IF t.logon = NULL THEN Freed(@)
                                          ELSE [@ EXCEPT !.deleted = TRUE]]

DeleteLoginData(t, l) ==
    [t EXCEPT !.byKey[t.ld[l].key] = NULL,
              !.byLogin = NULL,
              !.ld[l] = IF t.logon = NULL THEN Freed(@)
                                          ELSE [@ EXCEPT !.deleted = TRUE]]

InsertLogonAccountFails(t) == t.logon # NULL \/ t.byLogin = NULL

InsertLogonAccount(t, h) ==
    [t EXCEPT !.ld[t.byLogin].peer = h, !.logon = t.byLogin]

(* What DeleteLogonAccount and RemovePeer do to the account's logon entry. *)
ClearLogon(t) ==
    [t EXCEPT !.ld[t.logon] = IF @.deleted THEN Freed(@)
                                           ELSE [@ EXCEPT !.play = FALSE],
              !.logon = NULL]

LogonOfPeer(t, h) == t.logon # NULL /\ t.ld[t.logon].peer = h
-----------------------------------------------------------------------------
(* Connections. *)

(* DBPacket on a closed connection drops the packet. *)
SendDb(g, m) ==
    toDb' = IF handle[g] = 0 THEN toDb ELSE [toDb EXCEPT ![g] = Append(@, m)]

Reply(g, d, op) ==
    toGame' = [toGame EXCEPT ![g] = Append(@, [op |-> op, desc |-> d])]

Packet(g, op) == /\ busy = 0 /\ toDb[g] # <<>> /\ Head(toDb[g]).op = op
Consume(g)    == toDb' = [toDb EXCEPT ![g] = Tail(@)]

Query(qid, h, d) == results' = Append(results, [qid |-> qid, peer |-> h,
                                                desc |-> d])
-----------------------------------------------------------------------------
(* The db process. *)

(* QUERY_AUTH_LOGIN, asked by the auth server with the key it just made.   *)
AuthLogin ==
    /\ busy = 0
    /\ nAuth < MaxAuth
    /\ nAuth' = nAuth + 1
    /\ LET t == IF db.byLogin = NULL THEN db ELSE DeleteLoginData(db, db.byLogin)
       IN  db' = InsertLoginData(NewLoginData(t, nAuth + 1), Len(t.ld) + 1)
    /\ UNCHANGED <<busy, player_index, results, logoutTimer, net, toDb, toGame,
                   desc, losses>>

QUERY_LOGIN_BY_KEY(g) ==
    /\ Packet(g, "LOGIN_BY_KEY")
    /\ Consume(g)
    /\ LET m == Head(toDb[g]) IN
       IF db.byKey[m.key] = NULL
         THEN Reply(g, m.desc, "LOGIN_NOT_EXIST") /\ UNCHANGED results
       ELSE IF db.logon # NULL
         THEN Reply(g, m.desc, "LOGIN_ALREADY") /\ UNCHANGED results
       ELSE Query("LOGIN_BY_KEY", handle[g], m.desc) /\ UNCHANGED toGame
    /\ UNCHANGED <<db, busy, player_index, logoutTimer, net, desc, nAuth, losses>>

QUERY_LOGOUT(g) ==
    /\ Packet(g, "LOGOUT")
    /\ Consume(g)
    /\ IF db.byLogin = NULL
         THEN UNCHANGED <<db, logoutTimer>>
         ELSE /\ logoutTimer' = (logoutTimer \/ db.ld[db.byLogin].loaded)
              /\ db' = IF LogonOfPeer(db, handle[g]) THEN ClearLogon(db) ELSE db
    /\ UNCHANGED <<busy, player_index, results, net, toGame, desc, nAuth, losses>>

(* SetPlay(true) for the loaded player, or PLAYER_LOAD_FAILED. *)
GrantPlay(g, d) ==
    IF db.byLogin = NULL \/ db.ld[db.byLogin].play
      THEN Reply(g, d, "PLAYER_LOAD_FAILED") /\ UNCHANGED db
      ELSE /\ Reply(g, d, "PLAYER_LOAD_SUCCESS")
           /\ db' = [db EXCEPT !.ld[db.byLogin].play = TRUE]

(* Answered at once when the player is cached, else after a SELECT. *)
QUERY_PLAYER_LOAD(g) ==
    /\ Packet(g, "PLAYER_LOAD")
    /\ Consume(g)
    /\ logoutTimer' = (logoutTimer /\ ~(db.byLogin # NULL /\ db.ld[db.byLogin].loaded))
    /\ \/ GrantPlay(g, Head(toDb[g]).desc) /\ UNCHANGED results
       \/ /\ Query("PLAYER", handle[g], Head(toDb[g]).desc)
          /\ UNCHANGED <<db, toGame>>
    /\ UNCHANGED <<busy, player_index, net, desc, nAuth, losses>>

(* One iteration of the loop over the logins of a SETUP packet; the loop   *)
(* runs to its end before the db does anything else (busy).                *)
QUERY_SETUP(g) ==
    /\ busy \in {0, g}
    /\ toDb[g] # <<>> /\ Head(toDb[g]).op = "SETUP"
    /\ LET keys == Head(toDb[g]).keys
           l == Len(db.ld) + 1
           t == InsertLoginData(NewLoginData(db, Head(keys)), l)
       IN  /\ db' = IF keys = <<>> THEN db
                    ELSE IF InsertLogonAccountFails(t) THEN t
                    ELSE [InsertLogonAccount(t, handle[g])
                            EXCEPT !.ld[l].play = TRUE]
           /\ IF Len(keys) <= 1
                THEN busy' = 0 /\ Consume(g)
                ELSE /\ busy' = g
                     /\ toDb' = [toDb EXCEPT ![g][1].keys = Tail(keys)]
    /\ UNCHANGED <<player_index, results, logoutTimer, net, toGame, desc, nAuth,
                   losses>>

(* UpdateLogoutPlayer: the account's caches are flushed and dropped. *)
LogoutTimerExpires ==
    /\ busy = 0
    /\ logoutTimer
    /\ logoutTimer' = FALSE
    /\ UNCHANGED <<db, busy, player_index, results, net, toDb, toGame, desc,
                   nAuth, losses>>

(* AnalyzeQueryResult: the answer at the head belongs to game g, or to a   *)
(* peer that is gone.                                                      *)
Result(qid) == /\ busy = 0 /\ results # <<>> /\ Head(results).qid = qid
PeerOf(h)   == {g \in Games : handle[g] = h}

ResultWithoutPeer ==
    /\ busy = 0 /\ results # <<>>
    /\ PeerOf(Head(results).peer) = {}
    /\ results' = Tail(results)
    /\ UNCHANGED <<db, busy, player_index, logoutTimer, net, toDb, toGame, desc,
                   nAuth, losses>>

(* An account logs in for the first time: its player_index row is created, *)
(* unless a second look (on the direct connection) finds the row that      *)
(* another login of the account has created meanwhile - then nobody is     *)
(* answered.  found is what the query saw; a query answered with an error  *)
(* is a LOGIN_NOT_EXIST.                                                   *)
RESULT_LOGIN_BY_KEY(g) ==
    /\ Result("LOGIN_BY_KEY")
    /\ handle[g] = Head(results).peer
    /\ LET r == Head(results)
           Ask(qid) == results' = Append(Tail(results), [r EXCEPT !.qid = qid])
       IN  \/ /\ Reply(g, r.desc, "LOGIN_NOT_EXIST")
              /\ results' = Tail(results)
           \/ player_index /\ Ask("LOGIN") /\ UNCHANGED toGame
           \/ /\ ~HasIndex
              /\ IF player_index THEN results' = Tail(results)
                                 ELSE Ask("PLAYER_INDEX_CREATE")
              /\ UNCHANGED toGame
    /\ UNCHANGED <<db, busy, player_index, logoutTimer, net, toDb, desc, nAuth,
                   losses>>

RESULT_PLAYER_INDEX_CREATE(g) ==
    /\ Result("PLAYER_INDEX_CREATE")
    /\ handle[g] = Head(results).peer
    /\ player_index' = TRUE
    /\ results' = Append(Tail(results), [Head(results) EXCEPT !.qid = "LOGIN_BY_KEY"])
    /\ UNCHANGED <<db, busy, logoutTimer, net, toDb, toGame, desc, nAuth, losses>>

(* Mutant: the logon table is not consulted again. *)
RESULT_LOGIN_NoSecondLook(g) ==
    /\ Result("LOGIN")
    /\ handle[g] = Head(results).peer
    /\ results' = Tail(results)
    /\ Reply(g, Head(results).desc, "LOGIN_SUCCESS")
    /\ db' = [InsertLogonAccount(db, handle[g]) EXCEPT !.ld[db.byLogin].loaded = TRUE]
    /\ UNCHANGED <<busy, player_index, logoutTimer, net, toDb, desc, nAuth, losses>>

(* Mutant: the client that lost the race for the logon entry hears nothing. *)
RESULT_LOGIN_RefusesSilently(g) ==
    /\ Result("LOGIN")
    /\ handle[g] = Head(results).peer
    /\ results' = Tail(results)
    /\ IF InsertLogonAccountFails(db)
         THEN UNCHANGED <<toGame, db>>
         ELSE /\ Reply(g, Head(results).desc, "LOGIN_SUCCESS")
              /\ db' = [InsertLogonAccount(db, handle[g])
                          EXCEPT !.ld[db.byLogin].loaded = TRUE]
    /\ UNCHANGED <<busy, player_index, logoutTimer, net, toDb, desc, nAuth, losses>>

(* RESULT_LOGIN: the logon table is consulted again, at the end of the     *)
(* chain, and the account table is copied into the CLoginData that is      *)
(* current now.                                                            *)
RESULT_LOGIN(g) ==
    /\ Result("LOGIN")
    /\ handle[g] = Head(results).peer
    /\ results' = Tail(results)
    /\ IF InsertLogonAccountFails(db)
         THEN Reply(g, Head(results).desc, "LOGIN_ALREADY") /\ UNCHANGED db
         ELSE /\ Reply(g, Head(results).desc, "LOGIN_SUCCESS")
              /\ db' = [InsertLogonAccount(db, handle[g])
                          EXCEPT !.ld[db.byLogin].loaded = TRUE]
    /\ UNCHANGED <<busy, player_index, logoutTimer, net, toDb, desc, nAuth, losses>>

RESULT_PLAYER_LOAD(g) ==
    /\ Result("PLAYER")
    /\ handle[g] = Head(results).peer
    /\ results' = Tail(results)
    /\ GrantPlay(g, Head(results).desc)
    /\ UNCHANGED <<busy, player_index, logoutTimer, net, toDb, desc, nAuth, losses>>

(* Mutant: the accounts logged on through the lost connection stay so. *)
RemovePeerKeepsLogons(g) ==
    /\ busy = 0
    /\ handle[g] # 0
    /\ losses < MaxLoss
    /\ losses' = losses + 1
    /\ handle' = [handle EXCEPT ![g] = 0]
    /\ toDb' = [toDb EXCEPT ![g] = <<>>]
    /\ toGame' = [toGame EXCEPT ![g] = <<>>]
    /\ UNCHANGED <<db, busy, player_index, results, logoutTimer, nHandle, desc, nAuth>>

(* The db notices that the connection of game g is gone: RemovePeer.       *)
RemovePeer(g) ==
    /\ busy = 0
    /\ handle[g] # 0
    /\ losses < MaxLoss
    /\ losses' = losses + 1
    /\ handle' = [handle EXCEPT ![g] = 0]
    /\ toDb' = [toDb EXCEPT ![g] = <<>>]
    /\ toGame' = [toGame EXCEPT ![g] = <<>>]
    /\ db' = IF LogonOfPeer(db, handle[g]) THEN ClearLogon(db) ELSE db
    /\ UNCHANGED <<busy, player_index, results, logoutTimer, nHandle, desc, nAuth>>

(* The db process dies and comes back with empty tables. *)
DbRestart ==
    /\ losses < MaxLoss
    /\ losses' = losses + 1
    /\ db' = NoLogins
    /\ busy' = 0 /\ results' = <<>> /\ logoutTimer' = FALSE
    /\ handle' = [g \in Games |-> 0]
    /\ toDb' = [g \in Games |-> <<>>] /\ toGame' = [g \in Games |-> <<>>]
    /\ UNCHANGED <<player_index, nHandle, desc, nAuth>>
-----------------------------------------------------------------------------
(* A game process. *)

BoundDescs(g) == {d \in Descs : desc[d].game = g /\ desc[d].phase \in Bound}

SetPhase(d, phase) == desc' = [desc EXCEPT ![d].phase = phase]

(* CLIENT_DESC::SetPhase(PHASE_DBCLIENT): connect and send SETUP with the  *)
(* login keys of all bound descriptors, in any order.                      *)
Reconnect(g) ==
    /\ handle[g] = 0
    /\ nHandle' = nHandle + 1
    /\ handle' = [handle EXCEPT ![g] = nHandle + 1]
    /\ \E order \in [1..Cardinality(BoundDescs(g)) -> BoundDescs(g)] :
          /\ \A i, j \in DOMAIN order : order[i] = order[j] => i = j
          /\ toDb' = [toDb EXCEPT ![g] =
                         <<[op |-> "SETUP",
                            keys |-> [i \in DOMAIN order |-> desc[order[i]].key]]>>]
    /\ UNCHANGED <<db, busy, player_index, results, logoutTimer, toGame, desc,
                   nAuth, losses>>

(* CInputLogin::LoginByKey of a new connection. *)
LoginByKey(g, d, k) ==
    /\ desc[d].phase = "free"
    /\ d > 1 => desc[d - 1].phase # "free"
    /\ k <= nAuth
    /\ desc' = [desc EXCEPT ![d] = [game |-> g, key |-> k, phase |-> "asked"]]
    /\ SendDb(g, [op |-> "LOGIN_BY_KEY", desc |-> d, key |-> k])
    /\ UNCHANGED <<db, busy, player_index, results, logoutTimer, net, toGame,
                   nAuth, losses>>

(* A client that was refused tries again on the same connection. *)
LoginAgain(d) ==
    /\ desc[d].phase = "idle"
    /\ SetPhase(d, "asked")
    /\ SendDb(desc[d].game, [op |-> "LOGIN_BY_KEY", desc |-> d, key |-> desc[d].key])
    /\ UNCHANGED <<db, busy, player_index, results, logoutTimer, net, toGame,
                   nAuth, losses>>

(* CInputLogin::CharacterSelect *)
CharacterSelect(d) ==
    /\ desc[d].phase = "select"
    /\ SetPhase(d, "load")
    /\ SendDb(desc[d].game, [op |-> "PLAYER_LOAD", desc |-> d])
    /\ UNCHANGED <<db, busy, player_index, results, logoutTimer, net, toGame,
                   nAuth, losses>>

(* DESC::Destroy, whatever closed the connection (the client, a timeout,   *)
(* DisconnectOfSameLogin here or by HEADER_GG_DISCONNECT from another      *)
(* game).  Only a descriptor with an account table logs out.               *)
DestroyDesc(d) ==
    /\ desc[d].phase \notin {"free", "closed"}
    /\ SetPhase(d, "closed")
    /\ IF desc[d].phase \in Bound
         THEN SendDb(desc[d].game, [op |-> "LOGOUT", desc |-> d])
         ELSE UNCHANGED toDb
    /\ UNCHANGED <<db, busy, player_index, results, logoutTimer, net, toGame,
                   nAuth, losses>>

Answered(g, op) == toGame[g] # <<>> /\ Head(toGame[g]).op = op

(* Mutant: the success of a client that has left is ignored. *)
LoginSuccessForNobody(g) ==
    /\ Answered(g, "LOGIN_SUCCESS")
    /\ toGame' = [toGame EXCEPT ![g] = Tail(@)]
    /\ LET d == Head(toGame[g]).desc
       IN  IF desc[d].phase = "closed" THEN UNCHANGED desc ELSE SetPhase(d, "select")
    /\ UNCHANGED <<db, busy, player_index, results, logoutTimer, net, toDb, nAuth, losses>>

(* CInputDB::LoginSuccess: a descriptor that is gone logs out again, and   *)
(* so does one that is refused here (account status, channel closed).      *)
LoginSuccess(g) ==
    /\ Answered(g, "LOGIN_SUCCESS")
    /\ toGame' = [toGame EXCEPT ![g] = Tail(@)]
    /\ LET d == Head(toGame[g]).desc
           gone == desc[d].phase = "closed"
           Logout == SendDb(g, [op |-> "LOGOUT", desc |-> d])
       IN  \/ gone /\ Logout /\ UNCHANGED desc
           \/ ~gone /\ Logout /\ SetPhase(d, "idle")
           \/ ~gone /\ SetPhase(d, "select") /\ UNCHANGED toDb
    /\ UNCHANGED <<db, busy, player_index, results, logoutTimer, net, nAuth, losses>>

(* LoginFailure / LoginAlready / PlayerLoad / PLAYER_LOAD_FAILED: nothing  *)
(* is done for a descriptor that is gone.                                  *)
AnswerArrives(g, op, phase) ==
    /\ Answered(g, op)
    /\ toGame' = [toGame EXCEPT ![g] = Tail(@)]
    /\ IF desc[Head(toGame[g]).desc].phase = "closed"
         THEN UNCHANGED desc
         ELSE SetPhase(Head(toGame[g]).desc, phase)
    /\ UNCHANGED <<db, busy, player_index, results, logoutTimer, net, toDb,
                   nAuth, losses>>

LoginFailure(g) == AnswerArrives(g, "LOGIN_NOT_EXIST", "idle")
LoginAlready(g) == AnswerArrives(g, "LOGIN_ALREADY", "idle")
PlayerLoad(g)   == AnswerArrives(g, "PLAYER_LOAD_SUCCESS", "play")
PlayerLoadFailed(g) == AnswerArrives(g, "PLAYER_LOAD_FAILED", "select")
-----------------------------------------------------------------------------
ProcessPackets(g) ==
    \/ QUERY_LOGIN_BY_KEY(g) \/ QUERY_LOGOUT(g)
    \/ QUERY_PLAYER_LOAD(g) \/ QUERY_SETUP(g)

AnalyzeQueryResult ==
    \/ ResultWithoutPeer
    \/ \E g \in Games : \/ RESULT_LOGIN_BY_KEY(g) \/ RESULT_PLAYER_INDEX_CREATE(g)
                        \/ RESULT_LOGIN(g) \/ RESULT_PLAYER_LOAD(g)

InputDB(g) ==
    \/ LoginSuccess(g) \/ LoginFailure(g) \/ LoginAlready(g)
    \/ PlayerLoad(g) \/ PlayerLoadFailed(g)

ClientStep ==
    \/ \E g \in Games, d \in Descs, k \in Keys : LoginByKey(g, d, k)
    \/ \E d \in Descs : LoginAgain(d) \/ CharacterSelect(d) \/ DestroyDesc(d)

Next ==
    \/ AuthLogin
    \/ \E g \in Games : ProcessPackets(g) \/ InputDB(g) \/ RemovePeer(g) \/ Reconnect(g)
    \/ AnalyzeQueryResult
    \/ LogoutTimerExpires
    \/ DbRestart
    \/ ClientStep

Spec == Init /\ [][Next]_vars

(* Both processes keep reading their connections, SQL answers arrive and a *)
(* lost connection is re-established.  Clients are free.                   *)
Fairness ==
    /\ \A g \in Games : /\ WF_vars(ProcessPackets(g))
                        /\ WF_vars(InputDB(g))
                        /\ WF_vars(Reconnect(g))
    /\ WF_vars(AnalyzeQueryResult)

FairSpec == Spec /\ Fairness
-----------------------------------------------------------------------------
ToDbMsg == [op : {"LOGIN_BY_KEY"}, desc : Descs, key : Keys]
              \union [op : {"LOGOUT", "PLAYER_LOAD"}, desc : Descs]
              \union [op : {"SETUP"}, keys : Seq(Keys)]

(* Every variable has its type. *)
TypeOK ==
    /\ db \in LoginTables
    /\ busy \in {0} \union Games
    /\ player_index \in BOOLEAN /\ logoutTimer \in BOOLEAN
    /\ results \in Seq([qid : Qid, peer : Nat, desc : Descs])
    /\ handle \in [Games -> Nat] /\ nHandle \in Nat
    /\ toDb \in [Games -> Seq(ToDbMsg)]
    /\ toGame \in [Games -> Seq([op : Answer, desc : Descs])]
    /\ desc \in [Descs -> [game : {0} \union Games, key : 0..MaxAuth, phase : Phase]]
    /\ nAuth \in 0..MaxAuth /\ losses \in 0..MaxLoss

Valid(l) == l # NULL => l \in DOMAIN db.ld /\ db.ld[l].alive

(* No map holds a pointer to a CLoginData that was deleted: DeleteLoginData *)
(* leaves an object that is logged on to DeleteLogonAccount / RemovePeer.   *)
NoDangling ==
    Valid(db.byLogin) /\ Valid(db.logon) /\ \A k \in Keys : Valid(db.byKey[k])

(* Who will release the account's logon entry: descriptors with a bound    *)
(* account table, successes the game has not read, logouts the db has not. *)
Tokens(g) ==
    ({"bound"} \X BoundDescs(g))
    \union ({"success"} \X {i \in DOMAIN toGame[g] : toGame[g][i].op = "LOGIN_SUCCESS"})
    \union ({"logout"} \X {i \in DOMAIN toDb[g] : toDb[g][i].op = "LOGOUT"})

(* While no connection is lost, an account that is logged on has exactly   *)
(* one such token, at the game recorded in its CLoginData, and an account  *)
(* that is not has none: at most one client is ever in the game with it.   *)
SessionToken ==
    losses = 0 =>
        \A g \in Games :
            Cardinality(Tokens(g)) = IF LogonOfPeer(db, handle[g]) THEN 1 ELSE 0

(* Also across lost connections and restarts, an account is not left       *)
(* logged on by nobody: somebody will log it out.                          *)
LogonBacked ==
    db.logon # NULL =>
        \E g \in Games : LogonOfPeer(db, handle[g]) /\ Tokens(g) # {}

(* While no connection is lost, only the key of the last authentication    *)
(* opens a session: QUERY_AUTH_LOGIN revokes the one before.               *)
OnlyLatestKeyValid ==
    losses = 0 => \A k \in Keys : db.byKey[k] # NULL => k = nAuth

(* A client that asked to log in is answered or leaves, unless a lost      *)
(* connection takes the question or the answer with it.                    *)
LoginAnswered ==
    \A d \in Descs :
        desc[d].phase = "asked" ~> desc[d].phase # "asked" \/ losses > 0

(* When all its clients have left, the account is eventually logged out.   *)
ClosedAccountReleased ==
    (\A d \in Descs : desc[d].phase = "closed") ~> db.logon = NULL
=============================================================================

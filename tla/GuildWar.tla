------------------------------ MODULE GuildWar ------------------------------
(***************************************************************************)
(* Wars between two guilds.  The masters declare, accept and refuse at     *)
(* their games; the db keeps the declarations, reservations, wars and      *)
(* their timers, and forwards everything to all games, each of which       *)
(* keeps a copy: what each guild believes of the other, and whether the    *)
(* two are at war.  A war in the field starts when it is accepted; a war   *)
(* on a map is reserved first and starts by itself, and the map says when  *)
(* it is over.                                                             *)
(*                                                                         *)
(* The wars of two pairs of guilds do not meet: m_WarMap, m_DeclareMap and *)
(* m_EnemyGuild are keyed by the pair.  The model has one pair.  Left out: *)
(* scores and ladder points, bets on reserved wars, the war price (all war *)
(* types have price 0), a map that cannot be created, and the conditions   *)
(* on members and ladder points (which may refuse a declaration).          *)
(* MCDbServices puts this beside ItemIDRange, whence the names with War.   *)
(***************************************************************************)
EXTENDS Naturals, Sequences, SequencesExt

CONSTANTS
    WarGames,         \* game processes
    MapGame,          \* the one that has the war maps
    Home,             \* the game where the master of each guild plays
    MaxAsk,           \* bound: what the masters ask for
    MaxEnd,           \* bound: wars ended by game masters and maps, lost
                      \* connections and crashes
    MaxUnderWay,      \* bound: packets under way to a game when something is
                      \* asked of the db
    MaxReserve        \* bound: reservations that wait at once

Guilds == {1, 2}

ASSUME GuildWarAssumption ==
    /\ MapGame \in WarGames /\ Home \in [Guilds -> WarGames]
    /\ {MaxAsk, MaxEnd, MaxUnderWay, MaxReserve} \subseteq Nat

Other(i) == 3 - i
Types == {"field", "map"}
None  == "none"

VARIABLES
    declared,         \* m_DeclareMap: the type each guild has declared, or None
    war,              \* m_WarMap: the war that is on, by the number of its
                      \* timer, or 0
    timers,           \* m_pqOnWar, the earliest of each type first
    reserved,         \* reservations that wait for their time
    waiting,          \* m_pqWaitStart: maps that wait for their war
    enemy,            \* m_EnemyGuild of each guild at each game
    at,               \* games whose m_GuildWar has the two guilds
    map,              \* the war map that the entries of MapGame know
    lone,             \* whether there are war maps that no entry knows
    up,               \* games connected to the db
    warToDb,          \* the connections, FIFO
    warToGame,
    asked,            \* history: who wants the next war
    excuse,           \* history: "none", "lost" after a lost connection or
                      \* crash, "confused" when a master may have answered
                      \* what nobody wants any more: see Consent
    nAsk, nEnd

db      == <<declared, war, timers, reserved, waiting>>
copies  == <<enemy, at, map, lone>>
hist    == <<asked, excuse>>
count   == <<nAsk, nEnd>>
warVars == <<db, copies, up, warToDb, warToGame, hist, count>>

Entry(s, t) == [state |-> s, type |-> t]
NoEntry == Entry(None, "field")

(* From 0 where it is the same from either guild. *)
Packet(op, i, t) == [op |-> op, from |-> i, type |-> t]

-----------------------------------------------------------------------------
(* The db.                                                                 *)

(* ForwardPacket, for_each_peer: to every game that has sent its SETUP.    *)
Forward(m) == warToGame' = [g \in WarGames |-> IF up[g] THEN Append(warToGame[g], m)
                                                        ELSE warToGame[g]]

NoDeclare == [i \in Guilds |-> None]

(* StartWar: a new element for the timer, in place of the one before.      *)
StartWar(t) ==
    LET n == CHOOSE n \in 1..(Len(timers) + 1) :
                \A k \in DOMAIN timers : timers[k].war # n
    IN /\ war' = n
       /\ timers' = Append(timers, [war |-> n, type |-> t, bEnd |-> FALSE])

(* Mutant: the timer of a war that is over is not told. *)
RemoveWar_TimerRuns(q) == war' = 0 /\ timers' = q

(* RemoveWar: the element of the war is marked and stays in the queue q.   *)
RemoveWar(q) ==
    /\ war' = 0
    /\ timers' = [k \in DOMAIN q |-> [q[k] EXCEPT !.bEnd = @ \/ q[k].war = war]]

Received(g, op) == /\ warToDb[g] # <<>> /\ Head(warToDb[g]).op = op
                   /\ warToDb' = [warToDb EXCEPT ![g] = Tail(@)]

(* GUILD_WAR_SEND_DECLARE                                                  *)
DbDeclare(g) ==
    /\ Received(g, "declare")
    /\ LET m == Head(warToDb[g])
       IN /\ declared' = [declared EXCEPT ![m.from] = IF @ = None THEN m.type ELSE @]
          /\ asked' = asked \cup {m.from}
          /\ Forward(m)
    /\ UNCHANGED <<war, timers, reserved, waiting, copies, up, excuse, count>>

(* GUILD_WAR_REFUSE                                                        *)
DbRefuse(g) ==
    /\ Received(g, "refuse")
    /\ declared' = NoDeclare
    /\ asked' = {}
    /\ Forward(Head(warToDb[g]))
    /\ UNCHANGED <<war, timers, reserved, waiting, copies, up, excuse, count>>

(* GUILD_WAR_WAIT_START: the war is reserved, or the INSERT fails.         *)
DbReserve(g) ==
    /\ Received(g, "wait")
    /\ declared' = NoDeclare
    /\ \/ /\ reserved + waiting < MaxReserve
          /\ reserved' = reserved + 1
          /\ asked' = {}
          /\ Forward([Head(warToDb[g]) EXCEPT !.op = "reserve"])
       \/ /\ Forward([Head(warToDb[g]) EXCEPT !.op = "cancel"])
          /\ UNCHANGED <<reserved, asked>>
    /\ UNCHANGED <<war, timers, waiting, copies, up, excuse, count>>

(* GUILD_WAR_ON_WAR: nobody looks whether the war is declared.             *)
DbOnWar(g) ==
    /\ Received(g, "on")
    /\ declared' = NoDeclare
    /\ asked' = {}
    /\ StartWar("field")
    /\ Forward(Head(warToDb[g]))
    /\ UNCHANGED <<reserved, waiting, copies, up, excuse, count>>

(* GUILD_WAR_OVER, RecvWarOver                                             *)
DbOver(g) ==
    /\ Received(g, "over")
    /\ RemoveWar(timers)
    /\ Forward(Head(warToDb[g]))
    /\ UNCHANGED <<declared, reserved, waiting, copies, up, hist, count>>

(* GUILD_WAR_CANCEL, CancelWar                                             *)
DbCancel(g) ==
    /\ Received(g, "cancel")
    /\ declared' = NoDeclare
    /\ RemoveWar(timers)
    /\ Forward(Head(warToDb[g]))
    /\ UNCHANGED <<reserved, waiting, copies, up, hist, count>>

(* WarEnd: nothing, if the war is not on.                                  *)
WarEnd(q) ==
    \/ war = 0 /\ timers' = q /\ UNCHANGED <<war, warToGame>>
    \/ war # 0 /\ RemoveWar(q) /\ Forward(Packet("end", 0, "field"))

(* GUILD_WAR_END, RecvWarEnd                                               *)
DbEnd(g) ==
    /\ Received(g, "end")
    /\ WarEnd(timers)
    /\ UNCHANGED <<declared, reserved, waiting, copies, up, hist, count>>

(* ProcessReserveWar: the time of a reservation, made by either, has come. *)
DbReservedWar ==
    /\ reserved > 0
    /\ reserved' = reserved - 1 /\ waiting' = waiting + 1
    /\ \E i \in Guilds : Forward(Packet("wait", i, "map"))
    /\ UNCHANGED <<declared, war, timers, copies, up, warToDb, hist, count>>

(* CGuildManager::Update, m_pqWaitStart                                    *)
DbStartReserved ==
    /\ waiting > 0
    /\ waiting' = waiting - 1
    /\ StartWar("map")
    /\ Forward(Packet("on", 0, "map"))
    /\ UNCHANGED <<declared, reserved, copies, up, warToDb, hist, count>>

(* CGuildManager::Update, m_pqOnWar: the first timer of a type is due.     *)
FirstOf(t) == {k \in DOMAIN timers : /\ timers[k].type = t
                                     /\ \A j \in 1..(k - 1) : timers[j].type # t}

DbTimer(t) ==
    \E k \in FirstOf(t) :
        /\ LET q == RemoveAt(timers, k)
           IN IF timers[k].bEnd THEN timers' = q /\ UNCHANGED <<war, warToGame>>
                                ELSE WarEnd(q)
        /\ UNCHANGED <<declared, reserved, waiting, copies, up, warToDb, hist, count>>

-----------------------------------------------------------------------------
(* A game applies what the db forwards: CInputDB::GuildWar.                *)

Applied(g, ops) == /\ warToGame[g] # <<>> /\ Head(warToGame[g]).op \in ops
                   /\ warToGame' = [warToGame EXCEPT ![g] = Tail(@)]

(* i has answered at his game, and that is on its way to it; he has yet to *)
(* answer, or the db has yet to read what he has answered.                 *)
Answered(i)  == \E m \in ToSet(warToGame[Home[i]]) :
                    m.from = i /\ m.op \in {"refuse", "on", "reserve"}
Answering(i) == \/ enemy[Home[i]][i].state = "recv"
                \/ \E m \in ToSet(warToDb[Home[i]]) :
                       m.from = i /\ m.op \in {"refuse", "on", "wait"}

(* The declaration of i that reaches g is not his any more, or both are to *)
(* answer.                                                                 *)
Stale(g, i) == g = Home[Other(i)] /\ (i \notin asked \/ Answering(i))

(* DeclareWar: the second guild's entry only if the first had none.        *)
GameDeclare(g) ==
    /\ Applied(g, {"declare"})
    /\ LET m == Head(warToGame[g])
           i == m.from
           j == Other(i)
           e == enemy[g]
       IN IF e[i].state # None THEN UNCHANGED <<enemy, excuse>>
          ELSE /\ enemy' = [enemy EXCEPT
                    ![g][i] = Entry("send", m.type),
                    ![g][j] = IF @.state = None THEN Entry("recv", m.type) ELSE @]
               /\ excuse' = IF excuse = "lost" /\ Stale(g, i) THEN "confused" ELSE excuse
    /\ UNCHANGED <<db, at, map, lone, up, warToDb, asked, count>>

Declaring(e) == e.state \in {"send", "recv"}

(* Mutant: only the guild that refuses forgets the declaration. *)
GameRefuse_OneSide(g) ==
    /\ Applied(g, {"refuse"})
    /\ LET i == Other(Head(warToGame[g]).from)
       IN enemy' = [enemy EXCEPT ![g][i] = IF Declaring(@) THEN NoEntry ELSE @]
    /\ UNCHANGED <<db, at, map, lone, up, warToDb, hist, count>>

(* RefuseWar                                                               *)
GameRefuse(g) ==
    /\ Applied(g, {"refuse"})
    /\ enemy' = [enemy EXCEPT ![g] = [i \in Guilds |-> IF Declaring(@[i]) THEN NoEntry
                                                                         ELSE @[i]]]
    /\ UNCHANGED <<db, at, map, lone, up, warToDb, hist, count>>

(* ReserveWar                                                              *)
GameReserve(g) ==
    /\ Applied(g, {"reserve"})
    /\ enemy' = [enemy EXCEPT ![g] = [i \in Guilds |->
                    Entry("reserve", IF @[i].state = None THEN Head(warToGame[g]).type
                                                          ELSE @[i].type)]]
    /\ UNCHANGED <<db, at, map, lone, up, warToDb, hist, count>>

(* WaitStartWar of the guild that has accepted, or if that refuses, of the *)
(* other: only one of the two entries is set.  The game that has the maps  *)
(* makes a new one and forgets the one before.                             *)
GameWaitStart(g) ==
    /\ Applied(g, {"wait"})
    /\ LET Ready(i) == enemy[g][i].state \notin {None, "wait"}
           first == Head(warToGame[g]).from
           i == IF Ready(first) THEN first ELSE Other(first)
       IN \/ ~Ready(i) /\ UNCHANGED <<enemy, map, lone>>
          \/ /\ Ready(i)
             /\ enemy' = [enemy EXCEPT ![g][i].state = "wait"]
             /\ IF g = MapGame /\ enemy[g][i].type = "map"
                THEN map' = "open" /\ lone' = (lone \/ map = "open")
                ELSE UNCHANGED <<map, lone>>
    /\ UNCHANGED <<db, at, up, warToDb, hist, count>>

(* StartWar, if CheckStartWar of both guilds agrees.                       *)
GameStartWar(g) ==
    /\ Applied(g, {"on"})
    /\ IF \A i \in Guilds : enemy[g][i].state \notin {None, "on"}
       THEN /\ enemy' = [enemy EXCEPT ![g] = [i \in Guilds |-> [@[i] EXCEPT !.state = "on"]]]
            /\ at' = at \cup {g}
       ELSE UNCHANGED <<enemy, at>>
    /\ UNCHANGED <<db, map, lone, up, warToDb, hist, count>>

(* EndWar of both guilds, if the two are at war here; the war map ends.    *)
EndWar(g) ==
    IF g \notin at THEN UNCHANGED <<enemy, at, map, lone>>
    ELSE /\ enemy' = [enemy EXCEPT ![g] = [i \in Guilds |-> NoEntry]]
         /\ at' = at \ {g}
         /\ map' = IF g = MapGame THEN None ELSE map
         /\ UNCHANGED lone

GameEnd(g) ==
    /\ Applied(g, {"end", "over", "cancel"})
    /\ EndWar(g)
    /\ UNCHANGED <<db, up, warToDb, hist, count>>

-----------------------------------------------------------------------------
(* What is asked of the db.                                                *)

(* The db takes what is asked one after the other, and who asks while the  *)
(* db has yet to answer sees no more than before: nothing else is under    *)
(* way to the db when something is asked.                                  *)
Send(g, m) ==
    /\ \A h \in WarGames : warToDb[h] = <<>> /\ Len(warToGame[h]) < MaxUnderWay
    /\ up[g]
    /\ warToDb' = [warToDb EXCEPT ![g] = Append(@, m)]

Ask(g, m) ==
    /\ nAsk < MaxAsk /\ nAsk' = nAsk + 1
    /\ Send(g, m)
    /\ UNCHANGED <<db, copies, up, warToGame, asked, nEnd>>

(* do_war with a guild nothing is known of: RequestDeclareWar.             *)
Declare(i, t) ==
    LET e == enemy[Home[i]]
    IN /\ e[i].state = None /\ e[Other(i)].state # "on"
       /\ Ask(Home[i], Packet("declare", i, t))
       /\ UNCHANGED excuse

(* The master answers twice.                                               *)
NoteTwice(i) == excuse' = IF Answered(i) THEN "confused" ELSE excuse

(* do_war with a guild that has declared: RequestDeclareWar.               *)
Accept(i) ==
    LET e == enemy[Home[i]]
    IN /\ e[i].state = "recv" /\ e[Other(i)].state # "on"
       /\ Ask(Home[i], Packet(IF e[i].type = "field" THEN "on" ELSE "wait", i, e[i].type))
       /\ NoteTwice(i)

(* do_nowar, or do_war when the other guild is at war or its master away:  *)
(* RequestRefuseWar.                                                       *)
Refuse(i) ==
    /\ enemy[Home[i]][i].state = "recv"
    /\ Ask(Home[i], Packet("refuse", i, "field"))
    /\ NoteTwice(i)

(* do_stop_guild_war, do_cancel_guild_war of a game master.                *)
GameMaster(g) ==
    /\ nEnd < MaxEnd /\ nEnd' = nEnd + 1
    /\ \E op \in {"end", "cancel"} : Send(g, Packet(op, 0, "field"))
    /\ UNCHANGED <<db, copies, up, warToGame, hist, nAsk>>

(* RequestWarOver, END when the two are not at war here: of CheckScore,    *)
(* whenever it looks, until the map has ended, and of its timeout; and of  *)
(* a map that nobody ends, because no entry knows it.                      *)
RequestWarOver ==
    /\ (map = "open" /\ MapGame \in at) \/ lone
    /\ nEnd < MaxEnd /\ nEnd' = nEnd + 1
    /\ Send(MapGame, Packet(IF enemy[MapGame][1].state = "on" THEN "over" ELSE "end",
                            0, "field"))
    /\ UNCHANGED <<db, copies, up, warToGame, hist, nAsk>>

-----------------------------------------------------------------------------
(* Lost connections and crashes.                                           *)

(* Mutant: the wars go on. *)
StopAllGuildWar_Not(gs) == UNCHANGED copies

(* CLIENT_DESC::Destroy: the wars end here.  Declarations stay.            *)
StopAllGuildWar(gs) ==
    /\ enemy' = [g \in WarGames |-> IF g \in gs \cap at THEN [i \in Guilds |-> NoEntry]
                                                        ELSE enemy[g]]
    /\ at' = at \ gs
    /\ map' = IF MapGame \in gs \cap at THEN None ELSE map
    /\ UNCHANGED lone

Loses(gs) ==
    /\ nEnd < MaxEnd
    /\ nEnd' = nEnd + 1
    /\ up' = [g \in WarGames |-> IF g \in gs THEN FALSE ELSE up[g]]
    /\ warToDb' = [g \in WarGames |-> IF g \in gs THEN <<>> ELSE warToDb[g]]
    /\ warToGame' = [g \in WarGames |-> IF g \in gs THEN <<>> ELSE warToGame[g]]
    /\ excuse' = IF \/ excuse = "confused"
                    \/ \E i \in Guilds : Home[i] \in gs /\ Answered(i)
                 THEN "confused" ELSE "lost"
    /\ UNCHANGED <<asked, nAsk>>

WarConnectionLost(g) ==
    /\ up[g]
    /\ Loses({g})
    /\ StopAllGuildWar({g})
    /\ UNCHANGED db

GameCrash(g) ==
    /\ up[g]
    /\ Loses({g})
    /\ enemy' = [enemy EXCEPT ![g] = [i \in Guilds |-> NoEntry]]
    /\ at' = at \ {g}
    /\ IF g = MapGame THEN map' = None /\ lone' = FALSE ELSE UNCHANGED <<map, lone>>
    /\ UNCHANGED db

(* The db stops and starts: BootReserveWar keeps the reservations whose    *)
(* time has not come; everything else is gone.                             *)
WarDbRestart ==
    /\ Loses(WarGames)
    /\ StopAllGuildWar(WarGames)
    /\ reserved' \in 0..reserved
    /\ declared' = NoDeclare /\ war' = 0 /\ timers' = <<>> /\ waiting' = 0

(* OnSetup: the war, the declarations and the reservations.  FSendPeerWar  *)
(* swaps the two guilds half of the time.                                  *)
OnSetup(g) ==
    /\ ~up[g]
    /\ up' = [up EXCEPT ![g] = TRUE]
    /\ \E by \in [Guilds -> Guilds] :
          LET Sent(i) == IF declared[i] = None THEN <<>>
                         ELSE <<Packet("declare", by[i], declared[i])>>
          IN warToGame' = [warToGame EXCEPT ![g] =
                    (IF war = 0 THEN <<>> ELSE <<Packet("on", 0, "field")>>)
                    \o Sent(1) \o Sent(2)
                    \o [k \in 1..reserved |-> Packet("reserve", 0, "map")]]
    /\ UNCHANGED <<db, copies, warToDb, hist, count>>

-----------------------------------------------------------------------------
WarInit ==
    /\ declared = NoDeclare /\ war = 0 /\ timers = <<>>
    /\ reserved = 0 /\ waiting = 0
    /\ enemy = [g \in WarGames |-> [i \in Guilds |-> NoEntry]]
    /\ at = {} /\ map = None /\ lone = FALSE
    /\ up = [g \in WarGames |-> TRUE]
    /\ warToDb = [g \in WarGames |-> <<>>] /\ warToGame = [g \in WarGames |-> <<>>]
    /\ asked = {} /\ excuse = "none"
    /\ nAsk = 0 /\ nEnd = 0

DbStep ==
    \/ \E g \in WarGames : \/ DbDeclare(g) \/ DbRefuse(g) \/ DbReserve(g) \/ DbOnWar(g)
                           \/ DbOver(g) \/ DbCancel(g) \/ DbEnd(g)
    \/ DbReservedWar \/ DbStartReserved
    \/ \E t \in Types : DbTimer(t)

WarGameStep(g) ==
    \/ GameDeclare(g) \/ GameRefuse(g) \/ GameReserve(g)
    \/ GameWaitStart(g) \/ GameStartWar(g) \/ GameEnd(g)
    \/ GameMaster(g) \/ WarConnectionLost(g) \/ GameCrash(g) \/ OnSetup(g)

MasterStep(i) == (\E t \in Types : Declare(i, t)) \/ Accept(i) \/ Refuse(i)

WarNext ==
    \/ DbStep
    \/ \E g \in WarGames : WarGameStep(g)
    \/ \E i \in Guilds : MasterStep(i)
    \/ RequestWarOver \/ WarDbRestart

WarSpec == WarInit /\ [][WarNext]_warVars

-----------------------------------------------------------------------------
(* Properties.                                                             *)

(* Every part of the state has its type.                                   *)
Packets ==
    {m \in [op : {"declare", "refuse", "wait", "reserve", "on", "end", "over", "cancel"},
            from : {0} \cup Guilds, type : Types] :
        m.op \in {"declare", "refuse", "wait"} => m.from \in Guilds}
Entries == [state : {None, "send", "recv", "reserve", "wait", "on"}, type : Types]

WarTypeOK ==
    /\ declared \in [Guilds -> Types \cup {None}]
    /\ war \in Nat /\ timers \in Seq([war : Nat, type : Types, bEnd : BOOLEAN])
    /\ reserved \in Nat /\ waiting \in Nat
    /\ enemy \in [WarGames -> [Guilds -> Entries]]
    /\ at \subseteq WarGames /\ map \in {None, "open"} /\ lone \in BOOLEAN
    /\ up \in [WarGames -> BOOLEAN]
    /\ warToDb \in [WarGames -> Seq(Packets)] /\ warToGame \in [WarGames -> Seq(Packets)]
    /\ asked \subseteq Guilds /\ excuse \in {"none", "lost", "confused"}

(* Whether the two guilds will be at war at game g when it has applied     *)
(* what is under way to it, as far as ON_WAR takes effect.                 *)
WarPackets == {"on", "end", "over", "cancel"}
WillBeAtWar(g) ==
    LET m == warToGame[g]
    IN \/ g \in at /\ \A k \in DOMAIN m : m[k].op \notin WarPackets
       \/ \E k \in DOMAIN m :
             m[k].op = "on" /\ \A j \in DOMAIN m : m[j].op \in WarPackets => j <= k

(* No game goes on with a war that the db has ended: it is told, or loses  *)
(* its connection, which ends its wars (CLIENT_DESC::Destroy).             *)
NoWarLeft == \A g \in WarGames : /\ g \in at => up[g]
                                 /\ up[g] /\ WillBeAtWar(g) => war # 0

(* "A Declare -> B Declare -> StartWar" (the comment over                  *)
(* RequestDeclareWar): a war is reserved or started only when both masters *)
(* want it.  Not so when a master answers again while his game has yet to  *)
(* hear of his answer; nor, once a connection was lost or a process has    *)
(* crashed, when an answer is lost with it, or a declaration reaches a     *)
(* game, by OnSetup or late, whose guild does not want the war any more or *)
(* has one to answer itself.                                               *)
Consent ==
    [][(\E g \in WarGames : DbOnWar(g) \/ DbReserve(g)) =>
            \/ \E g \in WarGames : /\ warToDb'[g] # warToDb[g]
                                   /\ asked \cup {Head(warToDb[g]).from} = Guilds
            \/ excuse = "confused"]_warVars

(* The timer of a war ends no later war of the two guilds.  Two wars at    *)
(* once, which a master who accepts twice or a lost connection makes       *)
(* possible, leave a timer that nobody ends.                               *)
TimerEndsItsWar ==
    [][(\E t \in Types : DbTimer(t)) /\ war' # war =>
            \/ \A k \in DOMAIN timers' : timers'[k].war # war
            \/ excuse # "none"]_warVars
=============================================================================

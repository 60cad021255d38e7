---------------------------- MODULE MCDbServices ----------------------------
(* Two services of the db that have their word in every game: the ranges   *)
(* of item ids, and the wars of guilds.  They share no state, so that a    *)
(* behaviour is one of either and the other stays as it was at first.      *)
(*                                                                         *)
(* Four ranges of three ids for two games, of which a game issues two at   *)
(* most, or one where an item is in the table already; then the db's own.  *)
(* The masters of two guilds at different games, of which one has the war  *)
(* maps; these two games are not alike, the other two are.                 *)
EXTENDS ItemIDRange, GuildWar, TLC

CONSTANTS g1, g2, w1, w2

MCGames == {g1, g2}
MCRows  == {4, 7, 10, 19}
GamesSymmetry == Permutations(MCGames)

MCWarGames == {w1, w2}
MCHome     == <<w1, w2>>

VARIABLE service      \* what the behaviour is one of

MCInit == Init /\ WarInit /\ service \in {"item ids", "guild wars"}

(* Next of ItemIDRange and of GuildWar, every action by itself, so that    *)
(* TLC counts what each does.                                              *)
I == service = "item ids" /\ UNCHANGED <<service, warVars>>
G == service = "guild wars" /\ UNCHANGED <<service, vars>>

MCNext ==
    \/ \E g \in Games :
          \/ I /\ DbBoot(g)
          \/ I /\ DbRequest(g)
          \/ I /\ GameStart(g)
          \/ I /\ GameBoot(g)
          \/ I /\ GameSpare(g)
          \/ I /\ GetNewID(g)
          \/ I /\ SwitchRange(g)
          \/ I /\ RunDry(g)
          \/ I /\ ConnectionLost(g)
          \/ I /\ Reconnect(g)
          \/ \E keep \in {{}, mem[g]} : I /\ GameStop(g, keep)
    \/ I /\ Award
    \/ \E written \in {{}, cache} : I /\ DbRestart(written)
    \/ I /\ ItemStep
    \/ \E g \in MCWarGames :
          \/ G /\ DbDeclare(g)
          \/ G /\ DbRefuse(g)
          \/ G /\ DbReserve(g)
          \/ G /\ DbOnWar(g)
          \/ G /\ DbOver(g)
          \/ G /\ DbCancel(g)
          \/ G /\ DbEnd(g)
          \/ G /\ GameDeclare(g)
          \/ G /\ GameRefuse(g)
          \/ G /\ GameReserve(g)
          \/ G /\ GameWaitStart(g)
          \/ G /\ GameStartWar(g)
          \/ G /\ GameEnd(g)
          \/ G /\ GameMaster(g)
          \/ G /\ WarConnectionLost(g)
          \/ G /\ GameCrash(g)
          \/ G /\ OnSetup(g)
    \/ \E t \in Types :
          \/ G /\ DbTimer(t)
          \/ \E i \in Guilds : G /\ Declare(i, t)
    \/ \E i \in Guilds :
          \/ G /\ Accept(i)
          \/ G /\ Refuse(i)
    \/ G /\ DbReservedWar
    \/ G /\ DbStartReserved
    \/ G /\ RequestWarOver
    \/ G /\ WarDbRestart

MCSpec == MCInit /\ [][MCNext]_<<service, vars, warVars>>
=============================================================================

------------------------------- MODULE Party -------------------------------
(***************************************************************************)
(* The parties of a channel.  Every game process keeps all of them, so     *)
(* that members on different maps see one another; the db keeps them too.  *)
(* A game changes its own replica at once and tells the db, which changes  *)
(* its own and forwards the packet to the other games.  Nothing orders a   *)
(* game's own changes and those it has yet to be told of.                  *)
(*                                                                         *)
(* The PARTY_ADD of a player and the PARTY_SET_MEMBER_LEVEL that Link sends *)
(* after it travel together and are one packet here.                       *)
(*                                                                         *)
(* A party is named by its leader's player id, which is how the code finds *)
(* it: a leader who leaves takes the party along.  Roles other than the    *)
(* leader's and what members see of one another are left out.              *)
(***************************************************************************)
EXTENDS Integers, FiniteSets, SequencesExt

CONSTANTS
    Games,            \* game processes of the channel
    Players,          \* players
    None,             \* no party, no game
    MaxMember,        \* PARTY_MAX_MEMBER
    MaxStep,          \* bound: moves, and invitations accepted, members gone
    MaxMove           \* bound: moves: characters that leave, lost connections,
                      \* processes that crash

ASSUME PartyAssumption ==
    /\ IsFiniteSet(Games) /\ IsFiniteSet(Players)
    /\ None \notin Games \cup Players
    /\ MaxMember \in Nat \ {0, 1}
    /\ MaxStep \in Nat /\ MaxMove \in Nat

VARIABLES
    party,            \* m_map_pkParty of each game: the party of each player
    at,               \* the game where a player's character is, or None
    linked,           \* players whose character knows its party (GetParty)
    pm,               \* m_map_pkChannelParty of the db: members, by leader
    toDb, toGame,     \* packets under way
    undefined,        \* games that wrote through an erased iterator
    excuses,          \* history: what happened that the code does not survive
    nStep, nMove

vars == <<party, at, linked, pm, toDb, toGame, undefined, excuses,
          nStep, nMove>>

Created(l)    == [k |-> "create", l |-> l, p |-> l]
Deleted(l)    == [k |-> "delete", l |-> l, p |-> l]
Added(l, p)   == [k |-> "add",    l |-> l, p |-> p]
Removed(l, p) == [k |-> "remove", l |-> l, p |-> p]
Leveled(l, p) == [k |-> "level",  l |-> l, p |-> p]
LoggedOut(p)  == [k |-> "logout", l |-> p, p |-> p]
Loaded(p)     == [k |-> "load",   l |-> p, p |-> p]

Members(g, l) == {p \in Players : party[g][p] = l}
NoParties     == [p \in Players |-> None]

(* The replica m without party l; without player p in his party l.         *)
Without(m, l) == [p \in Players |-> IF m[p] = l THEN None ELSE m[p]]
QuitOf(m, l, p) == IF p = l THEN Without(m, l) ELSE [m EXCEPT ![p] = None]
QuitPacket(l, p) == IF p = l THEN Deleted(l) ELSE Removed(l, p)

(* Mutant: who loses his party keeps the link to it. *)
SetReplica_KeepLinks(g, m) ==
    /\ party'  = [party EXCEPT ![g] = m]
    /\ UNCHANGED linked

(* Whoever loses his party at g loses the link too.                        *)
SetReplica(g, m) ==
    /\ party'  = [party EXCEPT ![g] = m]
    /\ linked' = {p \in linked : at[p] = g => m[p] = party[g][p]}

SendAll(g, packets) == toDb' = [toDb EXCEPT ![g] = @ \o packets]
Moves ==
    /\ nMove < MaxMove /\ nStep < MaxStep
    /\ nMove' = nMove + 1 /\ nStep' = nStep + 1
Alright(g) == undefined[g] = FALSE

-----------------------------------------------------------------------------
(* The db.                                                                 *)

(* The party exists, and the packet is not in vain.                        *)
DbTakes(packet) ==
    CASE packet.k = "create" -> packet.l \notin DOMAIN pm
      [] packet.k = "delete" -> packet.l \in DOMAIN pm
      [] packet.k = "add"    -> packet.l \in DOMAIN pm /\ packet.p \notin pm[packet.l]
      [] packet.k = "remove" -> packet.l \in DOMAIN pm /\ packet.p \in pm[packet.l]
      [] packet.k = "level"  -> FALSE

(* Mutant: who is removed stays in the db's party. *)
DbApply_KeepRemoved(packet) ==
    CASE packet.k = "create" -> [l \in DOMAIN pm \cup {packet.l} |->
                                  IF l = packet.l THEN {} ELSE pm[l]]
      [] packet.k = "delete" -> [l \in DOMAIN pm \ {packet.l} |-> pm[l]]
      [] packet.k = "add"    -> [pm EXCEPT ![packet.l] = @ \cup {packet.p}]
      [] packet.k = "remove" -> pm

DbApply(packet) ==
    CASE packet.k = "create" -> [l \in DOMAIN pm \cup {packet.l} |->
                                  IF l = packet.l THEN {} ELSE pm[l]]
      [] packet.k = "delete" -> [l \in DOMAIN pm \ {packet.l} |-> pm[l]]
      [] packet.k = "add"    -> [pm EXCEPT ![packet.l] = @ \cup {packet.p}]
      [] packet.k = "remove" -> [pm EXCEPT ![packet.l] = @ \ {packet.p}]

(* ForwardPacket: to the games of the channel but the sender.  A level     *)
(* goes to the sender also.                                                *)
Forward(g, packet) ==
    [h \in Games |->
        IF h # g THEN Append(toGame[h], packet)
        ELSE IF packet.k = "add" THEN Append(toGame[h], Leveled(packet.l, packet.p))
        ELSE toGame[h]]

(* SET_MEMBER_LEVEL, alone or behind an ADD that was in vain.              *)
DbLevels(packet) ==
    /\ packet.k \in {"add", "level"}
    /\ packet.l \in DOMAIN pm /\ packet.p \in pm[packet.l]

(* QUERY_PARTY_*.                                                          *)
DbParty(g) ==
    LET packet == Head(toDb[g])
    IN /\ toDb[g] # <<>> /\ packet.k # "logout"
       /\ toDb' = [toDb EXCEPT ![g] = Tail(@)]
       /\ pm' = IF DbTakes(packet) THEN DbApply(packet) ELSE pm
       /\ toGame' = IF DbTakes(packet) THEN Forward(g, packet)
                    ELSE IF DbLevels(packet)
                    THEN [h \in Games |->
                             Append(toGame[h], Leveled(packet.l, packet.p))]
                    ELSE toGame
       /\ UNCHANGED <<party, at, linked, undefined, excuses, nStep, nMove>>

DbLogout(g) ==
    /\ toDb[g] # <<>> /\ Head(toDb[g]).k = "logout"
    /\ toDb' = [toDb EXCEPT ![g] = Tail(@)]
    /\ UNCHANGED <<party, at, linked, pm, toGame, undefined, excuses, nStep, nMove>>

(* A player logs in at g: his account is free once the db has the logout,  *)
(* and what the db sent to g before comes first.                           *)
OnTheWay(p) == \E g \in Games : \/ Contains(toDb[g], LoggedOut(p))
                                \/ Contains(toGame[g], Loaded(p))

DbLoad(g, p) ==
    /\ at[p] = None /\ ~OnTheWay(p)
    /\ toGame' = [toGame EXCEPT ![g] = Append(@, Loaded(p))]
    /\ UNCHANGED <<party, at, linked, pm, toDb, undefined, excuses, nStep, nMove>>

-----------------------------------------------------------------------------
(* A game, told by the db.                                                 *)

Received(g, kinds) ==
    /\ Alright(g)
    /\ toGame[g] # <<>> /\ Head(toGame[g]).k \in kinds
    /\ toGame' = [toGame EXCEPT ![g] = Tail(@)]

(* The packet meant party l, and finds the player in found.                *)
Crossed(l, found) ==
    IF found \in {None, l} THEN excuses ELSE excuses \cup {"crossed"}

(* PARTY_CREATE and PARTY_SET_MEMBER_LEVEL: P2PCreateParty, which makes a  *)
(* party if the player has none, whoever is its leader.                    *)
P2PCreateParty(g) ==
    LET packet == Head(toGame[g])
        l == packet.l
    IN /\ Received(g, {"create", "level"})
       /\ IF party[g][l] = None
          THEN SetReplica(g, [party[g] EXCEPT ![l] = l])
          ELSE UNCHANGED <<party, linked>>
       /\ excuses' = IF packet.k = "level" /\ party[g][l] = None
                     THEN excuses \cup {"ghost"}
                     ELSE Crossed(l, party[g][l])
       /\ UNCHANGED <<at, pm, toDb, undefined, nStep, nMove>>

(* PARTY_DELETE: the party in which the leader is.                         *)
P2PDeleteParty(g) ==
    LET l == Head(toGame[g]).l
    IN /\ Received(g, {"delete"})
       /\ IF party[g][l] = None THEN UNCHANGED <<party, linked>>
          ELSE SetReplica(g, Without(party[g], party[g][l]))
       /\ excuses' = Crossed(l, party[g][l])
       /\ UNCHANGED <<at, pm, toDb, undefined, nStep, nMove>>

(* PARTY_ADD: P2PJoin.  A player who is in another party is made to quit   *)
(* it, which is told to the db, and the iterator that Quit has erased is   *)
(* written to.  If there is no such party, the level makes one.            *)
P2PJoinParty(g) ==
    LET packet == Head(toGame[g])
        to   == party[g][packet.l]
        from == party[g][packet.p]
    IN /\ Received(g, {"add"})
       /\ IF to = None THEN SetReplica(g, [party[g] EXCEPT ![packet.l] = packet.l])
          ELSE IF from = None THEN SetReplica(g, [party[g] EXCEPT ![packet.p] = to])
          ELSE UNCHANGED <<party, linked>>
       /\ IF to # None /\ from \notin {None, to}
          THEN /\ SendAll(g, <<QuitPacket(from, packet.p)>>)
               /\ undefined' = [undefined EXCEPT ![g] = TRUE]
          ELSE UNCHANGED <<toDb, undefined>>
       /\ excuses' = IF to = None THEN excuses \cup {"ghost"}
                     ELSE Crossed(packet.l, to)
       /\ UNCHANGED <<at, pm, nStep, nMove>>

(* PARTY_REMOVE: the player quits whatever party he is in.  A leader's     *)
(* party is deleted, and the db told.                                      *)
P2PQuitParty(g) ==
    LET packet == Head(toGame[g])
        from == party[g][packet.p]
    IN /\ Received(g, {"remove"})
       /\ IF from = None THEN UNCHANGED <<party, linked>>
          ELSE SetReplica(g, QuitOf(party[g], from, packet.p))
       /\ IF from = packet.p THEN SendAll(g, <<Deleted(from)>>) ELSE UNCHANGED toDb
       /\ excuses' = Crossed(packet.l, from)
       /\ UNCHANGED <<at, pm, undefined, nStep, nMove>>

(* The character enters the game: CPartyManager::SetParty.                 *)
EnterGame(g) ==
    LET p == Head(toGame[g]).p
    IN /\ Received(g, {"load"})
       /\ at' = [at EXCEPT ![p] = g]
       /\ IF party[g][p] = None THEN UNCHANGED <<linked, toDb>>
          ELSE /\ linked' = linked \cup {p}
               /\ SendAll(g, <<Leveled(party[g][p], p)>>)
       /\ UNCHANGED <<party, pm, undefined, excuses, nStep, nMove>>

-----------------------------------------------------------------------------
(* A game, by itself.                                                      *)

(* Leaves it: Unlink.                                                      *)
Disconnect(p) ==
    /\ Moves
    /\ at[p] # None /\ Alright(at[p])
    /\ at' = [at EXCEPT ![p] = None]
    /\ linked' = linked \ {p}
    /\ SendAll(at[p], <<LoggedOut(p)>>)
    /\ UNCHANGED <<party, pm, toGame, undefined, excuses>>

Operation(g) ==
    /\ nStep < MaxStep
    /\ nStep' = nStep + 1
    /\ Alright(g)
    /\ UNCHANGED <<at, pm, toGame, nMove>>

(* Join of p to l's party, which is new if fresh: whether p is in another  *)
(* one, and the packets that are sent.                                     *)
Clash(g, l, p, fresh) == party[g][p] # None /\ (fresh \/ party[g][p] # l)
JoinPackets(g, l, p, fresh) ==
    IF Clash(g, l, p, fresh) THEN <<QuitPacket(party[g][p], p)>>
    ELSE <<Added(l, p)>>

(* Something is left of an earlier party of l: packets are sent, and read, *)
(* that name him and mean that one.                                        *)
Lingers(g, l) ==
    \/ l \in DOMAIN pm
    \/ \E h \in Games :
          \/ h # g /\ party[h][l] = l
          \/ \E q \in {toDb[h], toGame[h]} : \E i \in DOMAIN q :
                q[i].l = l /\ q[i].k \notin {"logout", "load"}

(* Mutant: the invited may be in a party already. *)
PartyInviteAccept_AnyInvitee(l, p) ==
    LET g     == at[l]
        fresh == l \notin linked
        bad   == (fresh /\ Clash(g, l, l, TRUE)) \/ Clash(g, l, p, FALSE)
    IN /\ l # p /\ g # None /\ at[p] = g
       /\ Operation(g)
       /\ ~fresh => party[g][l] = l /\ Cardinality(Members(g, l)) # MaxMember
       /\ SendAll(g, (IF fresh THEN <<Created(l)>> \o JoinPackets(g, l, l, TRUE) ELSE <<>>)
                     \o (IF fresh /\ Clash(g, l, l, TRUE) THEN <<>>
                         ELSE JoinPackets(g, l, p, FALSE)))
       /\ IF bad THEN /\ undefined' = [undefined EXCEPT ![g] = TRUE]
                      /\ UNCHANGED <<party, linked>>
          ELSE /\ party' = [party EXCEPT ![g][l] = l, ![g][p] = l]
               /\ linked' = linked \cup {l, p}
               /\ UNCHANGED undefined
       /\ excuses' = IF fresh /\ Lingers(g, l) THEN excuses \cup {"refounded"} ELSE excuses

(* PartyInviteAccept: p accepts the invitation of l.  l makes a party if   *)
(* his character knows of none.                                            *)
PartyInviteAccept(l, p) ==
    LET g     == at[l]
        fresh == l \notin linked
        bad   == (fresh /\ Clash(g, l, l, TRUE)) \/ Clash(g, l, p, FALSE)
    IN /\ l # p /\ g # None /\ at[p] = g
       /\ Operation(g)
       /\ p \notin linked
       /\ ~fresh => party[g][l] = l /\ Cardinality(Members(g, l)) # MaxMember
       /\ SendAll(g, (IF fresh THEN <<Created(l)>> \o JoinPackets(g, l, l, TRUE) ELSE <<>>)
                     \o (IF fresh /\ Clash(g, l, l, TRUE) THEN <<>>
                         ELSE JoinPackets(g, l, p, FALSE)))
       /\ IF bad THEN /\ undefined' = [undefined EXCEPT ![g] = TRUE]
                      /\ UNCHANGED <<party, linked>>
          ELSE /\ party' = [party EXCEPT ![g][l] = l, ![g][p] = l]
               /\ linked' = linked \cup {l, p}
               /\ UNCHANGED undefined
       /\ excuses' = IF fresh /\ Lingers(g, l) THEN excuses \cup {"refounded"} ELSE excuses

(* p leaves l's party, or is expelled.  DeleteParty if only two are in it, *)
(* Quit otherwise.                                                         *)
QuitOrDelete(g, l, p) ==
    LET gone == IF Cardinality(Members(g, l)) = 2 THEN l ELSE p
    IN /\ Operation(g)
       /\ SetReplica(g, QuitOf(party[g], l, gone))
       /\ SendAll(g, <<QuitPacket(l, gone)>>)
       /\ UNCHANGED <<undefined, excuses>>

(* do_ungroup, PartyRemove of oneself.                                     *)
Ungroup(p) ==
    /\ p \in linked
    /\ QuitOrDelete(at[p], party[at[p]][p], p)

(* PartyRemove by the leader.                                              *)
PartyRemove(l, p) ==
    /\ l \in linked /\ party[at[l]][l] = l
    /\ p # l /\ p \in Members(at[l], l)
    /\ QuitOrDelete(at[l], l, p)

-----------------------------------------------------------------------------
(* Faults.                                                                 *)

(* SendPartyOnSetup: a party after another, each with its members.  The    *)
(* order of the two maps is that of the player ids, any here.              *)
PartyPackets(l, members) ==
    <<Created(l)>> \o [i \in DOMAIN members |-> Added(l, members[i])]

SetupPackets ==
    {FlattenSeq([i \in DOMAIN ls |-> PartyPackets(ls[i], ms[ls[i]])]) :
        ls \in SetToSeqs(DOMAIN pm),
        ms \in {m \in [DOMAIN pm -> UNION {SetToSeqs(pm[l]) : l \in DOMAIN pm}] :
                   \A l \in DOMAIN pm : m[l] \in SetToSeqs(pm[l])}}

(* g connects to the db afresh: what was under way is lost, and the        *)
(* parties are deleted and sent anew.                                      *)
Setup(games, packets) ==
    /\ Moves
    /\ party'  = [h \in Games |-> IF h \in games THEN NoParties ELSE party[h]]
    /\ linked' = {p \in linked : at[p] \notin games}
    /\ toDb'   = [h \in Games |-> IF h \in games THEN <<>> ELSE toDb[h]]
    /\ toGame' = [h \in Games |-> IF h \in games THEN packets ELSE toGame[h]]

(* The process crashes and is started again.                               *)
GameRestart(g) ==
    /\ \E packets \in SetupPackets : Setup({g}, packets)
    /\ at' = [p \in Players |-> IF at[p] = g THEN None ELSE at[p]]
    /\ undefined' = [undefined EXCEPT ![g] = FALSE]
    /\ UNCHANGED <<pm, excuses>>

(* The connection is lost, and made again: the characters are still there, *)
(* but nothing links them.                                                 *)
Reconnect(g) ==
    /\ Alright(g)
    /\ \E packets \in SetupPackets : Setup({g}, packets)
    /\ excuses' = excuses \cup {"unlinked"}
    /\ UNCHANGED <<at, pm, undefined>>

(* The db is started again: it has no parties, and nobody has.             *)
DbRestart ==
    /\ \A g \in Games : Alright(g)
    /\ Setup(Games, <<>>)
    /\ pm' = <<>>
    /\ UNCHANGED <<at, undefined, excuses>>

Init ==
    /\ party = [g \in Games |-> NoParties]
    /\ at \in [Players -> Games]
    /\ linked = {} /\ pm = <<>>
    /\ toDb = [g \in Games |-> <<>>] /\ toGame = [g \in Games |-> <<>>]
    /\ undefined = [g \in Games |-> FALSE] /\ excuses = {}
    /\ nStep = 0 /\ nMove = 0

Next ==
    \/ \E g \in Games :
          \/ DbParty(g) \/ DbLogout(g) \/ \E p \in Players : DbLoad(g, p)
          \/ P2PCreateParty(g) \/ P2PDeleteParty(g)
          \/ P2PJoinParty(g) \/ P2PQuitParty(g) \/ EnterGame(g)
          \/ GameRestart(g) \/ Reconnect(g)
    \/ DbRestart
    \/ \E l, p \in Players : PartyInviteAccept(l, p) \/ PartyRemove(l, p)
    \/ \E p \in Players : Ungroup(p) \/ Disconnect(p)

Spec == Init /\ [][Next]_vars

-----------------------------------------------------------------------------
(* Properties.                                                             *)

Quiet == \A g \in Games : toDb[g] = <<>> /\ toGame[g] = <<>>

Packets == [k : {"create", "delete", "add", "remove", "level", "logout", "load"},
            l : Players, p : Players]

(* What the variables may hold.  A character that knows its party is in    *)
(* the game, and is in that party in the replica of its game: whoever      *)
(* takes a player out of a party has to unlink his character.              *)
TypeOK ==
    /\ party \in [Games -> [Players -> Players \cup {None}]]
    /\ at \in [Players -> Games \cup {None}]
    /\ linked \subseteq {p \in Players : at[p] # None /\ party[at[p]][p] # None}
    /\ DOMAIN pm \subseteq Players /\ \A l \in DOMAIN pm : pm[l] \subseteq Players
    /\ \A g \in Games : /\ \A i \in DOMAIN toDb[g] : toDb[g][i] \in Packets
                        /\ \A i \in DOMAIN toGame[g] : toGame[g][i] \in Packets
    /\ undefined \in [Games -> BOOLEAN]
    /\ excuses \subseteq {"ghost", "crossed", "refounded", "unlinked"}

(* Four things happen to the code that it does not survive:                *)
(*   "ghost"      the level of a member comes after his party has been     *)
(*                deleted, and makes it again, for the leader alone;       *)
(*   "crossed"    a REMOVE or DELETE comes after the player has joined     *)
(*                another party, and takes him out of that one (it needs   *)
(*                four players and six steps);                             *)
(*   "refounded"  a leader makes a party while packets of his earlier one, *)
(*                which has the same name, are still under way;            *)
(*   "unlinked"   a game connects again, gets its parties back, and does   *)
(*                not tell its characters.                                 *)
(* Unless one of them has, the games and the db agree on every party when  *)
(* no packet is under way, whatever the order in which games have made and *)
(* left parties, players have changed games, and processes have crashed.   *)
Converged ==
    Quiet /\ excuses = {} =>
        \A g \in Games, p, l \in Players :
            party[g][p] = l <=> l \in DOMAIN pm /\ p \in pm[l] \cup {l}

(* And nobody is in two parties: the db, which checks the party of a       *)
(* packet but not the other parties of the player, has no player in two,   *)
(* and no game adds to a party a player who is in another (SetPartyMember  *)
(* makes him quit that one, and writes through the iterator that Quit has  *)
(* erased).                                                                *)
OneParty ==
    excuses = {} =>
        /\ \A l, m \in DOMAIN pm : l # m => pm[l] \cap pm[m] = {}
        /\ \A g \in Games : Alright(g)
=============================================================================

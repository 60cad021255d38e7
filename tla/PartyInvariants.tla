-------------------------- MODULE PartyInvariants --------------------------
(***************************************************************************)
(* The inductive invariants that PartyProofs proves of Party, TypeInv and  *)
(* PartiesWell, and the predicates on queues of packets they are built of. *)
(*                                                                         *)
(* A packet says that a player is made a member of a party (Start) or that *)
(* this ends (Ends).  Packets of two games cross at the db, so a game may  *)
(* have changed what it is about to be told of; what keeps the copies      *)
(* together is that only the game where a player is changes his party,     *)
(* and that he is loaded elsewhere only when the db has read everything    *)
(* that this game has sent about him, his LOGOUT last.                     *)
(***************************************************************************)
EXTENDS Party

(* Packets to the db and to a game.  Only a game gets a player's load.     *)
ToDbPackets   == {q \in Packets : /\ q.k # "load"
                                  /\ q.k \in {"create", "delete"} => q.p = q.l}
ToGamePackets == {q \in Packets : /\ q.k = "load" => q = Loaded(q.p)
                                  /\ q.k \in {"create", "delete"} => q.p = q.l}

PmOK == /\ DOMAIN pm \subseteq Players
        /\ pm = [l \in DOMAIN pm |-> pm[l]]
        /\ \A l \in DOMAIN pm : pm[l] \subseteq Players

QueuesOK == /\ toDb \in [Games -> Seq(ToDbPackets)]
            /\ toGame \in [Games -> Seq(ToGamePackets)]

LinkedOK == linked \subseteq {p \in Players : at[p] # None /\ party[at[p]][p] # None}

Rest == /\ party \in [Games -> [Players -> Players \cup {None}]]
        /\ at \in [Players -> Games \cup {None}]
        /\ undefined \in [Games -> BOOLEAN]
        /\ excuses \subseteq {"ghost", "crossed", "refounded", "unlinked"}

(* A player who is being loaded is nowhere, and is being loaded once.      *)
LoadsOnce ==
    \A g, h \in Games : \A i \in DOMAIN toGame[g], j \in DOMAIN toGame[h] :
        toGame[g][i].k = "load" =>
            /\ at[toGame[g][i].p] = None
            /\ toGame[h][j] = toGame[g][i] => g = h /\ i = j

TypeInv == PmOK /\ QueuesOK /\ LinkedOK /\ Rest /\ LoadsOnce

-----------------------------------------------------------------------------
(* A packet of S is in q; every x has one of S behind it, every y one of S *)
(* before it, every x and a later y one of S between them; no packet of S  *)
(* is before x; an x has none of S behind it; no y is before x.            *)
Has(q, S)         == \E i \in DOMAIN q : q[i] \in S
Followed(q, x, S) == \A i \in DOMAIN q : q[i] = x => \E k \in DOMAIN q : i < k /\ q[k] \in S
Led(q, S, y)      == \A i \in DOMAIN q : q[i] = y => \E j \in DOMAIN q : j < i /\ q[j] \in S
Sep(q, x, S, y)   == \A i, j \in DOMAIN q : j < i /\ q[j] = x /\ q[i] = y =>
                        \E k \in DOMAIN q : j < k /\ k < i /\ q[k] \in S
First(q, x, S)    == \A i, k \in DOMAIN q : q[i] = x /\ q[k] \in S => i <= k
Stands(q, x, S)   == \E i \in DOMAIN q : q[i] = x /\ \A k \in DOMAIN q : i < k => q[k] \notin S
Unled(q, y, x)    == \A i, j \in DOMAIN q : j < i /\ q[i] = x => q[j] # y

(* The packet that makes p a member of l's party; those that end it; all   *)
(* that name the party.                                                    *)
Start(l, p) == IF p = l THEN Created(l) ELSE Added(l, p)
Ends(l, p)  == {Deleted(l), Removed(l, p)}
Named(l)    == {q \in Packets : q.l = l /\ q.k \notin {"logout", "load"}}

(* The db db has p in l's party; it has no such party, and will have none. *)
InDb(db, l, p)  == l \in DOMAIN db /\ p \in db[l] \cup {l}
Dead(db, td, l) == l \notin DOMAIN db /\ \A g \in Games : ~Has(td[g], {Created(l)})

(* A game with the replica m, to be told r, has no l's party and will not  *)
(* be told that it is made.                                                *)
Doomed(m, r, l) == m[l] # l /\ ~Has(r, {Created(l)})

(* x has been at g since y was sent, as far as the db knows; has not been  *)
(* at g, and will not, until y is read.                                    *)
Stays(wh, q, x, g, y)   == wh[x] = g \/ Followed(q, y, {LoggedOut(x)})
Away(wh, q, r, x, g, y) == wh[x] # g /\ ~Has(q, {LoggedOut(x)}) /\ Unled(r, Loaded(x), y)

-----------------------------------------------------------------------------
(* The parts of the invariant: pt stands for the replicas, wh for where    *)
(* the players are, ln for who knows his party, db for the db's parties,   *)
(* td and tg for what is under way to the db and to the games.             *)

Types(pt, wh, db, td, tg) ==
    /\ pt \in [Games -> [Players -> Players \cup {None}]]
    /\ wh \in [Players -> Games \cup {None}]
    /\ DOMAIN db \subseteq Players
    /\ td \in [Games -> Seq(ToDbPackets)] /\ tg \in [Games -> Seq(ToGamePackets)]

(* Who is being loaded is in no game.                                      *)
Loads(wh, tg) == \A g \in Games, p \in Players : Has(tg[g], {Loaded(p)}) => wh[p] = None

(* Nobody removes a leader; a game has a member only with his leader; a    *)
(* character knows the party that his game has him in.                     *)
Kinds(td, tg) == \A g \in Games, l \in Players :
    ~Has(td[g], {Removed(l, l)}) /\ ~Has(tg[g], {Removed(l, l)})

Lead(pt) == \A g \in Games, l, p \in Players : pt[g][p] = l => pt[g][l] = l

Links(pt, wh, ln) == \A g \in Games, p \in Players :
    wh[p] = g /\ pt[g][p] # None => p \in ln

(* Whose LOGOUT is under way is nowhere and not being loaded; there is one *)
(* game it comes from.                                                     *)
Logouts(wh, td, tg) == \A g, h \in Games, p \in Players : Has(td[g], {LoggedOut(p)}) =>
    /\ wh[p] = None /\ ~Has(tg[h], {Loaded(p)})
    /\ Has(td[h], {LoggedOut(p)}) => g = h

(* A game sends what concerns the players that are there: both when one    *)
(* is made a member, one of the two when he is removed.                    *)
Sent(wh, td) == \A g \in Games, l, p \in Players :
    /\ Stays(wh, td[g], l, g, Start(l, p)) /\ Stays(wh, td[g], p, g, Start(l, p))
    /\ \/ Stays(wh, td[g], l, g, Removed(l, p))
       \/ Stays(wh, td[g], p, g, Removed(l, p))

(* A game is told of players that are not there, nor will be before it     *)
(* reads it.                                                               *)
Told(wh, td, tg) == \A g \in Games, l, p \in Players :
    /\ Has(tg[g], {Start(l, p)}) =>
          /\ Away(wh, td[g], tg[g], l, g, Start(l, p))
          /\ Away(wh, td[g], tg[g], p, g, Start(l, p))
    /\ Has(tg[g], {Removed(l, p)}) =>
          \/ Away(wh, td[g], tg[g], l, g, Removed(l, p))
          \/ Away(wh, td[g], tg[g], p, g, Removed(l, p))

(* A party that the db is about to make is new: nothing of an earlier one  *)
(* with that leader is left, but at the game that makes it.                *)
Founded(pt, db, td, tg) == \A g \in Games, l \in Players : Has(td[g], {Created(l)}) =>
    /\ l \notin DOMAIN db /\ First(td[g], Created(l), Named(l))
    /\ \A h \in Games : ~Has(tg[h], Named(l))
    /\ \A h \in Games \ {g} : ~Has(td[h], Named(l)) /\ pt[h][l] # l

(* So is one that a game is about to be told of.                           *)
Heard(pt, tg) == \A g \in Games, l \in Players : Has(tg[g], {Created(l)}) =>
    pt[g][l] # l /\ First(tg[g], Created(l), Named(l))

(* The deletion a game is told of the db has made; that which it tells it  *)
(* has made itself.                                                        *)
Over(pt, db, td, tg) == \A g \in Games, l \in Players :
    /\ Has(tg[g], {Deleted(l)}) => l \notin DOMAIN db
    /\ Has(td[g], {Deleted(l)}) => Doomed(pt[g], tg[g], l)

(* A game that has removed a member it has has made him one again.         *)
Rejoined(pt, td) == \A g \in Games, l, p \in Players :
    pt[g][p] = l => Followed(td[g], Removed(l, p), {Start(l, p)})

(* The db has nobody in two parties, and will not have: before it makes    *)
(* one a member, it ends what he is a member of, or will be before.        *)
OneInDb(db) == \A l, m, p \in Players : InDb(db, l, p) /\ InDb(db, m, p) => l = m

Ordered(db, td) == \A g \in Games, l, m, p \in Players : l # m =>
    /\ InDb(db, l, p) => Led(td[g], Ends(l, p), Start(m, p))
    /\ Dead(db, td, l) \/ Sep(td[g], Start(l, p), Ends(l, p), Start(m, p))

(* What the db has, a game is to be told and not told the end of, or has   *)
(* and will not be told the end of, or has itself ended.                   *)
Known(pt, db, td, tg) == \A g \in Games, l, p \in Players : InDb(db, l, p) =>
    \/ Stands(tg[g], Start(l, p), Ends(l, p))
    \/ pt[g][p] = l /\ ~Has(tg[g], Ends(l, p))
    \/ Has(td[g], Ends(l, p))

(* Of what a game tells the db that it has made, the same holds already.   *)
Own(pt, db, td, tg) == \A g \in Games, l, p \in Players :
    \/ Dead(db, td, l)
    \/ pt[g][p] = l /\ ~Has(tg[g], Ends(l, p))
    \/ Followed(td[g], Start(l, p), Ends(l, p))

(* What a game has, the db has, or the game is to be told its end, or the  *)
(* db is to be told its start; what a game is to be told, the db has, or   *)
(* the game is told its end, or has the whole party no more.               *)
Right(pt, db, td, tg) == \A g \in Games, l, p \in Players : pt[g][p] = l =>
    InDb(db, l, p) \/ Has(tg[g], Ends(l, p)) \/ Has(td[g], {Start(l, p)})

Rightly(pt, db, tg) == \A g \in Games, l, p \in Players :
    \/ InDb(db, l, p) \/ Doomed(pt[g], tg[g], l)
    \/ Followed(tg[g], Start(l, p), Ends(l, p))

(* A game is told the end of a membership before the start of another.     *)
NoClash(pt, tg) == \A g \in Games, l, m, p \in Players : l # m =>
    /\ pt[g][p] = l => Led(tg[g], Ends(l, p), Start(m, p))
    /\ Doomed(pt[g], tg[g], l) \/ Sep(tg[g], Start(l, p), Ends(l, p), Start(m, p))

PartyInv(pt, wh, ln, db, td, tg) ==
    /\ Types(pt, wh, db, td, tg) /\ Loads(wh, tg) /\ Kinds(td, tg)
    /\ Lead(pt) /\ Links(pt, wh, ln)
    /\ Logouts(wh, td, tg) /\ Sent(wh, td) /\ Told(wh, td, tg)
    /\ Founded(pt, db, td, tg) /\ Heard(pt, tg) /\ Over(pt, db, td, tg)
    /\ Rejoined(pt, td)
    /\ OneInDb(db) /\ Ordered(db, td)
    /\ Known(pt, db, td, tg) /\ Own(pt, db, td, tg)
    /\ Right(pt, db, td, tg) /\ Rightly(pt, db, tg) /\ NoClash(pt, tg)

(* The parties of the games and the db, and what is under way between them *)
(* Without an excuse they are as they should be, and no game has written   *)
(* through an erased iterator.                                             *)
Parties == PartyInv(party, at, linked, pm, toDb, toGame)

PartiesWell ==
    excuses = {} => Parties /\ \A g \in Games : Alright(g)
=============================================================================

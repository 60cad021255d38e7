------------------------- MODULE GuildWarInvariants -------------------------
(***************************************************************************)
(* The inductive invariants that GuildWarProofs proves of GuildWar for     *)
(* Consent and TimerEndsItsWar.                                            *)
(***************************************************************************)
EXTENDS GuildWar

Answers == {"refuse", "on", "wait"}

-----------------------------------------------------------------------------
(* What holds whatever is lost.                                            *)

(* The db has one packet to read at most, from a game that is connected;   *)
(* a master's packets are from his game.                                   *)
OneAsked ==
    \A g \in WarGames : warToDb[g] # <<>> =>
        /\ up[g] /\ Len(warToDb[g]) = 1
        /\ \A h \in WarGames : warToDb[h] # <<>> => h = g
        /\ LET m == Head(warToDb[g])
           IN /\ m.op \in Answers \cup {"declare"} => m.from \in Guilds
              /\ m.from \in Guilds => Home[m.from] = g

(* Who has a declaration to answer has the other's on record.              *)
Pairs == \A g \in WarGames, j \in Guilds :
    enemy[g][j].state = "recv" => enemy[g][Other(j)].state \in {"send", "wait"}

(* j may answer a declaration; the db has yet to read his answer.          *)
Live(j) == enemy[Home[j]][j].state = "recv" /\ ~Answered(j)
Sent(j) == \E g \in WarGames : /\ warToDb[g] # <<>>
                               /\ Head(warToDb[g]).from = j /\ Head(warToDb[g]).op \in Answers

(* One master answers at a time, and the other wants the war.              *)
OneAnswers == \A j \in Guilds :
    Live(j) \/ Sent(j) => Other(j) \in asked /\ ~Live(Other(j))

ConsentInv == OneAsked /\ Pairs /\ (excuse # "confused" => OneAnswers)

-----------------------------------------------------------------------------
(* What holds until a connection is lost: all games go through the same.   *)

Asks(i) == IF i = 1 THEN "first" ELSE "second"
Stages  == {"none", "first", "second", "reserve", "on"}

(* What game g has of the two guilds at stage x.                           *)
At(g, x) ==
    /\ x = "none" => \A i \in Guilds : enemy[g][i].state = None
    /\ \A i \in Guilds : x = Asks(i) => /\ enemy[g][i].state = "send"
                                        /\ enemy[g][Other(i)].state = "recv"
    /\ x = "reserve" => \A i \in Guilds : enemy[g][i].state \in {"reserve", "wait"}
    /\ x = "on" => \A i \in Guilds : enemy[g][i].state = "on"
    /\ g \in at <=> x = "on"

(* The packet m takes a game from stage x to stage y.                      *)
Turns(x, m, y) ==
    \/ m.op = "declare" /\ y = IF x = "none" THEN Asks(m.from) ELSE x
    \/ m.op = "refuse" /\ x \in {"first", "second"} /\ y = "none"
    \/ m.op = "reserve" /\ x \in {"first", "second"} /\ y = "reserve"
    \/ m.op = "wait" /\ x = "reserve" /\ y = x
    \/ m.op = "on" /\ x \in {"first", "second", "reserve"} /\ y = "on"
    \/ m.op \in {"end", "over", "cancel"} /\ y = IF x = "on" THEN "none" ELSE x

(* j answers with m.                                                       *)
Answer(m, j) == m.from = j /\ m.op \in {"refuse", "on", "reserve"}

(* r is the way through q to stage f; who has a declaration to answer on   *)
(* it answers it, or f is where he still has.                              *)
Path(r, q, f) ==
    /\ r \in [0..Len(q) -> Stages] /\ r[Len(q)] = f
    /\ \A k \in 1..Len(q) : Turns(r[k - 1], q[k], r[k])
    /\ \A k \in 0..Len(q), j \in Guilds : r[k] = Asks(Other(j)) =>
          r[k] = f \/ \E l \in 1..Len(q) : k < l /\ Answer(q[l], j)

Leads(g, f) == \E r \in [0..Len(warToGame[g]) -> Stages] :
    At(g, r[0]) /\ Path(r, warToGame[g], f)

(* What the db has when all games will be at stage f.                      *)
DbAt(f) ==
    /\ \A i \in Guilds : f = Asks(i) => i \in asked
    /\ \A i \in Guilds : Sent(i) => f = Asks(Other(i))
    /\ war # 0 => f = "on"
    /\ reserved + waiting # 0 => reserved + waiting = 1 /\ f = "reserve"

(* There is a timer for the war that is on, and no other that would end a  *)
(* war.                                                                    *)
TimersRight ==
    /\ \A k \in DOMAIN timers : ~timers[k].bEnd => war # 0 /\ timers[k].war = war
    /\ \A k, l \in DOMAIN timers : timers[k].war = timers[l].war => k = l

Together ==
    excuse = "none" =>
        /\ \A g \in WarGames : up[g]
        /\ \E f \in Stages : DbAt(f) /\ \A g \in WarGames : Leads(g, f)
        /\ TimersRight
=============================================================================

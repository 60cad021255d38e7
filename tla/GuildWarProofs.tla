--------------------------- MODULE GuildWarProofs ---------------------------
(***************************************************************************)
(* Theorems about GuildWar for any number of games, requests, reservations *)
(* and faults.  IInv is about the wars that are on; Whole adds what        *)
(* GuildWarInvariants says of the masters' answers, the stages of the      *)
(* games and the timers.                                                   *)
(***************************************************************************)
EXTENDS GuildWarInvariants, FiniteSetTheorems, SequenceTheorems, TLAPS

-----------------------------------------------------------------------------
(* The packets under way.                                                  *)

(* Whether a game that is (or is not) at war will be, with m under way.    *)
WillBe(now, m) ==
    \/ now /\ \A k \in DOMAIN m : m[k].op \notin WarPackets
    \/ \E k \in DOMAIN m :
          m[k].op = "on" /\ \A j \in DOMAIN m : m[j].op \in WarPackets => j <= k

Endings == {"end", "over", "cancel"}

LEMMA Kinds == WarPackets = {"on"} \cup Endings /\ "on" \notin Endings
  BY DEF WarPackets, Endings

(* One more packet.                                                        *)
LEMMA WillAppend ==
    ASSUME NEW S, NEW m \in Seq(S), NEW p \in S, NEW now \in BOOLEAN
    PROVE  /\ p.op \notin WarPackets => (WillBe(now, Append(m, p)) <=> WillBe(now, m))
           /\ p.op \in Endings => ~WillBe(now, Append(m, p))
<1> DEFINE q == Append(m, p)
<1>1. /\ Len(m) \in Nat /\ DOMAIN m = 1..Len(m)
      /\ q \in Seq(S) /\ Len(q) = Len(m) + 1
      /\ \A k \in 1..Len(m) : q[k] = m[k]
      /\ q[Len(m) + 1] = p
  BY LenProperties, AppendProperties
<1>2. DOMAIN q = 1..(Len(m) + 1)
  BY <1>1, LenProperties
<1> HIDE DEF q
<1>3. ASSUME p.op \notin WarPackets PROVE WillBe(now, q) <=> WillBe(now, m)
  <2>1. \A k \in DOMAIN q : q[k].op \in WarPackets => k \in DOMAIN m /\ q[k] = m[k]
    BY <1>1, <1>2, <1>3
  <2>2. \A k \in DOMAIN m : k \in DOMAIN q /\ q[k] = m[k]
    BY <1>1, <1>2
  <2> QED  BY <2>1, <2>2, Kinds DEF WillBe
<1>4. ASSUME p.op \in Endings, WillBe(now, q) PROVE FALSE
  <2>1. Len(m) + 1 \in DOMAIN q /\ q[Len(m) + 1].op \in WarPackets
    BY <1>1, <1>2, <1>4, Kinds
  <2>2. PICK k \in DOMAIN q : q[k].op = "on" /\ \A j \in DOMAIN q : q[j].op \in WarPackets => j <= k
    BY <1>4, <2>1 DEF WillBe
  <2>3. k = Len(m) + 1
    BY <1>1, <1>2, <2>1, <2>2
  <2> QED  BY <1>1, <1>4, <2>2, <2>3, Kinds
<1> QED  BY <1>3, <1>4 DEF q

(* One packet less.                                                        *)
LEMMA WillTail ==
    ASSUME NEW S, NEW m \in Seq(S), m # <<>>, NEW now \in BOOLEAN, NEW then \in BOOLEAN,
           WillBe(then, Tail(m)),
           Head(m).op = "on" \/ ~then \/ (then = now /\ Head(m).op \notin WarPackets)
    PROVE  WillBe(now, m)
<1> DEFINE q == Tail(m)
<1>1. /\ Len(m) \in Nat /\ DOMAIN m = 1..Len(m) /\ Len(m) >= 1
      /\ q \in Seq(S) /\ Len(q) = Len(m) - 1
      /\ \A k \in 1..Len(q) : q[k] = m[k + 1]
      /\ Head(m) = m[1]
  BY LenProperties, HeadTailProperties, EmptySeq
<1>2. DOMAIN q = 1..(Len(m) - 1)
  BY <1>1, LenProperties
<1> HIDE DEF q
<1>3. \A k \in DOMAIN m : k = 1 \/ (k - 1 \in DOMAIN q /\ q[k - 1] = m[k])
  BY <1>1, <1>2
<1>4. \A k \in DOMAIN q : k + 1 \in DOMAIN m /\ q[k] = m[k + 1] /\ k \in Nat
  BY <1>1, <1>2
<1>5. WillBe(then, q)
  BY DEF q
<1>6. CASE \E k \in DOMAIN q : q[k].op = "on" /\ \A j \in DOMAIN q : q[j].op \in WarPackets => j <= k
  <2>1. PICK k \in DOMAIN q : q[k].op = "on" /\ \A j \in DOMAIN q : q[j].op \in WarPackets => j <= k
    BY <1>6
  <2>2. k + 1 \in DOMAIN m /\ m[k + 1].op = "on"
    BY <1>4, <2>1
  <2>3. ASSUME NEW j \in DOMAIN m, m[j].op \in WarPackets PROVE j <= k + 1
    <3>1. CASE j = 1
      BY <1>4, <3>1
    <3>2. CASE j # 1
      <4>1. j - 1 \in DOMAIN q /\ q[j - 1].op \in WarPackets
        BY <1>3, <2>3, <3>2
      <4>2. j - 1 <= k /\ j \in Nat /\ k \in Nat
        BY <1>1, <1>4, <2>1, <4>1
      <4> QED  BY <4>2
    <3> QED  BY <3>1, <3>2
  <2> QED  BY <2>2, <2>3 DEF WillBe
<1>7. CASE then /\ \A k \in DOMAIN q : q[k].op \notin WarPackets
  <2>1. CASE Head(m).op = "on"
    <3>1. 1 \in DOMAIN m /\ m[1].op = "on"
      BY <1>1, <2>1
    <3>2. \A j \in DOMAIN m : m[j].op \in WarPackets => j <= 1
      BY <1>3, <1>7
    <3> QED  BY <3>1, <3>2 DEF WillBe
  <2>2. CASE then = now /\ Head(m).op \notin WarPackets
    <3>1. \A j \in DOMAIN m : m[j].op \notin WarPackets
      BY <1>1, <1>3, <1>7, <2>2
    <3> QED  BY <1>7, <2>2, <3>1 DEF WillBe
  <2> QED  BY <1>7, <2>1, <2>2
<1> QED  BY <1>5, <1>6, <1>7 DEF WillBe

-----------------------------------------------------------------------------
(* Types.                                                                  *)

USE DEF Guilds, Types, None

Timers == [war : Nat, type : Types, bEnd : BOOLEAN]

(* There is a number for the timer of a new war.                           *)
LEMMA NumberLeft ==
    ASSUME NEW q \in Seq(Timers)
    PROVE  \E n \in 1..(Len(q) + 1) : \A k \in DOMAIN q : q[k].war # n
<1>1. Len(q) \in Nat /\ DOMAIN q = 1..Len(q)
  BY LenProperties
<1> SUFFICES ASSUME \A n \in 1..(Len(q) + 1) : \E k \in DOMAIN q : q[k].war = n
             PROVE  FALSE
  OBVIOUS
<1> DEFINE S == 1..(Len(q) + 1)
           T == 1..Len(q)
           f == [n \in S |-> CHOOSE k \in T : q[k].war = n]
<1>2. \A n \in S : f[n] \in T /\ q[f[n]].war = n
  BY <1>1
<1>3. f \in [S -> T]
  BY <1>2
<1>4. /\ IsFiniteSet(S) /\ IsFiniteSet(T)
      /\ Cardinality(S) = Len(q) + 1 /\ Cardinality(T) = Len(q)
  <2> DEFINE l == Len(q)
  <2>1. l \in Nat /\ l \in Int /\ l + 1 \in Int /\ 1 \in Int
    BY <1>1
  <2> HIDE DEF l
  <2>2. /\ IsFiniteSet(1..(l + 1))
        /\ Cardinality(1..(l + 1)) = IF 1 > l + 1 THEN 0 ELSE (l + 1) - 1 + 1
    BY <2>1, FS_Interval
  <2>3. IsFiniteSet(1..l) /\ Cardinality(1..l) = IF 1 > l THEN 0 ELSE l - 1 + 1
    BY <2>1, FS_Interval
  <2>4. Cardinality(1..(l + 1)) = l + 1 /\ Cardinality(1..l) = l
    BY <2>1, <2>2, <2>3
  <2> QED  BY <2>2, <2>3, <2>4 DEF l
<1> HIDE DEF S, T, f
<1>5. Cardinality(T) < Cardinality(S)
  BY <1>1, <1>4
<1>6. \E m, n \in S : m # n /\ f[m] = f[n]
  BY <1>3, <1>4, <1>5, FS_PigeonHole
<1> QED  BY <1>2, <1>6

LEMMA StartWarType ==
    ASSUME timers \in Seq(Timers), NEW t \in Types, StartWar(t)
    PROVE  war' \in Nat /\ war' # 0 /\ timers' \in Seq(Timers)
<1> DEFINE n == CHOOSE n \in 1..(Len(timers) + 1) :
                    \A k \in DOMAIN timers : timers[k].war # n
<1>1. n \in 1..(Len(timers) + 1)
  BY NumberLeft
<1>2. war' = n /\ timers' = Append(timers, [war |-> n, type |-> t, bEnd |-> FALSE])
  BY DEF StartWar
<1> HIDE DEF n
<1>3. n \in Nat /\ n # 0
  BY <1>1, LenProperties
<1>4. [war |-> n, type |-> t, bEnd |-> FALSE] \in Timers
  BY <1>3 DEF Timers
<1> QED  BY <1>2, <1>3, <1>4, AppendProperties

LEMMA RemoveWarType ==
    ASSUME NEW q \in Seq(Timers), RemoveWar(q)
    PROVE  war' = 0 /\ timers' \in Seq(Timers)
<1>1. Len(q) \in Nat /\ DOMAIN q = 1..Len(q) /\ \A k \in 1..Len(q) : q[k] \in Timers
  BY LenProperties, ElementOfSeq
<1>2. timers' = [k \in 1..Len(q) |-> [q[k] EXCEPT !.bEnd = @ \/ q[k].war = war]]
  BY <1>1 DEF RemoveWar
<1>3. \A k \in 1..Len(q) : [q[k] EXCEPT !.bEnd = @ \/ q[k].war = war] \in Timers
  BY <1>1 DEF Timers
<1>4. timers' \in Seq(Timers)
  BY <1>1, <1>2, <1>3, IsASeq
<1> QED  BY <1>4 DEF RemoveWar

LEMMA RemoveAtType ==
    ASSUME NEW q \in Seq(Timers), NEW k \in DOMAIN q
    PROVE  RemoveAt(q, k) \in Seq(Timers)
<1>1. Len(q) \in Nat /\ DOMAIN q = 1..Len(q)
  BY LenProperties
<1>2. SubSeq(q, 1, k - 1) \in Seq(Timers) /\ SubSeq(q, k + 1, Len(q)) \in Seq(Timers)
  BY <1>1, SubSeqProperties
<1> QED  BY <1>2, ConcatProperties DEF RemoveAt

(* The packets that the db and the games make.                             *)
LEMMA PacketType ==
    ASSUME NEW i \in Guilds, NEW t \in Types
    PROVE  /\ \A op \in {"declare", "refuse", "wait", "on", "reserve"} :
                 Packet(op, i, t) \in Packets
           /\ \A op \in {"on", "end", "over", "cancel", "reserve"} :
                 Packet(op, 0, t) \in Packets
  BY DEF Packet, Packets

LEMMA ForwardType ==
    ASSUME WarTypeOK, NEW m \in Packets, Forward(m)
    PROVE  /\ warToGame' \in [WarGames -> Seq(Packets)]
           /\ \A g \in WarGames : warToGame'[g] = IF up[g] THEN Append(warToGame[g], m)
                                                     ELSE warToGame[g]
<1>1. \A g \in WarGames : Append(warToGame[g], m) \in Seq(Packets)
  BY AppendProperties DEF WarTypeOK
<1> QED  BY <1>1 DEF Forward, WarTypeOK

LEMMA ReceivedType ==
    ASSUME WarTypeOK, NEW g \in WarGames, NEW op, Received(g, op)
    PROVE  /\ warToDb' \in [WarGames -> Seq(Packets)]
           /\ Head(warToDb[g]) \in Packets /\ Head(warToDb[g]).op = op
<1>1. warToDb[g] \in Seq(Packets) /\ warToDb[g] # <<>>
  BY DEF WarTypeOK, Received
<1>2. Head(warToDb[g]) \in Packets /\ Tail(warToDb[g]) \in Seq(Packets)
  BY <1>1, HeadTailProperties
<1> QED  BY <1>2 DEF Received, WarTypeOK

LEMMA AppliedType ==
    ASSUME WarTypeOK, NEW g \in WarGames, NEW ops, Applied(g, ops)
    PROVE  /\ warToGame' \in [WarGames -> Seq(Packets)]
           /\ warToGame[g] \in Seq(Packets) /\ warToGame[g] # <<>>
           /\ \A h \in WarGames : warToGame'[h] = IF h = g THEN Tail(warToGame[g]) ELSE warToGame[h]
           /\ Head(warToGame[g]) \in Packets /\ Head(warToGame[g]).op \in ops
<1>1. warToGame[g] \in Seq(Packets) /\ warToGame[g] # <<>>
  BY DEF WarTypeOK, Applied
<1>2. Head(warToGame[g]) \in Packets /\ Tail(warToGame[g]) \in Seq(Packets)
  BY <1>1, HeadTailProperties
<1> QED  BY <1>1, <1>2 DEF Applied, WarTypeOK

LEMMA SendType ==
    ASSUME WarTypeOK, NEW g \in WarGames, NEW m \in Packets, Send(g, m)
    PROVE  warToDb' \in [WarGames -> Seq(Packets)]
<1>1. Append(warToDb[g], m) \in Seq(Packets)
  BY AppendProperties DEF WarTypeOK
<1> QED  BY <1>1 DEF Send, WarTypeOK

-----------------------------------------------------------------------------
(* No war is left.                                                         *)

(* What is under way to a game is lost with its connection.                *)
Down == \A g \in WarGames : ~up[g] => warToGame[g] = <<>>

(* The inductive invariant.                                                *)
IInv == WarTypeOK /\ Down /\ NoWarLeft

LEMMA WillBeIt ==
    ASSUME NEW g \in WarGames
    PROVE  /\ WillBeAtWar(g) <=> WillBe(g \in at, warToGame[g])
           /\ WillBeAtWar(g)' <=> WillBe(g \in at', warToGame'[g])
  BY DEF WillBeAtWar, WillBe

(* Steps that change nothing of what the invariant is about.               *)
LEMMA QuietKeeps ==
    ASSUME IInv, UNCHANGED <<war, at, up, warToGame>>
    PROVE  Down' /\ NoWarLeft'
<1>1. \A g \in WarGames : WillBeAtWar(g)' <=> WillBeAtWar(g)
  BY WillBeIt
<1> QED  BY <1>1 DEF IInv, Down, NoWarLeft

(* The db forwards a packet: a war is on, or the packet ends it, or it has *)
(* nothing to do with the war.                                             *)
LEMMA ForwardKeeps ==
    ASSUME IInv, NEW m \in Packets, Forward(m), UNCHANGED <<at, up>>,
           war' # 0 \/ m.op \in Endings \/ (m.op \notin WarPackets /\ war' = war)
    PROVE  Down' /\ NoWarLeft'
<1>1. WarTypeOK /\ Down /\ NoWarLeft
  BY DEF IInv
<1>2. \A g \in WarGames : warToGame'[g] = IF up[g] THEN Append(warToGame[g], m) ELSE warToGame[g]
  BY <1>1, ForwardType
<1>3. Down'
  BY <1>1, <1>2 DEF Down
<1>4. ASSUME NEW g \in WarGames, up[g], WillBeAtWar(g)' PROVE war' # 0
  <2> DEFINE now == g \in at
             s == warToGame[g]
  <2>1. WillBe(now, Append(s, m)) /\ s \in Seq(Packets) /\ now \in BOOLEAN
    BY <1>1, <1>2, <1>4, WillBeIt DEF WarTypeOK
  <2>2. WillBeAtWar(g) <=> WillBe(now, s)
    BY WillBeIt
  <2> HIDE DEF now, s
  <2>3. CASE m.op \in Endings
    <3>1. ~WillBe(now, Append(s, m))
      BY <2>1, <2>3, WillAppend
    <3> QED  BY <2>1, <3>1
  <2>4. CASE m.op \notin WarPackets /\ war' = war
    <3>1. WillBe(now, s)
      BY <2>1, <2>4, WillAppend
    <3> QED  BY <1>1, <1>4, <2>2, <2>4, <3>1 DEF NoWarLeft
  <2> QED  BY <2>3, <2>4
<1>5. \A g \in WarGames : g \in at' => up'[g]
  BY <1>1 DEF NoWarLeft
<1> QED  BY <1>3, <1>4, <1>5 DEF NoWarLeft

(* A game applies a packet: it is at war after ON_WAR only, and not after  *)
(* a packet that ends the war.                                             *)
LEMMA AppliedKeeps ==
    ASSUME IInv, NEW g \in WarGames, NEW ops, Applied(g, ops), UNCHANGED <<war, up>>,
           at' = at \/ (at' = at \cup {g} /\ ops = {"on"}) \/ at' = at \ {g},
           \/ ops = {"on"} \/ g \notin at' \/ (at' = at /\ ops \cap WarPackets = {})
    PROVE  Down' /\ NoWarLeft'
<1>1. WarTypeOK /\ Down /\ NoWarLeft
  BY DEF IInv
<1>2. /\ warToGame[g] \in Seq(Packets) /\ warToGame[g] # <<>>
      /\ \A h \in WarGames : warToGame'[h] = IF h = g THEN Tail(warToGame[g]) ELSE warToGame[h]
      /\ Head(warToGame[g]).op \in ops
  BY <1>1, AppliedType
<1>3. up[g]
  BY <1>1, <1>2 DEF Down
<1>4. Down'
  BY <1>1, <1>2, <1>3 DEF Down
<1>5. \A h \in WarGames : h \in at' => up'[h]
  BY <1>1, <1>3 DEF NoWarLeft
<1>6. \A h \in WarGames : h # g => (WillBeAtWar(h)' <=> WillBeAtWar(h))
  BY <1>2, WillBeIt
<1>7. WillBeAtWar(g)' => WillBeAtWar(g)
  <2> DEFINE now == g \in at
             then == g \in at'
  <2>1. now \in BOOLEAN /\ then \in BOOLEAN
    OBVIOUS
  <2>2. Head(warToGame[g]).op = "on" \/ ~then \/ (then = now /\ Head(warToGame[g]).op \notin WarPackets)
    BY <1>2
  <2> HIDE DEF now, then
  <2>3. WillBe(then, Tail(warToGame[g])) => WillBe(now, warToGame[g])
    BY <1>2, <2>1, <2>2, WillTail
  <2> QED  BY <1>2, <2>3, WillBeIt DEF now, then
<1>8. \A h \in WarGames : up[h] /\ WillBeAtWar(h)' => war # 0
  BY <1>1, <1>6, <1>7 DEF NoWarLeft
<1> QED  BY <1>4, <1>5, <1>8 DEF NoWarLeft

(* Connections are lost, and the wars at their games end.                  *)
LEMMA LosesKeeps ==
    ASSUME IInv, NEW gs \in SUBSET WarGames, Loses(gs), at' = at \ gs,
           war' = war \/ gs = WarGames
    PROVE  Down' /\ NoWarLeft'
<1>1. WarTypeOK /\ Down /\ NoWarLeft
  BY DEF IInv
<1>2. \A g \in WarGames : /\ up'[g] = IF g \in gs THEN FALSE ELSE up[g]
                          /\ warToGame'[g] = IF g \in gs THEN <<>> ELSE warToGame[g]
  BY DEF Loses
<1>3. Down'
  BY <1>1, <1>2 DEF Down
<1>4. ASSUME NEW g \in WarGames, g \notin gs PROVE WillBeAtWar(g)' <=> WillBeAtWar(g)
  <2>1. warToGame'[g] = warToGame[g] /\ (g \in at' <=> g \in at)
    BY <1>2, <1>4
  <2> QED  BY <2>1 DEF WillBeAtWar
<1> QED  BY <1>1, <1>2, <1>3, <1>4 DEF NoWarLeft

-----------------------------------------------------------------------------
(* The steps of the db.                                                    *)

LEMMA DbDeclareStep ==
    ASSUME IInv, NEW g \in WarGames, DbDeclare(g)
    PROVE  IInv'
<1> DEFINE m == Head(warToDb[g])
<1>1. WarTypeOK
  BY DEF IInv
<1>2. warToDb' \in [WarGames -> Seq(Packets)] /\ m \in Packets /\ m.op = "declare"
  BY <1>1, ReceivedType DEF DbDeclare
<1>3. /\ declared' = [declared EXCEPT ![m.from] = IF @ = None THEN m.type ELSE @]
      /\ asked' = asked \cup {m.from} /\ Forward(m)
      /\ UNCHANGED <<war, timers, reserved, waiting, enemy, at, map, lone, up, excuse>>
  BY DEF DbDeclare, copies
<1> HIDE DEF m
<1>4. m.from \in Guilds /\ m.type \in Types
  BY <1>2 DEF Packets
<1>5. declared' \in [Guilds -> Types \cup {None}]
  BY <1>1, <1>3, <1>4 DEF WarTypeOK
<1>6. warToGame' \in [WarGames -> Seq(Packets)]
  BY <1>1, <1>2, <1>3, ForwardType
<1>7. WarTypeOK'
  BY <1>1, <1>2, <1>3, <1>4, <1>5, <1>6 DEF WarTypeOK
<1>8. m.op \notin WarPackets
  BY <1>2 DEF WarPackets
<1>9. Down' /\ NoWarLeft'
  BY <1>2, <1>3, <1>8, ForwardKeeps
<1> QED  BY <1>7, <1>9 DEF IInv

LEMMA NoDeclareType == NoDeclare \in [Guilds -> Types \cup {None}]
  BY DEF NoDeclare

(* What a step of the db has to show, when it forwards a packet.           *)
LEMMA ForwardStep ==
    ASSUME IInv, NEW m \in Packets, Forward(m),
           war' # 0 \/ m.op \in Endings \/ (m.op \notin WarPackets /\ war' = war),
           UNCHANGED <<enemy, at, map, lone, up>>,
           declared' \in {declared, NoDeclare},
           war' \in Nat, timers' \in Seq(Timers), reserved' \in Nat, waiting' \in Nat,
           warToDb' \in [WarGames -> Seq(Packets)], asked' \in {asked, {}}, UNCHANGED excuse
    PROVE  IInv'
<1>1. WarTypeOK
  BY DEF IInv
<1>2. warToGame' \in [WarGames -> Seq(Packets)]
  BY <1>1, ForwardType
<1>3. declared' \in [Guilds -> Types \cup {None}] /\ asked' \subseteq Guilds
  BY <1>1, NoDeclareType DEF WarTypeOK
<1>4. WarTypeOK'
  BY <1>1, <1>2, <1>3 DEF WarTypeOK, Timers
<1>5. Down' /\ NoWarLeft'
  BY ForwardKeeps
<1> QED  BY <1>4, <1>5 DEF IInv

LEMMA TimersType == WarTypeOK => timers \in Seq(Timers) /\ war \in Nat
  BY DEF WarTypeOK, Timers

LEMMA DbRefuseStep ==
    ASSUME IInv, NEW g \in WarGames, DbRefuse(g)
    PROVE  IInv'
<1> DEFINE m == Head(warToDb[g])
<1>1. WarTypeOK
  BY DEF IInv
<1>2. warToDb' \in [WarGames -> Seq(Packets)] /\ m \in Packets /\ m.op = "refuse"
  BY <1>1, ReceivedType DEF DbRefuse
<1>3. /\ declared' = NoDeclare /\ asked' = {} /\ Forward(m)
      /\ UNCHANGED <<war, timers, reserved, waiting, enemy, at, map, lone, up, excuse>>
  BY DEF DbRefuse, copies
<1> HIDE DEF m
<1>4. m.op \notin WarPackets
  BY <1>2 DEF WarPackets
<1>5. timers' \in Seq(Timers) /\ war' \in Nat /\ reserved' \in Nat /\ waiting' \in Nat
  BY <1>1, <1>3, TimersType DEF WarTypeOK
<1> QED  BY <1>2, <1>3, <1>4, <1>5, ForwardStep

LEMMA DbReserveStep ==
    ASSUME IInv, NEW g \in WarGames, DbReserve(g)
    PROVE  IInv'
<1> DEFINE m == Head(warToDb[g])
<1>1. WarTypeOK
  BY DEF IInv
<1>2. warToDb' \in [WarGames -> Seq(Packets)] /\ m \in Packets
  BY <1>1, ReceivedType DEF DbReserve
<1>3. /\ declared' = NoDeclare
      /\ \/ /\ reserved' = reserved + 1 /\ asked' = {}
            /\ Forward([m EXCEPT !.op = "reserve"])
         \/ /\ Forward([m EXCEPT !.op = "cancel"])
            /\ UNCHANGED <<reserved, asked>>
      /\ UNCHANGED <<war, timers, waiting, enemy, at, map, lone, up, excuse>>
  BY DEF DbReserve, copies
<1> HIDE DEF m
<1>4. /\ [m EXCEPT !.op = "reserve"] \in Packets /\ [m EXCEPT !.op = "cancel"] \in Packets
      /\ [m EXCEPT !.op = "reserve"].op \notin WarPackets
      /\ [m EXCEPT !.op = "cancel"].op \in Endings
  BY <1>2 DEF Packets, WarPackets, Endings
<1>5. timers' \in Seq(Timers) /\ war' \in Nat /\ reserved' \in Nat /\ waiting' \in Nat
  BY <1>1, <1>3, TimersType DEF WarTypeOK
<1>6. CASE reserved' = reserved + 1 /\ asked' = {} /\ Forward([m EXCEPT !.op = "reserve"])
  BY <1>2, <1>3, <1>4, <1>5, <1>6, ForwardStep
<1>7. CASE Forward([m EXCEPT !.op = "cancel"]) /\ UNCHANGED <<reserved, asked>>
  BY <1>2, <1>3, <1>4, <1>5, <1>7, ForwardStep
<1> QED  BY <1>3, <1>6, <1>7

LEMMA DbOnWarStep ==
    ASSUME IInv, NEW g \in WarGames, DbOnWar(g)
    PROVE  IInv'
<1> DEFINE m == Head(warToDb[g])
<1>1. WarTypeOK
  BY DEF IInv
<1>2. warToDb' \in [WarGames -> Seq(Packets)] /\ m \in Packets
  BY <1>1, ReceivedType DEF DbOnWar
<1>3. /\ declared' = NoDeclare /\ asked' = {} /\ StartWar("field") /\ Forward(m)
      /\ UNCHANGED <<reserved, waiting, enemy, at, map, lone, up, excuse>>
  BY DEF DbOnWar, copies
<1> HIDE DEF m
<1>4. war' \in Nat /\ war' # 0 /\ timers' \in Seq(Timers)
  BY <1>1, <1>3, TimersType, StartWarType
<1>5. reserved' \in Nat /\ waiting' \in Nat
  BY <1>1, <1>3 DEF WarTypeOK
<1> QED  BY <1>2, <1>3, <1>4, <1>5, ForwardStep

(* The war is over: DbOver and DbCancel.                                   *)
LEMMA DbOverStep ==
    ASSUME IInv, NEW g \in WarGames, DbOver(g) \/ DbCancel(g)
    PROVE  IInv'
<1> DEFINE m == Head(warToDb[g])
<1>1. WarTypeOK
  BY DEF IInv
<1>2. warToDb' \in [WarGames -> Seq(Packets)] /\ m \in Packets /\ m.op \in {"over", "cancel"}
  <2>1. Received(g, "over") \/ Received(g, "cancel")
    BY DEF DbOver, DbCancel
  <2> QED  BY <1>1, <2>1, ReceivedType
<1>3. /\ declared' \in {declared, NoDeclare} /\ RemoveWar(timers) /\ Forward(m)
      /\ UNCHANGED <<reserved, waiting, enemy, at, map, lone, up, asked, excuse>>
  BY DEF DbOver, DbCancel, copies, hist
<1> HIDE DEF m
<1>4. war' = 0 /\ timers' \in Seq(Timers)
  BY <1>1, <1>3, TimersType, RemoveWarType
<1>5. reserved' \in Nat /\ waiting' \in Nat /\ war' \in Nat
  BY <1>1, <1>3, <1>4 DEF WarTypeOK
<1>6. m.op \in Endings
  BY <1>2 DEF Endings
<1> QED  BY <1>2, <1>3, <1>4, <1>5, <1>6, ForwardStep

(* The db steps that send nothing, or leave the war and what is under way. *)
LEMMA QuietStep ==
    ASSUME IInv, UNCHANGED <<declared, war, reserved, waiting, enemy, at, map, lone, up,
                             warToGame, asked, excuse>>,
           timers' \in Seq(Timers), warToDb' \in [WarGames -> Seq(Packets)]
    PROVE  IInv'
<1>1. WarTypeOK'
  BY DEF IInv, WarTypeOK, Timers
<1> QED  BY <1>1, QuietKeeps DEF IInv

LEMMA WarEndStep ==
    ASSUME IInv, NEW q \in Seq(Timers), WarEnd(q), warToDb' \in [WarGames -> Seq(Packets)],
           UNCHANGED <<declared, reserved, waiting, enemy, at, map, lone, up, asked, excuse>>
    PROVE  IInv'
<1>1. CASE timers' = q /\ UNCHANGED <<war, warToGame>>
  BY <1>1, QuietStep
<1>2. CASE RemoveWar(q) /\ Forward(Packet("end", 0, "field"))
  <2> DEFINE m == Packet("end", 0, "field")
  <2>1. m \in Packets /\ m.op \in Endings
    BY PacketType DEF Packet, Endings
  <2>2. war' = 0 /\ timers' \in Seq(Timers) /\ war' \in Nat
    BY <1>2, RemoveWarType
  <2>3. reserved' \in Nat /\ waiting' \in Nat
    BY DEF IInv, WarTypeOK
  <2>4. Forward(m)
    BY <1>2
  <2> HIDE DEF m
  <2> QED  BY <2>1, <2>2, <2>3, <2>4, ForwardStep
<1> QED  BY <1>1, <1>2 DEF WarEnd

LEMMA DbEndStep ==
    ASSUME IInv, NEW g \in WarGames, DbEnd(g)
    PROVE  IInv'
<1>1. WarTypeOK
  BY DEF IInv
<1>2. warToDb' \in [WarGames -> Seq(Packets)]
  BY <1>1, ReceivedType DEF DbEnd
<1>3. /\ WarEnd(timers)
      /\ UNCHANGED <<declared, reserved, waiting, enemy, at, map, lone, up, asked, excuse>>
  BY DEF DbEnd, copies, hist
<1> QED  BY <1>1, <1>2, <1>3, TimersType, WarEndStep

LEMMA DbReservedWarStep ==
    ASSUME IInv, DbReservedWar
    PROVE  IInv'
<1>1. WarTypeOK
  BY DEF IInv
<1>2. PICK i \in Guilds : Forward(Packet("wait", i, "map"))
  BY DEF DbReservedWar
<1>3. /\ reserved > 0 /\ reserved' = reserved - 1 /\ waiting' = waiting + 1
      /\ UNCHANGED <<declared, war, timers, enemy, at, map, lone, up, warToDb, asked, excuse>>
  BY DEF DbReservedWar, copies, hist
<1> DEFINE m == Packet("wait", i, "map")
<1>4. m \in Packets /\ m.op \notin WarPackets
  BY PacketType DEF Packet, WarPackets
<1>5. Forward(m)
  BY <1>2
<1> HIDE DEF m
<1>6. timers' \in Seq(Timers) /\ war' \in Nat /\ reserved' \in Nat /\ waiting' \in Nat
      /\ warToDb' \in [WarGames -> Seq(Packets)]
  BY <1>1, <1>3, TimersType DEF WarTypeOK
<1> QED  BY <1>3, <1>4, <1>5, <1>6, ForwardStep

LEMMA DbStartReservedStep ==
    ASSUME IInv, DbStartReserved
    PROVE  IInv'
<1> DEFINE m == Packet("on", 0, "map")
<1>1. WarTypeOK
  BY DEF IInv
<1>2. /\ waiting > 0 /\ waiting' = waiting - 1 /\ StartWar("map") /\ Forward(m)
      /\ UNCHANGED <<declared, reserved, enemy, at, map, lone, up, warToDb, asked, excuse>>
  BY DEF DbStartReserved, copies, hist
<1>3. m \in Packets
  BY PacketType
<1> HIDE DEF m
<1>4. war' \in Nat /\ war' # 0 /\ timers' \in Seq(Timers)
  BY <1>1, <1>2, TimersType, StartWarType
<1>5. reserved' \in Nat /\ waiting' \in Nat /\ warToDb' \in [WarGames -> Seq(Packets)]
  BY <1>1, <1>2 DEF WarTypeOK
<1> QED  BY <1>2, <1>3, <1>4, <1>5, ForwardStep

LEMMA DbTimerStep ==
    ASSUME IInv, NEW t \in Types, DbTimer(t)
    PROVE  IInv'
<1>1. WarTypeOK
  BY DEF IInv
<1>2. PICK k \in FirstOf(t) :
         /\ LET q == RemoveAt(timers, k)
            IN IF timers[k].bEnd THEN timers' = q /\ UNCHANGED <<war, warToGame>>
                                 ELSE WarEnd(q)
         /\ UNCHANGED <<declared, reserved, waiting, copies, up, warToDb, hist, count>>
  BY DEF DbTimer
<1> DEFINE q == RemoveAt(timers, k)
<1>3. q \in Seq(Timers)
  BY <1>1, <1>2, TimersType, RemoveAtType DEF FirstOf
<1>4. \/ timers' = q /\ UNCHANGED <<war, warToGame>>
      \/ WarEnd(q)
  BY <1>2
<1> HIDE DEF q
<1>5. UNCHANGED <<declared, reserved, waiting, enemy, at, map, lone, up, warToDb, asked, excuse>>
  BY <1>2 DEF copies, hist
<1>6. warToDb' \in [WarGames -> Seq(Packets)]
  BY <1>1, <1>5 DEF WarTypeOK
<1>7. CASE timers' = q /\ UNCHANGED <<war, warToGame>>
  BY <1>3, <1>5, <1>6, <1>7, QuietStep
<1>8. CASE WarEnd(q)
  BY <1>3, <1>5, <1>6, <1>8, WarEndStep
<1> QED  BY <1>4, <1>7, <1>8

-----------------------------------------------------------------------------
(* The steps of a game.                                                    *)

LEMMA EntryType ==
    /\ NoEntry \in Entries
    /\ \A s \in {None, "send", "recv", "reserve", "wait", "on"} : \A t \in Types :
          Entry(s, t) \in Entries
    /\ \A e \in Entries : /\ [e EXCEPT !.state = "wait"] \in Entries
                          /\ [e EXCEPT !.state = "on"] \in Entries
                          /\ e.type \in Types
  BY DEF NoEntry, Entry, Entries

Copies == [Guilds -> Entries]

(* What a step of a game has to show, when it applies a packet.            *)
LEMMA AppliedStep ==
    ASSUME IInv, NEW g \in WarGames, NEW ops, Applied(g, ops),
           at' = at \/ (at' = at \cup {g} /\ ops = {"on"}) \/ at' = at \ {g},
           ops = {"on"} \/ g \notin at' \/ (at' = at /\ ops \cap WarPackets = {}),
           enemy' \in [WarGames -> Copies], map' \in {None, "open"}, lone' \in BOOLEAN,
           UNCHANGED <<declared, war, timers, reserved, waiting, up, warToDb, asked>>,
           excuse' \in {excuse, "confused"}
    PROVE  IInv'
<1>1. WarTypeOK
  BY DEF IInv
<1>2. warToGame' \in [WarGames -> Seq(Packets)]
  BY <1>1, AppliedType
<1>3. at' \subseteq WarGames
  BY <1>1 DEF WarTypeOK
<1>4. WarTypeOK'
  BY <1>1, <1>2, <1>3 DEF WarTypeOK, Copies
<1>5. Down' /\ NoWarLeft'
  BY AppliedKeeps
<1> QED  BY <1>4, <1>5 DEF IInv

(* The other entries of a game stay.                                       *)
LEMMA CopiesType ==
    ASSUME WarTypeOK, NEW g \in WarGames, NEW e \in Copies
    PROVE  /\ [enemy EXCEPT ![g] = e] \in [WarGames -> Copies]
           /\ enemy[g] \in Copies /\ enemy \in [WarGames -> Copies]
           /\ map \in {None, "open"} /\ lone \in BOOLEAN
  BY DEF WarTypeOK, Copies

LEMMA GameDeclareStep ==
    ASSUME IInv, NEW g \in WarGames, GameDeclare(g)
    PROVE  IInv'
<1> DEFINE m == Head(warToGame[g])
           i == m.from
           j == Other(i)
           e == enemy[g]
           x == Entry("send", m.type)
           y == IF e[j].state = None THEN Entry("recv", m.type) ELSE e[j]
           f == [[e EXCEPT ![i] = x] EXCEPT ![j] = y]
<1>1. WarTypeOK
  BY DEF IInv
<1>2. Applied(g, {"declare"})
  BY DEF GameDeclare
<1>3. m \in Packets /\ m.op = "declare"
  BY <1>1, <1>2, AppliedType
<1>4. i \in Guilds /\ j \in Guilds /\ i # j /\ m.type \in Types
  BY <1>3 DEF Packets, Other
<1>5. e \in Copies
  BY <1>1 DEF WarTypeOK, Copies
<1>6. x \in Entries /\ y \in Entries
  BY <1>4, <1>5, EntryType DEF Copies
<1>7. f \in Copies
  BY <1>4, <1>5, <1>6 DEF Copies
<1>8. enemy' = enemy \/ enemy' = [enemy EXCEPT ![g] = f]
  <2>1. \/ enemy' = enemy
        \/ enemy' = [enemy EXCEPT ![g][i] = Entry("send", m.type),
                                  ![g][j] = IF @.state = None THEN Entry("recv", m.type) ELSE @]
    BY DEF GameDeclare
  <2>2. enemy \in [WarGames -> Copies] /\ e \in Copies
    BY <1>1 DEF WarTypeOK, Copies
  <2>3. [e EXCEPT ![i] = x][j] = e[j]
    BY <1>4, <2>2 DEF Copies
  <2>4. [enemy EXCEPT ![g][i] = Entry("send", m.type),
                      ![g][j] = IF @.state = None THEN Entry("recv", m.type) ELSE @]
        = [enemy EXCEPT ![g] = f]
    BY <1>4, <2>2, <2>3 DEF Copies
  <2> QED  BY <2>1, <2>4
<1> HIDE DEF f
<1>9. enemy' \in [WarGames -> Copies]
  BY <1>1, <1>5, <1>7, <1>8, CopiesType
<1>10. /\ UNCHANGED <<declared, war, timers, reserved, waiting, up, warToDb, asked>>
       /\ UNCHANGED <<at, map, lone>> /\ excuse' \in {excuse, "confused"}
  BY DEF GameDeclare, db
<1>11. {"declare"} \cap WarPackets = {}
  BY DEF WarPackets
<1>12. map' \in {None, "open"} /\ lone' \in BOOLEAN
  BY <1>1, <1>10 DEF WarTypeOK
<1> QED  BY <1>2, <1>9, <1>10, <1>11, <1>12, AppliedStep

LEMMA GameRefuseStep ==
    ASSUME IInv, NEW g \in WarGames, GameRefuse(g)
    PROVE  IInv'
<1> DEFINE f == [i \in Guilds |-> IF Declaring(enemy[g][i]) THEN NoEntry ELSE enemy[g][i]]
<1>1. WarTypeOK
  BY DEF IInv
<1>2. Applied(g, {"refuse"}) /\ enemy' = [enemy EXCEPT ![g] = f]
  BY <1>1 DEF GameRefuse, WarTypeOK
<1>3. f \in Copies
  BY <1>1, EntryType DEF WarTypeOK, Copies
<1> HIDE DEF f
<1>4. enemy' \in [WarGames -> Copies]
  BY <1>1, <1>2, <1>3, CopiesType
<1>5. /\ UNCHANGED <<declared, war, timers, reserved, waiting, up, warToDb, asked, excuse>>
      /\ UNCHANGED <<at, map, lone>>
  BY DEF GameRefuse, db, hist
<1>6. {"refuse"} \cap WarPackets = {}
  BY DEF WarPackets
<1>7. map' \in {None, "open"} /\ lone' \in BOOLEAN
  BY <1>1, <1>5 DEF WarTypeOK
<1> QED  BY <1>2, <1>4, <1>5, <1>6, <1>7, AppliedStep

LEMMA GameReserveStep ==
    ASSUME IInv, NEW g \in WarGames, GameReserve(g)
    PROVE  IInv'
<1> DEFINE m == Head(warToGame[g])
           f == [i \in Guilds |-> Entry("reserve", IF enemy[g][i].state = None THEN m.type
                                                   ELSE enemy[g][i].type)]
<1>1. WarTypeOK
  BY DEF IInv
<1>2. Applied(g, {"reserve"}) /\ enemy' = [enemy EXCEPT ![g] = f]
  BY <1>1 DEF GameReserve, WarTypeOK
<1>3. m \in Packets
  BY <1>1, <1>2, AppliedType
<1>4. m.type \in Types
  BY <1>3 DEF Packets
<1>5. f \in Copies
  <2>1. \A i \in Guilds : enemy[g][i] \in Entries
    BY <1>1 DEF WarTypeOK
  <2>2. \A i \in Guilds : enemy[g][i].type \in Types
    BY <2>1, EntryType
  <2>3. \A i \in Guilds :
           (IF enemy[g][i].state = None THEN m.type ELSE enemy[g][i].type) \in Types
    BY <1>4, <2>2
  <2>4. \A i \in Guilds : Entry("reserve", IF enemy[g][i].state = None THEN m.type
                                            ELSE enemy[g][i].type) \in Entries
    BY <2>3, EntryType
  <2> QED  BY <2>4 DEF Copies
<1> HIDE DEF f
<1>6. enemy' \in [WarGames -> Copies]
  BY <1>1, <1>2, <1>5, CopiesType
<1>7. /\ UNCHANGED <<declared, war, timers, reserved, waiting, up, warToDb, asked, excuse>>
      /\ UNCHANGED <<at, map, lone>>
  BY DEF GameReserve, db, hist
<1>8. {"reserve"} \cap WarPackets = {}
  BY DEF WarPackets
<1>9. map' \in {None, "open"} /\ lone' \in BOOLEAN
  BY <1>1, <1>7 DEF WarTypeOK
<1> QED  BY <1>2, <1>6, <1>7, <1>8, <1>9, AppliedStep

LEMMA GameWaitStartStep ==
    ASSUME IInv, NEW g \in WarGames, GameWaitStart(g)
    PROVE  IInv'
<1> DEFINE Ready(i) == enemy[g][i].state \notin {None, "wait"}
           first == Head(warToGame[g]).from
           i == IF Ready(first) THEN first ELSE Other(first)
           f == [enemy[g] EXCEPT ![i] = [enemy[g][i] EXCEPT !.state = "wait"]]
<1>1. WarTypeOK
  BY DEF IInv
<1>2. Applied(g, {"wait"})
  BY DEF GameWaitStart
<1>3. Head(warToGame[g]) \in Packets /\ Head(warToGame[g]).op = "wait"
  BY <1>1, <1>2, AppliedType
<1>4. i \in Guilds
  BY <1>3 DEF Packets, Other
<1>5. enemy[g] \in Copies
  BY <1>1 DEF WarTypeOK, Copies
<1>6. f \in Copies
  BY <1>4, <1>5, EntryType DEF Copies
<1>7. \/ UNCHANGED <<enemy, map, lone>>
      \/ /\ enemy' = [enemy EXCEPT ![g][i].state = "wait"]
         /\ (map' = "open" /\ lone' = (lone \/ map = "open")) \/ UNCHANGED <<map, lone>>
  BY DEF GameWaitStart
<1>8. [enemy EXCEPT ![g][i].state = "wait"] = [enemy EXCEPT ![g] = f]
  OBVIOUS
<1>9. enemy' \in [WarGames -> Copies]
  <2>1. enemy' = enemy \/ enemy' = [enemy EXCEPT ![g] = f]
    BY <1>7, <1>8
  <2> HIDE DEF f
  <2> QED  BY <1>1, <1>6, <2>1, CopiesType
<1>10. map' \in {None, "open"} /\ lone' \in BOOLEAN
  BY <1>1, <1>7 DEF WarTypeOK
<1>11. /\ UNCHANGED <<declared, war, timers, reserved, waiting, up, warToDb, asked, excuse>>
       /\ UNCHANGED at
  BY DEF GameWaitStart, db, hist
<1>12. {"wait"} \cap WarPackets = {}
  BY DEF WarPackets
<1> QED  BY <1>2, <1>9, <1>10, <1>11, <1>12, AppliedStep

LEMMA GameStartWarStep ==
    ASSUME IInv, NEW g \in WarGames, GameStartWar(g)
    PROVE  IInv'
<1> DEFINE f == [i \in Guilds |-> [enemy[g][i] EXCEPT !.state = "on"]]
<1>1. WarTypeOK
  BY DEF IInv
<1>2. /\ Applied(g, {"on"})
      /\ \/ enemy' = [enemy EXCEPT ![g] = f] /\ at' = at \cup {g}
         \/ UNCHANGED <<enemy, at>>
  BY <1>1 DEF GameStartWar, WarTypeOK
<1>3. enemy[g] \in Copies
  BY <1>1 DEF WarTypeOK, Copies
<1>4. f \in Copies
  BY <1>3, EntryType DEF Copies
<1> HIDE DEF f
<1>5. enemy' \in [WarGames -> Copies]
  BY <1>1, <1>2, <1>3, <1>4, CopiesType
<1>6. /\ UNCHANGED <<declared, war, timers, reserved, waiting, up, warToDb, asked, excuse>>
      /\ UNCHANGED <<map, lone>>
  BY DEF GameStartWar, db, hist
<1>7. map' \in {None, "open"} /\ lone' \in BOOLEAN
  BY <1>1, <1>6 DEF WarTypeOK
<1> QED  BY <1>2, <1>5, <1>6, <1>7, AppliedStep

LEMMA GameEndStep ==
    ASSUME IInv, NEW g \in WarGames, GameEnd(g)
    PROVE  IInv'
<1> DEFINE f == [i \in Guilds |-> NoEntry]
<1>1. WarTypeOK
  BY DEF IInv
<1>2. Applied(g, {"end", "over", "cancel"}) /\ EndWar(g)
  BY DEF GameEnd
<1>3. f \in Copies
  BY EntryType DEF Copies
<1>4. \/ g \notin at /\ UNCHANGED <<enemy, at, map, lone>>
      \/ /\ enemy' = [enemy EXCEPT ![g] = f] /\ at' = at \ {g}
         /\ map' \in {None, map} /\ UNCHANGED lone
  BY <1>2 DEF EndWar
<1> HIDE DEF f
<1>5. enemy' \in [WarGames -> Copies]
  BY <1>1, <1>3, <1>4, CopiesType
<1>6. UNCHANGED <<declared, war, timers, reserved, waiting, up, warToDb, asked, excuse>>
  BY DEF GameEnd, db, hist
<1>7. map' \in {None, "open"} /\ lone' \in BOOLEAN /\ at' = at \ {g}
  BY <1>1, <1>4 DEF WarTypeOK
<1> QED  BY <1>2, <1>5, <1>6, <1>7, AppliedStep

-----------------------------------------------------------------------------
(* What is asked of the db.                                                *)

LEMMA AskStep ==
    ASSUME IInv, NEW g \in WarGames, NEW m \in Packets, Send(g, m),
           UNCHANGED <<db, copies, up, warToGame, asked>>, excuse' \in {excuse, "confused"}
    PROVE  IInv'
<1>1. warToDb' \in [WarGames -> Seq(Packets)]
  BY SendType DEF IInv
<1>2. WarTypeOK'
  BY <1>1 DEF IInv, WarTypeOK, db, copies
<1> QED  BY <1>2, QuietKeeps DEF IInv, db, copies

LEMMA MasterSteps ==
    ASSUME IInv, GuildWarAssumption, NEW i \in Guilds, MasterStep(i)
    PROVE  IInv'
<1>1. Home[i] \in WarGames
  BY DEF GuildWarAssumption
<1>2. CASE \E t \in Types : Declare(i, t)
  <2>1. PICK t \in Types : Declare(i, t)
    BY <1>2
  <2> DEFINE m == Packet("declare", i, t)
  <2>2. m \in Packets
    BY PacketType
  <2>3. Send(Home[i], m) /\ UNCHANGED <<db, copies, up, warToGame, asked, excuse>>
    BY <2>1 DEF Declare, Ask
  <2> HIDE DEF m
  <2> QED  BY <1>1, <2>2, <2>3, AskStep
<1>3. CASE Accept(i)
  <2> DEFINE e == enemy[Home[i]]
             m == Packet(IF e[i].type = "field" THEN "on" ELSE "wait", i, e[i].type)
  <2>1. e[i].type \in Types
    <3>1. e[i] \in Entries
      BY <1>1 DEF IInv, WarTypeOK
    <3> QED  BY <3>1, EntryType
  <2>2. m \in Packets
    BY <2>1, PacketType
  <2>3. Send(Home[i], m) /\ UNCHANGED <<db, copies, up, warToGame, asked>>
    BY <1>3 DEF Accept, Ask
  <2>4. excuse' \in {excuse, "confused"}
    BY <1>3 DEF Accept, NoteTwice
  <2> HIDE DEF m
  <2> QED  BY <1>1, <2>2, <2>3, <2>4, AskStep
<1>4. CASE Refuse(i)
  <2> DEFINE m == Packet("refuse", i, "field")
  <2>1. m \in Packets
    BY PacketType
  <2>2. Send(Home[i], m) /\ UNCHANGED <<db, copies, up, warToGame, asked>>
    BY <1>4 DEF Refuse, Ask
  <2>3. excuse' \in {excuse, "confused"}
    BY <1>4 DEF Refuse, NoteTwice
  <2> HIDE DEF m
  <2> QED  BY <1>1, <2>1, <2>2, <2>3, AskStep
<1> QED  BY <1>2, <1>3, <1>4 DEF MasterStep

LEMMA GameMasterStep ==
    ASSUME IInv, NEW g \in WarGames, GameMaster(g)
    PROVE  IInv'
<1>1. PICK op \in {"end", "cancel"} : Send(g, Packet(op, 0, "field"))
  BY DEF GameMaster
<1>2. UNCHANGED <<db, copies, up, warToGame, asked, excuse>>
  BY DEF GameMaster, hist
<1> DEFINE m == Packet(op, 0, "field")
<1>3. m \in Packets /\ Send(g, m)
  BY <1>1, PacketType
<1> HIDE DEF m
<1> QED  BY <1>2, <1>3, AskStep

LEMMA RequestWarOverStep ==
    ASSUME IInv, GuildWarAssumption, RequestWarOver
    PROVE  IInv'
<1> DEFINE m == Packet(IF enemy[MapGame][1].state = "on" THEN "over" ELSE "end", 0, "field")
<1>1. m \in Packets
  BY PacketType
<1>2. Send(MapGame, m) /\ UNCHANGED <<db, copies, up, warToGame, asked, excuse>>
  BY DEF RequestWarOver, hist
<1>3. MapGame \in WarGames
  BY DEF GuildWarAssumption
<1> HIDE DEF m
<1> QED  BY <1>1, <1>2, <1>3, AskStep

-----------------------------------------------------------------------------
(* Lost connections, crashes and reconnections.                            *)

LEMMA LosesType ==
    ASSUME WarTypeOK, NEW gs \in SUBSET WarGames, Loses(gs)
    PROVE  /\ up' \in [WarGames -> BOOLEAN]
           /\ warToDb' \in [WarGames -> Seq(Packets)] /\ warToGame' \in [WarGames -> Seq(Packets)]
           /\ asked' \subseteq Guilds /\ excuse' \in {"none", "lost", "confused"}
<1>1. <<>> \in Seq(Packets)
  OBVIOUS
<1> QED  BY <1>1 DEF Loses, WarTypeOK

LEMMA ConnectionLostStep ==
    ASSUME IInv, NEW g \in WarGames, WarConnectionLost(g)
    PROVE  IInv'
<1>1. WarTypeOK
  BY DEF IInv
<1>2. /\ Loses({g}) /\ {g} \in SUBSET WarGames /\ StopAllGuildWar({g})
      /\ UNCHANGED <<declared, war, timers, reserved, waiting>>
  BY DEF WarConnectionLost, db
<1>3. /\ enemy' \in [WarGames -> Copies]
      /\ at' = at \ {g} /\ map' \in {None, "open"} /\ lone' \in BOOLEAN
  BY <1>1, <1>2, EntryType DEF StopAllGuildWar, WarTypeOK, Copies
<1>4. WarTypeOK'
  <2>1. at' \subseteq WarGames
    BY <1>1, <1>3 DEF WarTypeOK
  <2> QED  BY <1>1, <1>2, <1>3, <2>1, LosesType DEF WarTypeOK, Copies
<1>5. Down' /\ NoWarLeft'
  BY <1>2, <1>3, LosesKeeps
<1> QED  BY <1>4, <1>5 DEF IInv

LEMMA GameCrashStep ==
    ASSUME IInv, NEW g \in WarGames, GameCrash(g)
    PROVE  IInv'
<1> DEFINE f == [i \in Guilds |-> NoEntry]
<1>1. WarTypeOK
  BY DEF IInv
<1>2. /\ Loses({g}) /\ {g} \in SUBSET WarGames /\ at' = at \ {g}
      /\ enemy' = [enemy EXCEPT ![g] = f]
      /\ (map' = None /\ lone' = FALSE) \/ UNCHANGED <<map, lone>>
      /\ UNCHANGED <<declared, war, timers, reserved, waiting>>
  BY DEF GameCrash, db
<1>3. f \in Copies
  BY EntryType DEF Copies
<1> HIDE DEF f
<1>4. enemy' \in [WarGames -> Copies]
  BY <1>1, <1>2, <1>3, CopiesType
<1>5. at' \subseteq WarGames /\ map' \in {None, "open"} /\ lone' \in BOOLEAN
  BY <1>1, <1>2 DEF WarTypeOK
<1>6. WarTypeOK'
  BY <1>1, <1>2, <1>4, <1>5, LosesType DEF WarTypeOK, Copies
<1>7. Down' /\ NoWarLeft'
  BY <1>2, LosesKeeps
<1> QED  BY <1>6, <1>7 DEF IInv

LEMMA DbRestartStep ==
    ASSUME IInv, WarDbRestart
    PROVE  IInv'
<1>1. WarTypeOK
  BY DEF IInv
<1>2. /\ Loses(WarGames) /\ WarGames \in SUBSET WarGames /\ StopAllGuildWar(WarGames)
      /\ reserved' \in 0..reserved
      /\ declared' = NoDeclare /\ war' = 0 /\ timers' = <<>> /\ waiting' = 0
  BY DEF WarDbRestart
<1>3. /\ enemy' \in [WarGames -> Copies]
      /\ at' = at \ WarGames /\ map' \in {None, "open"} /\ lone' \in BOOLEAN
  BY <1>1, <1>2, EntryType DEF StopAllGuildWar, WarTypeOK, Copies
<1>4. WarTypeOK'
  <2>1. at' \subseteq WarGames
    BY <1>1, <1>3 DEF WarTypeOK
  <2>2. reserved' \in Nat /\ declared' \in [Guilds -> Types \cup {None}]
    BY <1>1, <1>2, NoDeclareType DEF WarTypeOK
  <2> QED  BY <1>1, <1>2, <1>3, <2>1, <2>2, LosesType DEF WarTypeOK, Copies
<1>5. Down' /\ NoWarLeft'
  BY <1>2, <1>3, LosesKeeps
<1> QED  BY <1>4, <1>5 DEF IInv

(* Packets that have nothing to do with the war.                           *)
Others == {m \in Packets : m.op \notin WarPackets}

LEMMA OthersOnly == \A m \in Seq(Others) : m \in Seq(Packets) /\ ~WillBe(FALSE, m)
<1> SUFFICES ASSUME NEW m \in Seq(Others) PROVE m \in Seq(Packets) /\ ~WillBe(FALSE, m)
  OBVIOUS
<1>1. Len(m) \in Nat /\ DOMAIN m = 1..Len(m) /\ \A k \in 1..Len(m) : m[k] \in Others
  BY LenProperties, ElementOfSeq
<1>2. m \in Seq(Packets)
  BY DEF Others
<1>3. \A k \in DOMAIN m : m[k].op # "on"
  BY <1>1, Kinds DEF Others
<1> QED  BY <1>2, <1>3 DEF WillBe

LEMMA OnSetupStep ==
    ASSUME IInv, NEW g \in WarGames, OnSetup(g)
    PROVE  IInv'
<1>1. WarTypeOK /\ Down /\ NoWarLeft
  BY DEF IInv
<1>2. PICK by \in [Guilds -> Guilds] :
          LET Told(i) == IF declared[i] = None THEN <<>>
                         ELSE <<Packet("declare", by[i], declared[i])>>
          IN warToGame' = [warToGame EXCEPT ![g] =
                    (IF war = 0 THEN <<>> ELSE <<Packet("on", 0, "field")>>)
                    \o Told(1) \o Told(2)
                    \o [k \in 1..reserved |-> Packet("reserve", 0, "map")]]
  BY DEF OnSetup
<1> DEFINE Told(i) == IF declared[i] = None THEN <<>>
                      ELSE <<Packet("declare", by[i], declared[i])>>
           s1 == Told(1)
           s2 == Told(2)
           r == [k \in 1..reserved |-> Packet("reserve", 0, "map")]
           w == IF war = 0 THEN <<>> ELSE <<Packet("on", 0, "field")>>
           s == w \o s1 \o s2 \o r
<1>3. /\ ~up[g] /\ up' = [up EXCEPT ![g] = TRUE]
      /\ warToGame' = [warToGame EXCEPT ![g] = s]
      /\ UNCHANGED <<declared, war, timers, reserved, waiting, enemy, at, map, lone,
                     warToDb, asked, excuse>>
  BY <1>2 DEF OnSetup, db, copies, hist
<1>4. s1 \in Seq(Others) /\ s2 \in Seq(Others)
  <2>1. ASSUME NEW i \in Guilds, declared[i] # None
        PROVE  Packet("declare", by[i], declared[i]) \in Others
    <3>1. by[i] \in Guilds /\ declared[i] \in Types
      BY <1>1, <2>1 DEF WarTypeOK
    <3>2. Packet("declare", by[i], declared[i]) \in Packets
      BY <3>1, PacketType
    <3> QED  BY <3>2 DEF Others, Packet, WarPackets
  <2>2. ASSUME NEW i \in Guilds PROVE Told(i) \in Seq(Others)
    <3>1. CASE declared[i] = None
      BY <3>1
    <3>2. CASE declared[i] # None
      BY <2>1, <3>2
    <3> QED  BY <3>1, <3>2
  <2> QED  BY <2>2
<1>5. r \in Seq(Others)
  <2>1. Packet("reserve", 0, "map") \in Others
    BY PacketType DEF Others, Packet, WarPackets
  <2>2. reserved \in Nat
    BY <1>1 DEF WarTypeOK
  <2> QED  BY <2>1, <2>2, IsASeq
<1>6. w \in Seq(Packets) /\ (war = 0 => w = <<>>)
  BY PacketType
<1> HIDE DEF s1, s2, r, w
<1>7. s1 \o s2 \in Seq(Others) /\ s \in Seq(Packets)
  BY <1>4, <1>5, <1>6, ConcatProperties, OthersOnly
<1>8. war = 0 => s \in Seq(Others)
  BY <1>4, <1>5, <1>6, ConcatProperties
<1> HIDE DEF s
<1>9. WarTypeOK'
  BY <1>1, <1>3, <1>7 DEF WarTypeOK
<1>10. Down'
  BY <1>1, <1>3 DEF Down, WarTypeOK
<1>11. g \notin at
  BY <1>1, <1>3 DEF NoWarLeft
<1>12. ASSUME NEW h \in WarGames, up'[h], WillBeAtWar(h)' PROVE war' # 0
  <2>1. CASE h = g
    <3>1. warToGame'[g] = s
      BY <1>1, <1>3 DEF WarTypeOK
    <3>2. WillBe(FALSE, s)
      BY <1>3, <1>11, <1>12, <2>1, <3>1 DEF WillBeAtWar, WillBe
    <3> QED  BY <1>3, <1>8, <3>2, OthersOnly
  <2>2. CASE h # g
    <3>1. warToGame'[h] = warToGame[h] /\ up[h]
      BY <1>1, <1>3, <1>12, <2>2 DEF WarTypeOK
    <3>2. WillBeAtWar(h)
      BY <1>3, <1>12, <3>1 DEF WillBeAtWar
    <3> QED  BY <1>1, <1>3, <3>1, <3>2 DEF NoWarLeft
  <2> QED  BY <2>1, <2>2
<1>13. \A h \in WarGames : h \in at' => up'[h]
  BY <1>1, <1>3, <1>11 DEF NoWarLeft, WarTypeOK
<1> QED  BY <1>9, <1>10, <1>12, <1>13 DEF IInv, NoWarLeft

-----------------------------------------------------------------------------
(* Types, and wars that are on: the theorems.                              *)

LEMMA InvInit == WarInit => IInv
<1> SUFFICES ASSUME WarInit PROVE IInv
  OBVIOUS
<1>1. \A g \in WarGames : warToGame[g] = <<>> /\ up[g] /\ g \notin at
  BY DEF WarInit
<1>2. WarTypeOK
  <2>1. <<>> \in Seq(Packets) /\ <<>> \in Seq([war : Nat, type : Types, bEnd : BOOLEAN])
    OBVIOUS
  <2>2. enemy \in [WarGames -> [Guilds -> Entries]]
    BY EntryType DEF WarInit
  <2> QED  BY <2>1, <2>2, NoDeclareType DEF WarInit, WarTypeOK
<1>3. \A g \in WarGames : ~WillBeAtWar(g)
  BY <1>1 DEF WillBeAtWar
<1> QED  BY <1>1, <1>2, <1>3 DEF IInv, Down, NoWarLeft

LEMMA InvStep == IInv /\ [WarNext]_warVars => IInv'
<1> SUFFICES ASSUME IInv, [WarNext]_warVars PROVE IInv'
  OBVIOUS
<1>1. CASE UNCHANGED warVars
  <2>1. UNCHANGED <<declared, war, timers, reserved, waiting, enemy, at, map, lone, up,
                    warToDb, warToGame, asked, excuse>>
    BY <1>1 DEF warVars, db, copies, hist
  <2>2. WarTypeOK'
    BY <2>1 DEF IInv, WarTypeOK
  <2> QED  BY <2>1, <2>2, QuietKeeps DEF IInv
<1>2. CASE DbStep
  BY <1>2, DbDeclareStep, DbRefuseStep, DbReserveStep, DbOnWarStep, DbOverStep, DbEndStep,
     DbReservedWarStep, DbStartReservedStep, DbTimerStep DEF DbStep
<1>3. ASSUME NEW g \in WarGames, WarGameStep(g) PROVE IInv'
  BY <1>3, GameDeclareStep, GameRefuseStep, GameReserveStep, GameWaitStartStep,
     GameStartWarStep, GameEndStep, GameMasterStep, ConnectionLostStep, GameCrashStep,
     OnSetupStep DEF WarGameStep
<1>4. ASSUME NEW i \in Guilds, MasterStep(i) PROVE IInv'
  BY <1>4, MasterSteps, GuildWarAssumption
<1>5. CASE RequestWarOver
  BY <1>5, RequestWarOverStep, GuildWarAssumption
<1>6. CASE WarDbRestart
  BY <1>6, DbRestartStep
<1> QED  BY <1>1, <1>2, <1>3, <1>4, <1>5, <1>6 DEF WarNext

LEMMA Invariant == WarSpec => []IInv
<1>1. IInv /\ [WarNext]_warVars => IInv'
  BY InvStep
<1> QED  BY InvInit, <1>1, PTL DEF WarSpec

(* Every part of the state keeps its type.                                 *)
THEOREM TypeCorrect == WarSpec => []WarTypeOK
<1>1. IInv => WarTypeOK
  BY DEF IInv
<1> QED  BY Invariant, <1>1, PTL

(* No game goes on with a war that the db has ended, whatever is under way *)
(* and whichever connections are lost: it is told, or loses its connection *)
(* and with it its wars.                                                   *)
THEOREM WarsEnd == WarSpec => []NoWarLeft
<1>1. IInv => NoWarLeft
  BY DEF IInv
<1> QED  BY Invariant, <1>1, PTL
-----------------------------------------------------------------------------
(* Answers under way.                                                      *)

LEMMA OtherIt == \A j \in Guilds : Other(j) \in Guilds /\ Other(j) # j /\ Other(Other(j)) = j
  BY DEF Other

LEMMA HomeType == \A j \in Guilds : Home[j] \in WarGames
  BY GuildWarAssumption DEF GuildWarAssumption

LEMMA AnsweredAt ==
    ASSUME NEW j \in Guilds
    PROVE  /\ Answered(j) <=> \E k \in DOMAIN warToGame[Home[j]] : Answer(warToGame[Home[j]][k], j)
           /\ Answered(j)' <=> \E k \in DOMAIN warToGame'[Home[j]] : Answer(warToGame'[Home[j]][k], j)
  BY DEF Answered, Answer, ToSet

(* What is forwarded comes after what is under way.                        *)
LEMMA AnsweredForward ==
    ASSUME WarTypeOK, NEW m \in Packets, Forward(m), NEW j \in Guilds
    PROVE  /\ Answered(j) => Answered(j)'
           /\ up[Home[j]] /\ Answer(m, j) => Answered(j)'
<1> DEFINE g == Home[j]
           q == warToGame[g]
<1>1. g \in WarGames /\ q \in Seq(Packets)
  BY HomeType DEF WarTypeOK
<1>2. warToGame'[g] = IF up[g] THEN Append(q, m) ELSE q
  BY <1>1, ForwardType
<1>3. /\ Len(q) \in Nat /\ DOMAIN q = 1..Len(q)
      /\ DOMAIN Append(q, m) = 1..(Len(q) + 1)
      /\ \A k \in 1..Len(q) : Append(q, m)[k] = q[k]
      /\ Append(q, m)[Len(q) + 1] = m
  BY <1>1, AppendProperties, LenProperties
<1>4. /\ Answered(j) <=> \E k \in DOMAIN q : Answer(q[k], j)
      /\ Answered(j)' <=> \E k \in DOMAIN warToGame'[g] : Answer(warToGame'[g][k], j)
  BY AnsweredAt
<1> HIDE DEF g, q
<1>5. Answered(j) => Answered(j)'
  <2>1. \A k \in DOMAIN q : k \in DOMAIN warToGame'[g] /\ warToGame'[g][k] = q[k]
    BY <1>2, <1>3
  <2> QED  BY <1>4, <2>1
<1>6. up[g] /\ Answer(m, j) => Answered(j)'
  <2>1. up[g] => Len(q) + 1 \in DOMAIN warToGame'[g] /\ warToGame'[g][Len(q) + 1] = m
    BY <1>2, <1>3
  <2> QED  BY <1>4, <2>1
<1> QED  BY <1>5, <1>6 DEF g

(* A game applies a packet: an answer under way to it is the one that it   *)
(* applies, or is still under way.                                         *)
LEMMA AnsweredApplied ==
    ASSUME WarTypeOK, NEW g \in WarGames, NEW ops, Applied(g, ops), NEW j \in Guilds,
           Answered(j), ~Answered(j)'
    PROVE  g = Home[j] /\ Answer(Head(warToGame[g]), j)
<1> DEFINE h == Home[j]
           q == warToGame[h]
<1>1. h \in WarGames /\ q \in Seq(Packets)
  BY HomeType DEF WarTypeOK
<1>2. /\ warToGame[g] # <<>>
      /\ warToGame'[h] = IF h = g THEN Tail(warToGame[g]) ELSE q
  BY <1>1, AppliedType
<1>3. /\ Answered(j) <=> \E k \in DOMAIN q : Answer(q[k], j)
      /\ Answered(j)' <=> \E k \in DOMAIN warToGame'[h] : Answer(warToGame'[h][k], j)
  BY AnsweredAt
<1> HIDE DEF h
<1>4. h = g
  BY <1>2, <1>3
<1>5. /\ Len(q) \in Nat /\ DOMAIN q = 1..Len(q) /\ Len(q) >= 1 /\ Head(q) = q[1]
      /\ Len(Tail(q)) = Len(q) - 1 /\ DOMAIN Tail(q) = 1..(Len(q) - 1)
      /\ \A k \in 1..Len(Tail(q)) : Tail(q)[k] = q[k + 1]
  BY <1>1, <1>2, <1>4, HeadTailProperties, LenProperties, EmptySeq
<1> HIDE DEF q
<1>6. PICK k \in DOMAIN q : Answer(q[k], j)
  BY <1>3
<1>7. CASE k = 1
  BY <1>4, <1>5, <1>6, <1>7 DEF h, q
<1>8. CASE k # 1
  <2>1. k - 1 \in 1..(Len(q) - 1) /\ Tail(q)[k - 1] = q[k]
    BY <1>5, <1>6, <1>8
  <2>2. warToGame'[h] = Tail(q)
    BY <1>2, <1>4 DEF q
  <2>3. \E l \in DOMAIN warToGame'[h] : Answer(warToGame'[h][l], j)
    BY <1>5, <1>6, <2>1, <2>2
  <2> QED  BY <1>3, <2>3
<1> QED  BY <1>7, <1>8

-----------------------------------------------------------------------------
(* What is under way to the db.                                            *)

(* After the db has read a packet there is no other.                       *)
LEMMA ReceivedLast ==
    ASSUME WarTypeOK, OneAsked, NEW g \in WarGames, NEW op, Received(g, op)
    PROVE  \A h \in WarGames : warToDb'[h] = <<>>
<1>1. warToDb[g] # <<>> /\ warToDb[g] \in Seq(Packets) /\ warToDb' = [warToDb EXCEPT ![g] = Tail(@)]
  BY DEF Received, WarTypeOK
<1>2. Len(warToDb[g]) = 1 /\ \A h \in WarGames : warToDb[h] # <<>> => h = g
  BY <1>1 DEF OneAsked
<1>3. Tail(warToDb[g]) = <<>>
  <2>1. Tail(warToDb[g]) \in Seq(Packets) /\ Len(Tail(warToDb[g])) = 0
    BY <1>1, <1>2, HeadTailProperties
  <2> QED  BY <2>1, EmptySeq
<1> QED  BY <1>1, <1>2, <1>3 DEF WarTypeOK

LEMMA NothingAsked ==
    ASSUME \A h \in WarGames : warToDb'[h] = <<>>
    PROVE  OneAsked' /\ \A j \in Guilds : ~Sent(j)'
  BY DEF OneAsked, Sent

LEMMA DbQuiet ==
    ASSUME OneAsked, UNCHANGED warToDb, \A g \in WarGames : up[g] => up'[g]
    PROVE  OneAsked' /\ \A j \in Guilds : Sent(j)' <=> Sent(j)
  BY DEF OneAsked, Sent

(* One packet is asked of the db.                                          *)
LEMMA SendOne ==
    ASSUME WarTypeOK, NEW g \in WarGames, NEW m \in Packets, Send(g, m), UNCHANGED up,
           m.op \in Answers \cup {"declare"} => m.from \in Guilds,
           m.from \in Guilds => Home[m.from] = g
    PROVE  OneAsked' /\ \A j \in Guilds : Sent(j)' => m.from = j /\ m.op \in Answers
<1>1. /\ \A h \in WarGames : warToDb[h] = <<>>
      /\ up'[g] /\ warToDb' = [warToDb EXCEPT ![g] = Append(@, m)]
  BY DEF Send
<1>2. \A h \in WarGames : warToDb'[h] = IF h = g THEN <<m>> ELSE <<>>
  <2>1. Append(<<>>, m) = <<m>>
    OBVIOUS
  <2> QED  BY <1>1, <2>1 DEF WarTypeOK
<1>3. <<m>> # <<>> /\ Len(<<m>>) = 1 /\ Head(<<m>>) = m
  OBVIOUS
<1>4. OneAsked'
  <2> SUFFICES ASSUME NEW h \in WarGames, warToDb'[h] # <<>>
               PROVE  /\ up'[h] /\ Len(warToDb'[h]) = 1
                      /\ \A h2 \in WarGames : warToDb'[h2] # <<>> => h2 = h
                      /\ Head(warToDb'[h]).op \in Answers \cup {"declare"}
                            => Head(warToDb'[h]).from \in Guilds
                      /\ Head(warToDb'[h]).from \in Guilds => Home[Head(warToDb'[h]).from] = h
    BY DEF OneAsked
  <2>1. h = g /\ warToDb'[h] = <<m>>
    BY <1>2
  <2> QED  BY <1>1, <1>2, <1>3, <2>1
<1>5. \A j \in Guilds : Sent(j)' => m.from = j /\ m.op \in Answers
  BY <1>2, <1>3 DEF Sent
<1> QED  BY <1>4, <1>5

-----------------------------------------------------------------------------
(* Who may answer.                                                         *)

(* Nobody may answer who might not before, but who answers.                *)
LEMMA NobodyNew ==
    ASSUME OneAnswers, \A j \in Guilds : Live(j)' => Live(j),
           \A j \in Guilds : Sent(j)' => Sent(j) \/ Live(j), asked \subseteq asked'
    PROVE  OneAnswers'
  BY OtherIt DEF OneAnswers

LEMMA NobodyAnswers ==
    ASSUME \A j \in Guilds : ~Live(j)', \A j \in Guilds : ~Sent(j)'
    PROVE  OneAnswers'
  BY DEF OneAnswers

LEMMA LiveForward ==
    ASSUME WarTypeOK, NEW m \in Packets, Forward(m), UNCHANGED enemy
    PROVE  \A j \in Guilds : Live(j)' => Live(j)
  BY AnsweredForward DEF Live

LEMMA PairsQuiet == Pairs /\ UNCHANGED enemy => Pairs'
  BY DEF Pairs

(* The db has read an answer and forwards it.                              *)
LEMMA AnswerRead ==
    ASSUME WarTypeOK, OneAsked, OneAnswers, NEW g \in WarGames, NEW op \in Answers,
           Received(g, op), NEW m \in Packets, Forward(m), UNCHANGED enemy,
           m.op \in {"refuse", "on", "reserve"}, m.from = Head(warToDb[g]).from
    PROVE  OneAnswers'
<1>1. warToDb[g] # <<>> /\ Head(warToDb[g]).op \in Answers
  BY ReceivedType DEF Received
<1>2. m.from \in Guilds /\ Home[m.from] = g /\ up[g]
  BY <1>1 DEF OneAsked
<1>3. Sent(m.from)
  BY <1>1 DEF Sent
<1>4. ~Live(Other(m.from))
  BY <1>2, <1>3 DEF OneAnswers
<1>5. ~Live(m.from)'
  <2>1. Answer(m, m.from)
    BY DEF Answer
  <2> QED  BY <1>2, <2>1, AnsweredForward DEF Live
<1>6. ~Live(Other(m.from))'
  BY <1>2, <1>4, LiveForward, OtherIt
<1>7. \A j \in Guilds : ~Live(j)'
  BY <1>2, <1>5, <1>6 DEF Other
<1>8. \A j \in Guilds : ~Sent(j)'
  BY ReceivedLast, NothingAsked
<1> QED  BY <1>7, <1>8, NobodyAnswers

(* A step of the db that reads no answer.                                  *)
LEMMA DbKeepsConsent ==
    ASSUME IInv, ConsentInv, UNCHANGED <<enemy, up, excuse>>,
           \/ \E g \in WarGames, op \in {"declare", "wait", "end", "over", "cancel"} : Received(g, op)
           \/ UNCHANGED warToDb,
           \/ \E m \in Packets : Forward(m)
           \/ UNCHANGED warToGame,
           asked \subseteq asked'
    PROVE  ConsentInv'
<1>1. WarTypeOK /\ OneAsked /\ Pairs /\ (excuse # "confused" => OneAnswers)
  BY DEF IInv, ConsentInv
<1>2. OneAsked' /\ \A j \in Guilds : Sent(j)' => Sent(j)
  <2>1. CASE \E g \in WarGames, op \in {"declare", "wait", "end", "over", "cancel"} : Received(g, op)
    BY <1>1, <2>1, ReceivedLast, NothingAsked
  <2>2. CASE UNCHANGED warToDb
    BY <1>1, <2>2, DbQuiet
  <2> QED  BY <2>1, <2>2
<1>3. \A j \in Guilds : Live(j)' => Live(j)
  <2>1. CASE UNCHANGED warToGame
    BY <2>1 DEF Live, Answered
  <2>2. CASE \E m \in Packets : Forward(m)
    BY <1>1, <2>2, LiveForward
  <2> QED  BY <2>1, <2>2
<1>4. excuse' # "confused" => OneAnswers'
  BY <1>1, <1>2, <1>3, NobodyNew
<1> QED  BY <1>1, <1>2, <1>4, PairsQuiet DEF ConsentInv

LEMMA AnswerKeepsConsent ==
    ASSUME IInv, ConsentInv, NEW g \in WarGames, NEW op \in Answers,
           Received(g, op), NEW m \in Packets, Forward(m), UNCHANGED <<enemy, excuse>>,
           m.op \in {"refuse", "on", "reserve"}, m.from = Head(warToDb[g]).from
    PROVE  ConsentInv'
<1>1. WarTypeOK /\ OneAsked /\ Pairs /\ (excuse # "confused" => OneAnswers)
  BY DEF IInv, ConsentInv
<1>2. OneAsked'
  BY <1>1, ReceivedLast, NothingAsked
<1>3. excuse' # "confused" => OneAnswers'
  BY <1>1, AnswerRead
<1> QED  BY <1>1, <1>2, <1>3, PairsQuiet DEF ConsentInv

LEMMA DbStepConsent ==
    ASSUME IInv, ConsentInv, DbStep
    PROVE  ConsentInv'
<1>1. WarTypeOK
  BY DEF IInv
<1>2. ASSUME NEW g \in WarGames, DbDeclare(g) PROVE ConsentInv'
  <2>1. Received(g, "declare") /\ Head(warToDb[g]) \in Packets
    BY <1>1, <1>2, ReceivedType DEF DbDeclare
  <2>2. /\ Forward(Head(warToDb[g])) /\ asked \subseteq asked'
        /\ UNCHANGED <<enemy, up, excuse>>
    BY <1>2 DEF DbDeclare, copies
  <2> QED  BY <2>1, <2>2, DbKeepsConsent
<1>3. ASSUME NEW g \in WarGames, DbRefuse(g) PROVE ConsentInv'
  <2>1. Received(g, "refuse") /\ Head(warToDb[g]) \in Packets /\ Head(warToDb[g]).op = "refuse"
    BY <1>1, <1>3, ReceivedType DEF DbRefuse
  <2>2. Forward(Head(warToDb[g])) /\ UNCHANGED <<enemy, excuse>>
    BY <1>3 DEF DbRefuse, copies
  <2> QED  BY <2>1, <2>2, AnswerKeepsConsent DEF Answers
<1>4. ASSUME NEW g \in WarGames, DbReserve(g) PROVE ConsentInv'
  <2> DEFINE m == Head(warToDb[g])
             r == [m EXCEPT !.op = "reserve"]
             c == [m EXCEPT !.op = "cancel"]
  <2>1. Received(g, "wait") /\ m \in Packets
    BY <1>1, <1>4, ReceivedType DEF DbReserve
  <2>2. r \in Packets /\ r.op = "reserve" /\ r.from = m.from /\ c \in Packets
    BY <2>1 DEF Packets
  <2>3. \/ Forward(r)
        \/ Forward(c) /\ UNCHANGED asked
    BY <1>4 DEF DbReserve
  <2>4. UNCHANGED <<enemy, up, excuse>>
    BY <1>4 DEF DbReserve, copies
  <2>5. r.from = Head(warToDb[g]).from
    BY <2>2
  <2> HIDE DEF m, r, c
  <2>6. CASE Forward(r)
    BY <2>1, <2>2, <2>4, <2>5, <2>6, AnswerKeepsConsent DEF Answers
  <2>7. CASE Forward(c) /\ UNCHANGED asked
    BY <2>1, <2>2, <2>4, <2>7, DbKeepsConsent
  <2> QED  BY <2>3, <2>6, <2>7
<1>5. ASSUME NEW g \in WarGames, DbOnWar(g) PROVE ConsentInv'
  <2>1. Received(g, "on") /\ Head(warToDb[g]) \in Packets /\ Head(warToDb[g]).op = "on"
    BY <1>1, <1>5, ReceivedType DEF DbOnWar
  <2>2. Forward(Head(warToDb[g])) /\ UNCHANGED <<enemy, excuse>>
    BY <1>5 DEF DbOnWar, copies
  <2> QED  BY <2>1, <2>2, AnswerKeepsConsent DEF Answers
<1>6. ASSUME NEW g \in WarGames, DbOver(g) \/ DbCancel(g) PROVE ConsentInv'
  <2>1. PICK op \in {"over", "cancel"} : Received(g, op)
    BY <1>6 DEF DbOver, DbCancel
  <2>2. Head(warToDb[g]) \in Packets
    BY <1>1, <2>1, ReceivedType
  <2>3. Forward(Head(warToDb[g])) /\ UNCHANGED <<enemy, up, excuse, asked>>
    BY <1>6 DEF DbOver, DbCancel, copies, hist
  <2> QED  BY <2>1, <2>2, <2>3, DbKeepsConsent
<1>7. Packet("end", 0, "field") \in Packets /\ Packet("on", 0, "map") \in Packets
  BY PacketType
<1>8. \A i \in Guilds : Packet("wait", i, "map") \in Packets
  BY PacketType
<1>9. ASSUME NEW q, WarEnd(q) PROVE (\E m \in Packets : Forward(m)) \/ UNCHANGED warToGame
  BY <1>7, <1>9 DEF WarEnd
<1>10. ASSUME NEW g \in WarGames, DbEnd(g) PROVE ConsentInv'
  <2>1. Received(g, "end") /\ WarEnd(timers) /\ UNCHANGED <<enemy, up, excuse, asked>>
    BY <1>10 DEF DbEnd, copies, hist
  <2> QED  BY <1>9, <2>1, DbKeepsConsent
<1>11. CASE DbReservedWar
  <2>1. \E m \in Packets : Forward(m)
    BY <1>8, <1>11 DEF DbReservedWar
  <2>2. UNCHANGED <<enemy, up, excuse, asked, warToDb>>
    BY <1>11 DEF DbReservedWar, copies, hist
  <2> QED  BY <2>1, <2>2, DbKeepsConsent
<1>12. CASE DbStartReserved
  <2>1. \E m \in Packets : Forward(m)
    BY <1>7, <1>12 DEF DbStartReserved
  <2>2. UNCHANGED <<enemy, up, excuse, asked, warToDb>>
    BY <1>12 DEF DbStartReserved, copies, hist
  <2> QED  BY <2>1, <2>2, DbKeepsConsent
<1>13. ASSUME NEW t \in Types, DbTimer(t) PROVE ConsentInv'
  <2>1. (\E m \in Packets : Forward(m)) \/ UNCHANGED warToGame
    BY <1>9, <1>13 DEF DbTimer
  <2>2. UNCHANGED <<enemy, up, excuse, asked, warToDb>>
    BY <1>13 DEF DbTimer, copies, hist
  <2> QED  BY <2>1, <2>2, DbKeepsConsent
<1> QED  BY <1>2, <1>3, <1>4, <1>5, <1>6, <1>10, <1>11, <1>12, <1>13 DEF DbStep

-----------------------------------------------------------------------------
(* Answers: the steps of the games.                                        *)

(* What game g has of the two guilds, and the others what they had.        *)
OnlyAt(g) == \A h \in WarGames : h # g => enemy'[h] = enemy[h] /\ (h \in at' <=> h \in at)

LEMMA PairsApplied ==
    ASSUME Pairs, NEW g \in WarGames, OnlyAt(g),
           \A j \in Guilds : enemy'[g][j].state = "recv" =>
                                enemy'[g][Other(j)].state \in {"send", "wait"}
    PROVE  Pairs'
<1> SUFFICES ASSUME NEW h \in WarGames, NEW j \in Guilds, enemy'[h][j].state = "recv"
             PROVE  enemy'[h][Other(j)].state \in {"send", "wait"}
  BY DEF Pairs
<1>1. CASE h = g
  BY <1>1
<1>2. CASE h # g
  <2>1. enemy'[h] = enemy[h]
    BY <1>2 DEF OnlyAt
  <2> QED  BY <2>1 DEF Pairs
<1> QED  BY <1>1, <1>2

(* A game applies a packet after which nobody has more to answer there     *)
(* than before, and nobody has anything if it was an answer.               *)
LEMMA AppliedConsent ==
    ASSUME IInv, ConsentInv, NEW g \in WarGames, NEW ops, Applied(g, ops), OnlyAt(g),
           Pairs', UNCHANGED <<warToDb, up, asked, excuse>>,
           \A j \in Guilds : enemy'[g][j].state = "recv" =>
                /\ enemy[g][j].state = "recv"
                /\ Head(warToGame[g]).op \notin {"refuse", "on", "reserve"}
    PROVE  ConsentInv'
<1>1. WarTypeOK /\ OneAsked /\ (excuse # "confused" => OneAnswers)
  BY DEF IInv, ConsentInv
<1>2. OneAsked' /\ \A j \in Guilds : Sent(j)' <=> Sent(j)
  BY <1>1, DbQuiet
<1>3. ASSUME NEW j \in Guilds, Live(j)' PROVE Live(j)
  <2>1. enemy'[Home[j]][j].state = "recv" /\ ~Answered(j)'
    BY <1>3 DEF Live
  <2>2. enemy[Home[j]][j].state = "recv"
    <3>1. CASE Home[j] = g
      BY <2>1, <3>1
    <3>2. CASE Home[j] # g
      BY <2>1, <3>2, HomeType DEF OnlyAt
    <3> QED  BY <3>1, <3>2
  <2>3. ~Answered(j)
    <3> SUFFICES ASSUME Answered(j) PROVE FALSE
      OBVIOUS
    <3>1. g = Home[j] /\ Answer(Head(warToGame[g]), j)
      BY <1>1, <2>1, AnsweredApplied
    <3> QED  BY <2>1, <3>1 DEF Answer
  <2> QED  BY <2>2, <2>3 DEF Live
<1>4. excuse' # "confused" => OneAnswers'
  BY <1>1, <1>2, <1>3, NobodyNew
<1> QED  BY <1>2, <1>4 DEF ConsentInv

(* A state in which nobody has anything to answer at g.                    *)
NoneTo(g) == \A j \in Guilds : enemy'[g][j].state # "recv"

LEMMA NoneToPairs ==
    ASSUME Pairs, NEW g \in WarGames, OnlyAt(g), NoneTo(g)
    PROVE  Pairs'
  BY PairsApplied DEF NoneTo

LEMMA GameStateAt ==
    ASSUME WarTypeOK, NEW g \in WarGames, NEW f, enemy' = [enemy EXCEPT ![g] = f]
    PROVE  enemy'[g] = f /\ \A h \in WarGames : h # g => enemy'[h] = enemy[h]
  BY DEF WarTypeOK

LEMMA GameRefuseConsent ==
    ASSUME IInv, ConsentInv, NEW g \in WarGames, GameRefuse(g)
    PROVE  ConsentInv'
<1>1. WarTypeOK /\ Pairs
  BY DEF IInv, ConsentInv
<1> DEFINE f == [i \in Guilds |-> IF Declaring(enemy[g][i]) THEN NoEntry ELSE enemy[g][i]]
<1>2. /\ Applied(g, {"refuse"}) /\ enemy' = [enemy EXCEPT ![g] = f]
      /\ UNCHANGED <<at, warToDb, up, asked, excuse>>
  BY DEF GameRefuse, hist
<1>3. \A j \in Guilds : f[j].state # "recv"
  BY DEF Declaring, NoEntry, Entry
<1> HIDE DEF f
<1>4. enemy'[g] = f /\ \A h \in WarGames : h # g => enemy'[h] = enemy[h]
  BY <1>1, <1>2, GameStateAt
<1>5. OnlyAt(g) /\ NoneTo(g)
  BY <1>2, <1>3, <1>4 DEF OnlyAt, NoneTo
<1>6. Pairs'
  BY <1>1, <1>5, NoneToPairs
<1> QED  BY <1>2, <1>5, <1>6, AppliedConsent DEF NoneTo

LEMMA GameReserveConsent ==
    ASSUME IInv, ConsentInv, NEW g \in WarGames, GameReserve(g)
    PROVE  ConsentInv'
<1>1. WarTypeOK /\ Pairs
  BY DEF IInv, ConsentInv
<1> DEFINE f == [i \in Guilds |->
                    Entry("reserve", IF enemy[g][i].state = None
                                     THEN Head(warToGame[g]).type ELSE enemy[g][i].type)]
<1>2. /\ Applied(g, {"reserve"}) /\ enemy' = [enemy EXCEPT ![g] = f]
      /\ UNCHANGED <<at, warToDb, up, asked, excuse>>
  BY DEF GameReserve, hist
<1>3. \A j \in Guilds : f[j].state # "recv"
  BY DEF Entry
<1> HIDE DEF f
<1>4. enemy'[g] = f /\ \A h \in WarGames : h # g => enemy'[h] = enemy[h]
  BY <1>1, <1>2, GameStateAt
<1>5. OnlyAt(g) /\ NoneTo(g)
  BY <1>2, <1>3, <1>4 DEF OnlyAt, NoneTo
<1>6. Pairs'
  BY <1>1, <1>5, NoneToPairs
<1> QED  BY <1>2, <1>5, <1>6, AppliedConsent DEF NoneTo

(* One entry of a game waits.                                              *)
LEMMA WaitKeeps ==
    ASSUME WarTypeOK, NEW g \in WarGames, NEW i \in Guilds,
           UNCHANGED enemy \/ enemy' = [enemy EXCEPT ![g][i].state = "wait"]
    PROVE  /\ \A h \in WarGames : h # g => enemy'[h] = enemy[h]
           /\ \A j \in Guilds : enemy'[g][j].state = enemy[g][j].state \/ enemy'[g][j].state = "wait"
<1>1. enemy \in [WarGames -> [Guilds -> Entries]] /\ enemy[g] \in [Guilds -> Entries]
      /\ \A j \in Guilds : enemy[g][j] \in [state : {None, "send", "recv", "reserve", "wait", "on"}, type : Types]
  BY DEF WarTypeOK, Entries
<1>2. CASE UNCHANGED enemy
  BY <1>2
<1>3. CASE enemy' = [enemy EXCEPT ![g][i].state = "wait"]
  <2>1. enemy' = [enemy EXCEPT ![g] = [enemy[g] EXCEPT ![i] = [enemy[g][i] EXCEPT !.state = "wait"]]]
    BY <1>3
  <2>2. enemy'[g] = [enemy[g] EXCEPT ![i] = [enemy[g][i] EXCEPT !.state = "wait"]]
        /\ \A h \in WarGames : h # g => enemy'[h] = enemy[h]
    BY <1>1, <2>1
  <2>3. enemy'[g][i] = [enemy[g][i] EXCEPT !.state = "wait"]
        /\ \A j \in Guilds : j # i => enemy'[g][j] = enemy[g][j]
    BY <1>1, <2>2
  <2>4. enemy'[g][i].state = "wait"
    BY <1>1, <2>3
  <2> QED  BY <2>2, <2>3, <2>4
<1> QED  BY <1>2, <1>3

LEMMA GameWaitStartConsent ==
    ASSUME IInv, ConsentInv, NEW g \in WarGames, GameWaitStart(g)
    PROVE  ConsentInv'
<1>1. WarTypeOK /\ Pairs
  BY DEF IInv, ConsentInv
<1>2. /\ Applied(g, {"wait"})
      /\ UNCHANGED <<at, warToDb, up, asked, excuse>>
  BY DEF GameWaitStart, hist
<1>3. Head(warToGame[g]) \in Packets /\ Head(warToGame[g]).op = "wait"
  BY <1>1, <1>2, AppliedType
<1>4. PICK i \in Guilds : UNCHANGED enemy \/ enemy' = [enemy EXCEPT ![g][i].state = "wait"]
  <2>1. Head(warToGame[g]).from \in Guilds
    BY <1>3 DEF Packets
  <2> QED  BY <2>1, OtherIt DEF GameWaitStart
<1>5. /\ \A h \in WarGames : h # g => enemy'[h] = enemy[h]
      /\ \A j \in Guilds : enemy'[g][j].state = enemy[g][j].state \/ enemy'[g][j].state = "wait"
  BY <1>1, <1>4, WaitKeeps
<1>6. OnlyAt(g)
  BY <1>2, <1>5 DEF OnlyAt
<1>7. Pairs'
  <2>1. \A j \in Guilds : enemy'[g][j].state = "recv" => enemy'[g][Other(j)].state \in {"send", "wait"}
    BY <1>1, <1>5, OtherIt DEF Pairs
  <2> QED  BY <1>1, <1>6, <2>1, PairsApplied
<1>8. \A j \in Guilds : enemy'[g][j].state = "recv" =>
                /\ enemy[g][j].state = "recv"
                /\ Head(warToGame[g]).op \notin {"refuse", "on", "reserve"}
  BY <1>3, <1>5
<1> QED  BY <1>2, <1>6, <1>7, <1>8, AppliedConsent

LEMMA GameStartWarConsent ==
    ASSUME IInv, ConsentInv, NEW g \in WarGames, GameStartWar(g)
    PROVE  ConsentInv'
<1>1. WarTypeOK /\ Pairs
  BY DEF IInv, ConsentInv
<1> DEFINE f == [i \in Guilds |-> [enemy[g][i] EXCEPT !.state = "on"]]
<1>2. /\ Applied(g, {"on"}) /\ UNCHANGED <<warToDb, up, asked, excuse>>
  BY DEF GameStartWar, hist
<1>3. OnlyAt(g) /\ NoneTo(g)
  <2>1. CASE \A i \in Guilds : enemy[g][i].state \notin {None, "on"}
    <3>1. enemy' = [enemy EXCEPT ![g] = f] /\ at' = at \cup {g}
      BY <2>1 DEF GameStartWar
    <3>2. \A j \in Guilds : f[j].state = "on"
      <4>1. \A j \in Guilds : enemy[g][j] \in [state : {None, "send", "recv", "reserve", "wait", "on"}, type : Types]
        BY <1>1 DEF WarTypeOK, Entries
      <4> QED  BY <4>1
    <3> HIDE DEF f
    <3>3. enemy'[g] = f /\ \A h \in WarGames : h # g => enemy'[h] = enemy[h]
      BY <1>1, <3>1, GameStateAt
    <3> QED  BY <3>1, <3>2, <3>3 DEF OnlyAt, NoneTo
  <2>2. CASE \E i \in Guilds : enemy[g][i].state \in {None, "on"}
    <3>1. UNCHANGED <<enemy, at>>
      BY <2>2 DEF GameStartWar
    <3>2. \A j \in Guilds : enemy[g][j].state # "recv"
      BY <1>1, <2>2 DEF Pairs, Other
    <3> QED  BY <3>1, <3>2 DEF OnlyAt, NoneTo
  <2> QED  BY <2>1, <2>2
<1>4. Pairs'
  BY <1>1, <1>3, NoneToPairs
<1> QED  BY <1>2, <1>3, <1>4, AppliedConsent DEF NoneTo

LEMMA GameEndConsent ==
    ASSUME IInv, ConsentInv, NEW g \in WarGames, GameEnd(g)
    PROVE  ConsentInv'
<1>1. WarTypeOK /\ Pairs
  BY DEF IInv, ConsentInv
<1> DEFINE f == [i \in Guilds |-> NoEntry]
<1>2. /\ Applied(g, {"end", "over", "cancel"}) /\ UNCHANGED <<warToDb, up, asked, excuse>>
      /\ EndWar(g)
  BY DEF GameEnd, hist
<1>3. Head(warToGame[g]).op \in {"end", "over", "cancel"}
  BY <1>1, <1>2, AppliedType
<1>4. CASE g \in at
  <2>1. enemy' = [enemy EXCEPT ![g] = f] /\ at' = at \ {g}
    BY <1>2, <1>4 DEF EndWar
  <2>2. \A j \in Guilds : f[j].state # "recv"
    BY DEF NoEntry, Entry
  <2> HIDE DEF f
  <2>3. enemy'[g] = f /\ \A h \in WarGames : h # g => enemy'[h] = enemy[h]
    BY <1>1, <2>1, GameStateAt
  <2>4. OnlyAt(g) /\ NoneTo(g)
    BY <2>1, <2>2, <2>3 DEF OnlyAt, NoneTo
  <2>5. Pairs'
    BY <1>1, <2>4, NoneToPairs
  <2> QED  BY <1>2, <2>4, <2>5, AppliedConsent DEF NoneTo
<1>5. CASE g \notin at
  <2>1. UNCHANGED <<enemy, at>>
    BY <1>2, <1>5 DEF EndWar
  <2>2. OnlyAt(g) /\ Pairs'
    BY <1>1, <2>1, PairsQuiet DEF OnlyAt
  <2>3. \A j \in Guilds : enemy'[g][j].state = "recv" =>
                /\ enemy[g][j].state = "recv"
                /\ Head(warToGame[g]).op \notin {"refuse", "on", "reserve"}
    BY <1>3, <2>1
  <2> QED  BY <1>2, <2>2, <2>3, AppliedConsent
<1> QED  BY <1>4, <1>5

-----------------------------------------------------------------------------
(* Answers: what is asked of the db.                                       *)

LEMMA SendConsent ==
    ASSUME IInv, ConsentInv, NEW g \in WarGames, NEW m \in Packets, Send(g, m),
           UNCHANGED <<enemy, up, warToGame, asked>>, excuse' \in {excuse, "confused"},
           m.op \in Answers \cup {"declare"} => m.from \in Guilds,
           m.from \in Guilds => Home[m.from] = g,
           m.from \in Guilds /\ m.op \in Answers /\ excuse' # "confused" => Live(m.from)
    PROVE  ConsentInv'
<1>1. WarTypeOK /\ OneAsked /\ Pairs /\ (excuse # "confused" => OneAnswers)
  BY DEF IInv, ConsentInv
<1>2. OneAsked' /\ \A j \in Guilds : Sent(j)' => m.from = j /\ m.op \in Answers
  BY <1>1, SendOne
<1>3. \A j \in Guilds : Live(j)' => Live(j)
  BY DEF Live, Answered
<1>4. ASSUME excuse' # "confused" PROVE OneAnswers'
  <2>1. OneAnswers
    BY <1>1, <1>4
  <2>2. \A j \in Guilds : Sent(j)' => Live(j)
    BY <1>2, <1>4
  <2> QED  BY <1>3, <2>1, <2>2, NobodyNew
<1> QED  BY <1>1, <1>2, <1>4, PairsQuiet DEF ConsentInv

LEMMA MasterConsent ==
    ASSUME IInv, ConsentInv, NEW i \in Guilds, MasterStep(i)
    PROVE  ConsentInv'
<1>1. WarTypeOK /\ Home[i] \in WarGames
  BY HomeType DEF IInv
<1>2. ASSUME NEW t \in Types, Declare(i, t) PROVE ConsentInv'
  <2> DEFINE m == Packet("declare", i, t)
  <2>1. m \in Packets /\ m.from = i /\ m.op \notin Answers
    BY PacketType DEF Packet, Answers
  <2>2. Send(Home[i], m) /\ UNCHANGED <<enemy, up, warToGame, asked, excuse>>
    BY <1>2 DEF Declare, Ask, copies
  <2> HIDE DEF m
  <2> QED  BY <1>1, <2>1, <2>2, SendConsent
<1>3. ASSUME NoteTwice(i), enemy[Home[i]][i].state = "recv", excuse' # "confused"
      PROVE  Live(i)
  BY <1>3 DEF NoteTwice, Live
<1>4. CASE Accept(i)
  <2> DEFINE e == enemy[Home[i]]
             m == Packet(IF e[i].type = "field" THEN "on" ELSE "wait", i, e[i].type)
  <2>1. e[i].type \in Types
    <3>1. e[i] \in Entries
      BY <1>1 DEF WarTypeOK
    <3> QED  BY <3>1, EntryType
  <2>2. m \in Packets /\ m.from = i
    BY <2>1, PacketType DEF Packet
  <2>3. Send(Home[i], m) /\ UNCHANGED <<enemy, up, warToGame, asked>>
    BY <1>4 DEF Accept, Ask, copies
  <2>4. NoteTwice(i) /\ e[i].state = "recv"
    BY <1>4 DEF Accept
  <2>5. excuse' \in {excuse, "confused"}
    BY <2>4 DEF NoteTwice
  <2>6. excuse' # "confused" => Live(i)
    BY <1>3, <2>4
  <2> HIDE DEF m, e
  <2> QED  BY <1>1, <2>2, <2>3, <2>5, <2>6, SendConsent
<1>5. CASE Refuse(i)
  <2> DEFINE m == Packet("refuse", i, "field")
  <2>1. m \in Packets /\ m.from = i
    BY PacketType DEF Packet
  <2>2. Send(Home[i], m) /\ UNCHANGED <<enemy, up, warToGame, asked>>
    BY <1>5 DEF Refuse, Ask, copies
  <2>3. NoteTwice(i) /\ enemy[Home[i]][i].state = "recv"
    BY <1>5 DEF Refuse
  <2>4. excuse' \in {excuse, "confused"}
    BY <2>3 DEF NoteTwice
  <2>5. excuse' # "confused" => Live(i)
    BY <1>3, <2>3
  <2> HIDE DEF m
  <2> QED  BY <1>1, <2>1, <2>2, <2>4, <2>5, SendConsent
<1> QED  BY <1>2, <1>4, <1>5 DEF MasterStep

(* Nobody answers when a game master or a map ends a war.                  *)
LEMMA EndAsked ==
    ASSUME IInv, ConsentInv, NEW g \in WarGames, NEW op \in {"end", "over", "cancel"},
           Send(g, Packet(op, 0, "field")), UNCHANGED <<enemy, up, warToGame, asked, excuse>>
    PROVE  ConsentInv'
<1> DEFINE m == Packet(op, 0, "field")
<1>1. m \in Packets /\ m.from \notin Guilds /\ m.op \notin Answers \cup {"declare"}
  BY PacketType DEF Packet, Answers
<1>2. Send(g, m)
  OBVIOUS
<1> HIDE DEF m
<1> QED  BY <1>1, <1>2, SendConsent

LEMMA GameMasterConsent ==
    ASSUME IInv, ConsentInv, NEW g \in WarGames, GameMaster(g)
    PROVE  ConsentInv'
<1>1. PICK op \in {"end", "cancel"} : Send(g, Packet(op, 0, "field"))
  BY DEF GameMaster
<1>2. UNCHANGED <<enemy, up, warToGame, asked, excuse>>
  BY DEF GameMaster, hist, copies
<1> QED  BY <1>1, <1>2, EndAsked

LEMMA RequestWarOverConsent ==
    ASSUME IInv, ConsentInv, RequestWarOver
    PROVE  ConsentInv'
<1>1. PICK op \in {"end", "over"} : Send(MapGame, Packet(op, 0, "field"))
  BY DEF RequestWarOver
<1>2. UNCHANGED <<enemy, up, warToGame, asked, excuse>>
  BY DEF RequestWarOver, hist, copies
<1>3. MapGame \in WarGames
  BY GuildWarAssumption DEF GuildWarAssumption
<1> QED  BY <1>1, <1>2, <1>3, EndAsked

-----------------------------------------------------------------------------
(* Answers: lost connections, crashes and reconnections.                   *)

LEMMA LosesConsent ==
    ASSUME IInv, ConsentInv, NEW gs \in SUBSET WarGames, Loses(gs),
           \A h \in WarGames : enemy'[h] = enemy[h] \/ enemy'[h] = [i \in Guilds |-> NoEntry]
    PROVE  ConsentInv'
<1>1. WarTypeOK /\ OneAsked /\ Pairs /\ (excuse # "confused" => OneAnswers)
  BY DEF IInv, ConsentInv
<1>2. /\ \A g \in WarGames : /\ up'[g] = IF g \in gs THEN FALSE ELSE up[g]
                             /\ warToDb'[g] = IF g \in gs THEN <<>> ELSE warToDb[g]
                             /\ warToGame'[g] = IF g \in gs THEN <<>> ELSE warToGame[g]
      /\ excuse' # "confused" => /\ excuse # "confused"
                                 /\ \A i \in Guilds : Home[i] \in gs => ~Answered(i)
      /\ UNCHANGED asked
  BY DEF Loses
<1>3. \A h \in WarGames, j \in Guilds :
          enemy'[h][j].state = "recv" => enemy'[h] = enemy[h]
  BY DEF NoEntry, Entry
<1>4. OneAsked' /\ \A j \in Guilds : Sent(j)' => Sent(j)
  <2>1. \A g \in WarGames : warToDb'[g] # <<>> => warToDb'[g] = warToDb[g] /\ up'[g] = up[g]
    BY <1>2
  <2>2. OneAsked'
    <3> SUFFICES ASSUME NEW h \in WarGames, warToDb'[h] # <<>>
                 PROVE  /\ up'[h] /\ Len(warToDb'[h]) = 1
                        /\ \A h2 \in WarGames : warToDb'[h2] # <<>> => h2 = h
                        /\ Head(warToDb'[h]).op \in Answers \cup {"declare"}
                              => Head(warToDb'[h]).from \in Guilds
                        /\ Head(warToDb'[h]).from \in Guilds => Home[Head(warToDb'[h]).from] = h
      BY DEF OneAsked
    <3> QED  BY <1>1, <2>1 DEF OneAsked
  <2>3. \A j \in Guilds : Sent(j)' => Sent(j)
    BY <2>1 DEF Sent
  <2> QED  BY <2>2, <2>3
<1>5. Pairs'
  BY <1>1, <1>3 DEF Pairs
<1>6. ASSUME excuse' # "confused" PROVE OneAnswers'
  <2>1. ASSUME NEW j \in Guilds, Live(j)' PROVE Live(j)
    <3>1. Home[j] \in WarGames /\ enemy[Home[j]][j].state = "recv"
      BY <1>3, <2>1, HomeType DEF Live
    <3>2. ~Answered(j)
      <4>1. CASE Home[j] \in gs
        BY <1>2, <1>6, <4>1
      <4>2. CASE Home[j] \notin gs
        <5>1. warToGame'[Home[j]] = warToGame[Home[j]]
          BY <1>2, <3>1, <4>2
        <5>2. Answered(j)' <=> Answered(j)
          BY <5>1 DEF Answered
        <5> QED  BY <2>1, <5>2 DEF Live
      <4> QED  BY <4>1, <4>2
    <3> QED  BY <3>1, <3>2 DEF Live
  <2>2. OneAnswers
    BY <1>1, <1>2, <1>6
  <2> QED  BY <1>2, <1>4, <2>1, <2>2, NobodyNew
<1> QED  BY <1>4, <1>5, <1>6 DEF ConsentInv

LEMMA LossesConsent ==
    ASSUME IInv, ConsentInv,
           WarDbRestart \/ \E g \in WarGames : WarConnectionLost(g) \/ GameCrash(g)
    PROVE  ConsentInv'
<1>1. WarTypeOK
  BY DEF IInv
<1>2. ASSUME NEW gs \in SUBSET WarGames, StopAllGuildWar(gs)
      PROVE  \A h \in WarGames : enemy'[h] = enemy[h] \/ enemy'[h] = [i \in Guilds |-> NoEntry]
  BY <1>2 DEF StopAllGuildWar
<1>3. CASE WarDbRestart
  <2>1. Loses(WarGames) /\ WarGames \in SUBSET WarGames /\ StopAllGuildWar(WarGames)
    BY <1>3 DEF WarDbRestart
  <2> QED  BY <1>2, <2>1, LosesConsent
<1>4. ASSUME NEW g \in WarGames, WarConnectionLost(g) PROVE ConsentInv'
  <2>1. Loses({g}) /\ {g} \in SUBSET WarGames /\ StopAllGuildWar({g})
    BY <1>4 DEF WarConnectionLost
  <2> QED  BY <1>2, <2>1, LosesConsent
<1>5. ASSUME NEW g \in WarGames, GameCrash(g) PROVE ConsentInv'
  <2>1. Loses({g}) /\ {g} \in SUBSET WarGames
    BY <1>5 DEF GameCrash
  <2>2. enemy' = [enemy EXCEPT ![g] = [i \in Guilds |-> NoEntry]]
    BY <1>5 DEF GameCrash
  <2>3. \A h \in WarGames : enemy'[h] = enemy[h] \/ enemy'[h] = [i \in Guilds |-> NoEntry]
    BY <1>1, <2>2 DEF WarTypeOK
  <2> QED  BY <2>1, <2>3, LosesConsent
<1> QED  BY <1>3, <1>4, <1>5

LEMMA OnSetupConsent ==
    ASSUME IInv, ConsentInv, NEW g \in WarGames, OnSetup(g)
    PROVE  ConsentInv'
<1>1. WarTypeOK /\ Down /\ OneAsked /\ Pairs /\ (excuse # "confused" => OneAnswers)
  BY DEF IInv, ConsentInv
<1>2. PICK s : warToGame' = [warToGame EXCEPT ![g] = s]
  BY DEF OnSetup
<1>3. /\ ~up[g] /\ up' = [up EXCEPT ![g] = TRUE]
      /\ UNCHANGED <<enemy, warToDb, asked, excuse>>
  BY DEF OnSetup, copies, hist
<1>4. warToGame[g] = <<>>
  BY <1>1, <1>3 DEF Down
<1>5. ASSUME NEW j \in Guilds, Live(j)' PROVE Live(j)
  <2>1. ~Answered(j)
    <3>1. CASE Home[j] = g
      <4>1. DOMAIN warToGame[g] = {}
        BY <1>4
      <4> QED  BY <3>1, <4>1, AnsweredAt
    <3>2. CASE Home[j] # g
      <4>1. warToGame'[Home[j]] = warToGame[Home[j]]
        BY <1>1, <1>2, <3>2, HomeType DEF WarTypeOK
      <4>2. Answered(j)' <=> Answered(j)
        BY <4>1 DEF Answered
      <4> QED  BY <1>5, <4>2 DEF Live
    <3> QED  BY <3>1, <3>2
  <2> QED  BY <1>3, <1>5, <2>1 DEF Live
<1>6. OneAsked' /\ \A j \in Guilds : Sent(j)' <=> Sent(j)
  <2>1. \A h \in WarGames : up[h] => up'[h]
    BY <1>1, <1>3 DEF WarTypeOK
  <2> QED  BY <1>1, <1>3, <2>1, DbQuiet
<1>7. excuse' # "confused" => OneAnswers'
  BY <1>1, <1>3, <1>5, <1>6, NobodyNew
<1> QED  BY <1>1, <1>3, <1>6, <1>7, PairsQuiet DEF ConsentInv

-----------------------------------------------------------------------------
(* The way through what is under way.                                      *)

LEMMA AsksIt ==
    /\ Stages = {"none", Asks(1), Asks(2), "reserve", "on"}
    /\ \A i \in Guilds : Asks(i) \in {"first", "second"} /\ Asks(i) # Asks(Other(i))
  BY DEF Stages, Asks, Other

(* One more packet.                                                        *)
LEMMA PathAppend ==
    ASSUME NEW q \in Seq(Packets), NEW m \in Packets, NEW f \in Stages, NEW f2 \in Stages,
           NEW r, Path(r, q, f), Turns(f, m, f2),
           \A j \in Guilds : f = Asks(Other(j)) => f2 = f \/ Answer(m, j)
    PROVE  \E r2 \in [0..Len(Append(q, m)) -> Stages] :
                r2[0] = r[0] /\ Path(r2, Append(q, m), f2)
<1> DEFINE n == Len(q)
           p == Append(q, m)
           r2 == [k \in 0..(n + 1) |-> IF k = n + 1 THEN f2 ELSE r[k]]
<1>1. /\ n \in Nat /\ p \in Seq(Packets) /\ Len(p) = n + 1
      /\ \A k \in 1..n : p[k] = q[k]
      /\ p[n + 1] = m
  BY LenProperties, AppendProperties
<1>2. /\ r \in [0..n -> Stages] /\ r[n] = f
      /\ \A k \in 1..n : Turns(r[k - 1], q[k], r[k])
      /\ \A k \in 0..n, j \in Guilds : r[k] = Asks(Other(j)) =>
            r[k] = f \/ \E l \in 1..n : k < l /\ Answer(q[l], j)
  BY DEF Path
<1> HIDE DEF n, p
<1>3. r2 \in [0..(n + 1) -> Stages] /\ r2[n + 1] = f2
  BY <1>1, <1>2
<1>4. \A k \in 0..n : r2[k] = r[k]
  BY <1>1
<1> HIDE DEF r2
<1>5. ASSUME NEW k \in 1..(n + 1) PROVE Turns(r2[k - 1], p[k], r2[k])
  <2>1. CASE k = n + 1
    <3>1. r2[k - 1] = f /\ p[k] = m /\ r2[k] = f2
      BY <1>1, <1>2, <1>3, <1>4, <2>1
    <3> QED  BY <3>1
  <2>2. CASE k # n + 1
    <3>1. k \in 1..n /\ k - 1 \in 0..n /\ k \in 0..n
      BY <1>1, <2>2
    <3>2. r2[k - 1] = r[k - 1] /\ p[k] = q[k] /\ r2[k] = r[k]
      BY <1>1, <1>4, <3>1
    <3> QED  BY <1>2, <3>1, <3>2
  <2> QED  BY <2>1, <2>2
<1>6. ASSUME NEW k \in 0..(n + 1), NEW j \in Guilds, r2[k] = Asks(Other(j)), r2[k] # f2
      PROVE  \E l \in 1..(n + 1) : k < l /\ Answer(p[l], j)
  <2>1. k \in 0..n /\ r2[k] = r[k] /\ k < n + 1 /\ n + 1 \in 1..(n + 1)
    BY <1>1, <1>3, <1>4, <1>6
  <2>2. CASE r[k] = f
    <3>1. Answer(m, j)
      BY <1>6, <2>1, <2>2
    <3> QED  BY <1>1, <2>1, <3>1
  <2>3. CASE \E l \in 1..n : k < l /\ Answer(q[l], j)
    <3>1. PICK l \in 1..n : k < l /\ Answer(q[l], j)
      BY <2>3
    <3>2. l \in 1..(n + 1) /\ p[l] = q[l]
      BY <1>1, <3>1
    <3> QED  BY <3>1, <3>2
  <2> QED  BY <1>2, <1>6, <2>1, <2>2, <2>3
<1>7. Path(r2, p, f2)
  BY <1>1, <1>3, <1>5, <1>6 DEF Path
<1>8. r2[0] = r[0]
  BY <1>1, <1>4
<1> QED  BY <1>1, <1>3, <1>7, <1>8 DEF p

(* One packet less.                                                        *)
LEMMA PathTail ==
    ASSUME NEW q \in Seq(Packets), q # <<>>, NEW f \in Stages, NEW r, Path(r, q, f)
    PROVE  \E r2 \in [0..Len(Tail(q)) -> Stages] :
                /\ Path(r2, Tail(q), f)
                /\ r2[0] \in Stages /\ r[0] \in Stages /\ Turns(r[0], Head(q), r2[0])
<1> DEFINE n == Len(q)
           p == Tail(q)
           r2 == [k \in 0..(n - 1) |-> r[k + 1]]
<1>1. /\ n \in Nat /\ n >= 1 /\ p \in Seq(Packets) /\ Len(p) = n - 1
      /\ \A k \in 1..(n - 1) : p[k] = q[k + 1]
      /\ Head(q) = q[1]
  BY LenProperties, HeadTailProperties, EmptySeq
<1>2. /\ r \in [0..n -> Stages] /\ r[n] = f
      /\ \A k \in 1..n : Turns(r[k - 1], q[k], r[k])
      /\ \A k \in 0..n, j \in Guilds : r[k] = Asks(Other(j)) =>
            r[k] = f \/ \E l \in 1..n : k < l /\ Answer(q[l], j)
  BY DEF Path
<1> HIDE DEF n, p
<1>3. \A k \in 0..(n - 1) : k + 1 \in 0..n /\ r2[k] = r[k + 1] /\ r[k + 1] \in Stages
  BY <1>1, <1>2
<1>4. r2 \in [0..(n - 1) -> Stages]
  BY <1>3
<1> HIDE DEF r2
<1>5. r2[n - 1] = f
  BY <1>1, <1>2, <1>3
<1>6. ASSUME NEW k \in 1..(n - 1) PROVE Turns(r2[k - 1], p[k], r2[k])
  <2>1. /\ k \in 0..(n - 1) /\ k - 1 \in 0..(n - 1) /\ (k - 1) + 1 = k
        /\ k + 1 \in 1..n /\ (k + 1) - 1 = k
    BY <1>1
  <2>2. r2[k - 1] = r[k] /\ p[k] = q[k + 1] /\ r2[k] = r[k + 1]
    BY <1>1, <1>3, <2>1
  <2>3. Turns(r[k], q[k + 1], r[k + 1])
    BY <1>2, <2>1
  <2> QED  BY <2>2, <2>3
<1>7. ASSUME NEW k \in 0..(n - 1), NEW j \in Guilds, r2[k] = Asks(Other(j)), r2[k] # f
      PROVE  \E l \in 1..(n - 1) : k < l /\ Answer(p[l], j)
  <2>1. k + 1 \in 0..n /\ r[k + 1] = Asks(Other(j)) /\ r[k + 1] # f
    BY <1>3, <1>7
  <2>2. PICK l \in 1..n : k + 1 < l /\ Answer(q[l], j)
    BY <1>2, <2>1
  <2>3. l - 1 \in 1..(n - 1) /\ k < l - 1 /\ p[l - 1] = q[l]
    BY <1>1, <2>2
  <2> QED  BY <2>2, <2>3
<1>8. Path(r2, p, f)
  BY <1>1, <1>4, <1>5, <1>6, <1>7 DEF Path
<1>9. r2[0] = r[1] /\ r[1] \in Stages /\ r[0] \in Stages /\ Turns(r[0], q[1], r[1])
  <2>1. 0 \in 0..(n - 1) /\ 0 + 1 = 1 /\ 1 \in 1..n /\ 1 - 1 = 0 /\ 0 \in 0..n
    BY <1>1
  <2> QED  BY <1>2, <1>3, <2>1
<1> QED  BY <1>1, <1>4, <1>8, <1>9 DEF p

(* Who has a declaration to answer is asked at the end, or has answered.   *)
LEMMA LiveLeads ==
    ASSUME WarTypeOK, NEW j \in Guilds, NEW f, Leads(Home[j], f), Live(j)
    PROVE  f = Asks(Other(j))
<1> DEFINE g == Home[j]
           q == warToGame[g]
<1>1. q \in Seq(Packets) /\ Len(q) \in Nat /\ DOMAIN q = 1..Len(q)
  BY HomeType, LenProperties DEF WarTypeOK
<1>2. PICK r \in [0..Len(q) -> Stages] : At(g, r[0]) /\ Path(r, q, f)
  BY DEF Leads
<1>3. 0 \in 0..Len(q) /\ r[0] \in Stages
  BY <1>1
<1>4. enemy[g][j].state = "recv" /\ ~\E k \in DOMAIN q : Answer(q[k], j)
  BY AnsweredAt DEF Live
<1> HIDE DEF g
<1>5. r[0] = Asks(Other(j))
  <2>1. r[0] # "none" /\ r[0] # Asks(j) /\ r[0] # "reserve" /\ r[0] # "on"
    BY <1>2, <1>4 DEF At
  <2> QED  BY <1>3, <2>1, AsksIt DEF Other
<1>6. r[0] = f \/ \E l \in 1..Len(q) : 0 < l /\ Answer(q[l], j)
  BY <1>2, <1>3, <1>5 DEF Path
<1> QED  BY <1>1, <1>4, <1>5, <1>6

-----------------------------------------------------------------------------
(* All games.                                                              *)

(* All games will be at stage f.                                           *)
AllLead(f) == \A g \in WarGames : Leads(g, f)

LEMMA LeadsQuiet ==
    ASSUME NEW f, AllLead(f), UNCHANGED <<enemy, at, warToGame>>
    PROVE  AllLead(f)'
  BY DEF AllLead, Leads, At

LEMMA LeadsForward ==
    ASSUME WarTypeOK, \A g \in WarGames : up[g], NEW m \in Packets, Forward(m),
           UNCHANGED <<enemy, at>>, NEW f \in Stages, NEW f2 \in Stages, AllLead(f),
           Turns(f, m, f2), \A j \in Guilds : f = Asks(Other(j)) => f2 = f \/ Answer(m, j)
    PROVE  AllLead(f2)'
<1> SUFFICES ASSUME NEW g \in WarGames PROVE Leads(g, f2)'
  BY DEF AllLead
<1> DEFINE q == warToGame[g]
<1>1. q \in Seq(Packets)
  BY DEF WarTypeOK
<1>2. PICK r \in [0..Len(q) -> Stages] : At(g, r[0]) /\ Path(r, q, f)
  BY DEF AllLead, Leads
<1>3. warToGame'[g] = Append(q, m)
  BY ForwardType
<1> HIDE DEF q
<1>4. PICK r2 \in [0..Len(Append(q, m)) -> Stages] : r2[0] = r[0] /\ Path(r2, Append(q, m), f2)
  BY <1>1, <1>2, PathAppend
<1>5. At(g, r2[0])'
  BY <1>2, <1>4 DEF At
<1> QED  BY <1>3, <1>4, <1>5 DEF Leads

(* Game g applies a packet, which takes it from one stage to the next.     *)
Takes(g) == \A x, y \in Stages : At(g, x) /\ Turns(x, Head(warToGame[g]), y) => At(g, y)'

LEMMA LeadsApplied ==
    ASSUME WarTypeOK, NEW g \in WarGames, NEW ops, Applied(g, ops), OnlyAt(g), Takes(g),
           NEW f \in Stages, AllLead(f)
    PROVE  AllLead(f)'
<1> SUFFICES ASSUME NEW h \in WarGames PROVE Leads(h, f)'
  BY DEF AllLead
<1>1. /\ warToGame[g] \in Seq(Packets) /\ warToGame[g] # <<>>
      /\ \A h2 \in WarGames : warToGame'[h2] = IF h2 = g THEN Tail(warToGame[g]) ELSE warToGame[h2]
  BY AppliedType
<1>2. CASE h # g
  <2>1. PICK r \in [0..Len(warToGame[h]) -> Stages] : At(h, r[0]) /\ Path(r, warToGame[h], f)
    BY DEF AllLead, Leads
  <2>2. enemy'[h] = enemy[h] /\ (h \in at' <=> h \in at) /\ warToGame'[h] = warToGame[h]
    BY <1>1, <1>2 DEF OnlyAt
  <2>3. At(h, r[0])'
    BY <2>1, <2>2 DEF At
  <2> QED  BY <2>1, <2>2, <2>3 DEF Leads
<1>3. CASE h = g
  <2> DEFINE q == warToGame[g]
  <2>1. PICK r \in [0..Len(q) -> Stages] : At(g, r[0]) /\ Path(r, q, f)
    BY DEF AllLead, Leads
  <2>2. PICK r2 \in [0..Len(Tail(q)) -> Stages] :
                /\ Path(r2, Tail(q), f)
                /\ r2[0] \in Stages /\ r[0] \in Stages /\ Turns(r[0], Head(q), r2[0])
    BY <1>1, <2>1, PathTail
  <2>3. At(g, r2[0])'
    BY <2>1, <2>2 DEF Takes
  <2>4. warToGame'[g] = Tail(q)
    BY <1>1
  <2> QED  BY <1>3, <2>2, <2>3, <2>4 DEF Leads
<1> QED  BY <1>2, <1>3

-----------------------------------------------------------------------------
(* A declaration reaches a game.                                           *)

LEMMA TogetherIt ==
    ASSUME Together, excuse = "none"
    PROVE  /\ \A g \in WarGames : up[g]
           /\ \E f \in Stages : DbAt(f) /\ AllLead(f)
           /\ TimersRight
  BY DEF Together, AllLead

(* What is under way to the db is under way in a sequence.                 *)
LEMMA SentAnswering ==
    ASSUME WarTypeOK, OneAsked, NEW j \in Guilds, Sent(j)
    PROVE  Answering(j)
<1>1. PICK g \in WarGames : /\ warToDb[g] # <<>>
                            /\ Head(warToDb[g]).from = j /\ Head(warToDb[g]).op \in Answers
  BY DEF Sent
<1>2. Home[j] = g
  BY <1>1 DEF OneAsked
<1>3. Head(warToDb[g]) \in ToSet(warToDb[g])
  <2>1. /\ warToDb[g] \in Seq(Packets) /\ Len(warToDb[g]) \in Nat
        /\ DOMAIN warToDb[g] = 1..Len(warToDb[g])
    BY LenProperties DEF WarTypeOK
  <2>2. 1 \in DOMAIN warToDb[g] /\ Head(warToDb[g]) = warToDb[g][1]
    BY <1>1, <2>1, EmptySeq
  <2> QED  BY <2>2 DEF ToSet
<1> QED  BY <1>1, <1>2, <1>3 DEF Answering, Answers

LEMMA GameDeclareFrom ==
    ASSUME WarTypeOK, NEW g \in WarGames, GameDeclare(g)
    PROVE  /\ Applied(g, {"declare"}) /\ Head(warToGame[g]).op = "declare"
           /\ UNCHANGED <<at, up, warToDb, asked>>
           /\ \E i \in Guilds :
                 /\ Head(warToGame[g]).from = i
                 /\ \/ enemy[g][i].state # None /\ UNCHANGED <<enemy, excuse>>
                    \/ /\ enemy[g][i].state = None
                       /\ excuse' = IF excuse = "lost" /\ Stale(g, i) THEN "confused" ELSE excuse
                       /\ enemy'[g][i].state = "send"
                       /\ enemy'[g][Other(i)] = IF enemy[g][Other(i)].state = None
                                                THEN Entry("recv", Head(warToGame[g]).type)
                                                ELSE enemy[g][Other(i)]
                       /\ \A h \in WarGames : h # g => enemy'[h] = enemy[h]
<1> DEFINE m == Head(warToGame[g])
           i == m.from
           j == Other(i)
<1>1. /\ Applied(g, {"declare"}) /\ UNCHANGED <<at, up, warToDb, asked>>
  BY DEF GameDeclare
<1>2. m \in Packets /\ m.op = "declare"
  BY <1>1, AppliedType
<1>3. i \in Guilds /\ j \in Guilds /\ i # j
  <2>1. i \in Guilds
    BY <1>2 DEF Packets
  <2> QED  BY <2>1, OtherIt
<1>4. \/ enemy[g][i].state # None /\ UNCHANGED <<enemy, excuse>>
      \/ /\ enemy[g][i].state = None
         /\ enemy' = [enemy EXCEPT
                    ![g][i] = Entry("send", m.type),
                    ![g][j] = IF @.state = None THEN Entry("recv", m.type) ELSE @]
         /\ excuse' = IF excuse = "lost" /\ Stale(g, i) THEN "confused" ELSE excuse
  BY DEF GameDeclare
<1> DEFINE e == enemy[g]
           x == Entry("send", m.type)
           y == IF e[j].state = None THEN Entry("recv", m.type) ELSE e[j]
           f == [[e EXCEPT ![i] = x] EXCEPT ![j] = y]
<1>5. ASSUME enemy' = [enemy EXCEPT
                    ![g][i] = Entry("send", m.type),
                    ![g][j] = IF @.state = None THEN Entry("recv", m.type) ELSE @]
      PROVE  /\ enemy'[g][i].state = "send"
             /\ enemy'[g][j] = IF enemy[g][j].state = None
                               THEN Entry("recv", m.type) ELSE enemy[g][j]
             /\ \A h \in WarGames : h # g => enemy'[h] = enemy[h]
  <2>1. enemy \in [WarGames -> Copies] /\ e \in Copies
    BY DEF WarTypeOK, Copies
  <2>2. [e EXCEPT ![i] = x][j] = e[j]
    BY <1>3, <2>1 DEF Copies
  <2>3. enemy' = [enemy EXCEPT ![g] = f]
    BY <1>3, <1>5, <2>1, <2>2 DEF Copies
  <2>4. f[i] = x /\ f[j] = y
    BY <1>3, <2>1 DEF Copies
  <2> HIDE DEF f
  <2>5. enemy'[g] = f /\ \A h \in WarGames : h # g => enemy'[h] = enemy[h]
    BY <2>3, GameStateAt
  <2>6. x.state = "send"
    BY DEF Entry
  <2> QED  BY <2>4, <2>5, <2>6
<1> HIDE DEF m
<1>6. \/ enemy[g][i].state # None /\ UNCHANGED <<enemy, excuse>>
      \/ /\ enemy[g][i].state = None
         /\ excuse' = IF excuse = "lost" /\ Stale(g, i) THEN "confused" ELSE excuse
         /\ enemy'[g][i].state = "send"
         /\ enemy'[g][j] = IF enemy[g][j].state = None
                           THEN Entry("recv", m.type) ELSE enemy[g][j]
         /\ \A h \in WarGames : h # g => enemy'[h] = enemy[h]
  BY <1>4, <1>5
<1> QED  BY <1>1, <1>2, <1>3, <1>6 DEF m

(* Who has to answer it did not answer anything before, and the other      *)
(* wants the war.                                                          *)
LEMMA DeclaredTo ==
    ASSUME IInv, OneAsked, Together, NEW g \in WarGames, NEW i \in Guilds,
           Applied(g, {"declare"}), Head(warToGame[g]).op = "declare",
           Head(warToGame[g]).from = i, Home[Other(i)] = g,
           enemy[g][i].state = None, enemy[g][Other(i)].state = None,
           ~Answered(Other(i))', excuse \in {"none", "lost"},
           ~(excuse = "lost" /\ Stale(g, i))
    PROVE  i \in asked /\ ~Live(i) /\ ~Sent(i)
<1>1. WarTypeOK
  BY DEF IInv
<1>2. CASE excuse = "lost"
  <2>1. i \in asked /\ ~Answering(i)
    BY <1>2 DEF Stale
  <2>2. ~Sent(i)
    BY <1>1, <2>1, SentAnswering
  <2>3. ~Live(i)
    BY <2>1 DEF Live, Answering
  <2> QED  BY <2>1, <2>2, <2>3
<1>3. CASE excuse = "none"
  <2> DEFINE q == warToGame[g]
  <2>1. PICK f \in Stages : DbAt(f) /\ AllLead(f)
    BY <1>3, TogetherIt
  <2>2. PICK r \in [0..Len(q) -> Stages] : At(g, r[0]) /\ Path(r, q, f)
    BY <2>1 DEF AllLead, Leads
  <2>3. /\ q \in Seq(Packets) /\ Len(q) \in Nat /\ Len(q) >= 1 /\ DOMAIN q = 1..Len(q)
        /\ Head(q) = q[1] /\ warToGame'[g] = Tail(q)
    BY <1>1, AppliedType, LenProperties, EmptySeq
  <2>4. r[0] = "none"
    <3>1. 0 \in 0..Len(q) /\ r[0] \in Stages
      BY <2>3
    <3>2. \A k \in Guilds : r[0] # Asks(k)
      BY <2>2 DEF At, Other
    <3>3. r[0] # "reserve" /\ r[0] # "on"
      BY <2>2 DEF At
    <3> QED  BY <3>1, <3>2, <3>3, AsksIt
  <2>5. r[1] = Asks(i)
    <3>1. 1 \in 1..Len(q) /\ 1 - 1 = 0
      BY <2>3
    <3>2. Turns(r[0], Head(q), r[1])
      BY <2>2, <2>3, <3>1 DEF Path
    <3> QED  BY <2>4, <3>2 DEF Turns
  <2>6. f = Asks(i)
    <3>1. Asks(i) = Asks(Other(Other(i))) /\ Other(i) \in Guilds /\ 1 \in 0..Len(q)
      BY <2>3, OtherIt
    <3>2. CASE r[1] # f
      <4>1. PICK l \in 1..Len(q) : 1 < l /\ Answer(q[l], Other(i))
        BY <2>2, <2>5, <3>1, <3>2 DEF Path
      <4>2. l - 1 \in 1..(Len(q) - 1) /\ Tail(q) \in Seq(Packets) /\ Len(Tail(q)) = Len(q) - 1
            /\ Tail(q)[l - 1] = q[(l - 1) + 1] /\ (l - 1) + 1 = l
        BY <2>3, <4>1, HeadTailProperties
      <4>3. l - 1 \in DOMAIN Tail(q) /\ Answer(Tail(q)[l - 1], Other(i))
        BY <4>1, <4>2, LenProperties
      <4>4. Answered(Other(i))'
        BY <2>3, <3>1, <4>3, AnsweredAt
      <4> QED  BY <4>4
    <3> QED  BY <2>5, <3>2
  <2>7. i \in asked
    BY <2>1, <2>6 DEF DbAt
  <2>8. ~Sent(i)
    BY <2>1, <2>6, AsksIt DEF DbAt
  <2>9. ~Live(i)
    <3>1. Leads(Home[i], f)
      BY <2>1, HomeType DEF AllLead
    <3>2. Live(i) => f = Asks(Other(i))
      BY <1>1, <3>1, LiveLeads
    <3> QED  BY <2>6, <3>2, AsksIt
  <2> QED  BY <2>7, <2>8, <2>9
<1> QED  BY <1>2, <1>3

LEMMA GameDeclareConsent ==
    ASSUME IInv, ConsentInv, Together, NEW g \in WarGames, GameDeclare(g)
    PROVE  ConsentInv'
<1>1. WarTypeOK /\ OneAsked /\ Pairs /\ (excuse # "confused" => OneAnswers)
  BY DEF IInv, ConsentInv
<1>2. /\ Applied(g, {"declare"}) /\ Head(warToGame[g]).op = "declare"
      /\ UNCHANGED <<at, up, warToDb, asked>>
  BY <1>1, GameDeclareFrom
<1>3. PICK i \in Guilds :
          /\ Head(warToGame[g]).from = i
          /\ \/ enemy[g][i].state # None /\ UNCHANGED <<enemy, excuse>>
             \/ /\ enemy[g][i].state = None
                /\ excuse' = IF excuse = "lost" /\ Stale(g, i) THEN "confused" ELSE excuse
                /\ enemy'[g][i].state = "send"
                /\ enemy'[g][Other(i)] = IF enemy[g][Other(i)].state = None
                                         THEN Entry("recv", Head(warToGame[g]).type)
                                         ELSE enemy[g][Other(i)]
                /\ \A h \in WarGames : h # g => enemy'[h] = enemy[h]
  BY <1>1, GameDeclareFrom
<1>4. CASE UNCHANGED <<enemy, excuse>>
  <2>1. OnlyAt(g) /\ Pairs'
    BY <1>1, <1>2, <1>4, PairsQuiet DEF OnlyAt
  <2>2. \A k \in Guilds : enemy'[g][k].state = "recv" =>
                /\ enemy[g][k].state = "recv"
                /\ Head(warToGame[g]).op \notin {"refuse", "on", "reserve"}
    BY <1>2, <1>4
  <2> QED  BY <1>2, <1>4, <2>1, <2>2, AppliedConsent
<1>5. CASE /\ enemy[g][i].state = None
           /\ excuse' = IF excuse = "lost" /\ Stale(g, i) THEN "confused" ELSE excuse
           /\ enemy'[g][i].state = "send"
           /\ enemy'[g][Other(i)] = IF enemy[g][Other(i)].state = None
                                    THEN Entry("recv", Head(warToGame[g]).type)
                                    ELSE enemy[g][Other(i)]
           /\ \A h \in WarGames : h # g => enemy'[h] = enemy[h]
  <2>1. OnlyAt(g)
    BY <1>2, <1>5 DEF OnlyAt
  <2>2. \A k \in Guilds : k = i \/ k = Other(i)
    BY DEF Other
  <2>3. Pairs'
    <3>1. \A k \in Guilds : enemy'[g][k].state = "recv" =>
                                enemy'[g][Other(k)].state \in {"send", "wait"}
      BY <1>5, <2>2, OtherIt
    <3> QED  BY <1>1, <2>1, <3>1, PairsApplied
  <2>4. OneAsked' /\ \A k \in Guilds : Sent(k)' <=> Sent(k)
    BY <1>1, <1>2, DbQuiet
  <2>5. ASSUME NEW k \in Guilds, Live(k)'
        PROVE  Live(k) \/ (k = Other(i) /\ Home[k] = g /\ enemy[g][k].state = None)
    <3>1. ~Answered(k)
      <4> SUFFICES ASSUME Answered(k) PROVE FALSE
        OBVIOUS
      <4>1. Answer(Head(warToGame[g]), k)
        BY <1>1, <1>2, <2>5, AnsweredApplied DEF Live
      <4> QED  BY <1>2, <4>1 DEF Answer
    <3>2. CASE Home[k] # g
      BY <1>5, <2>5, <3>1, <3>2, HomeType DEF Live
    <3>3. CASE Home[k] = g
      <4>1. enemy'[g][k].state = "recv"
        BY <2>5, <3>3 DEF Live
      <4>2. k = Other(i)
        BY <1>5, <2>2, <4>1
      <4>3. CASE enemy[g][k].state = None
        BY <3>3, <4>2, <4>3
      <4>4. CASE enemy[g][k].state # None
        <5>1. enemy[g][k].state = "recv"
          BY <1>5, <4>1, <4>2, <4>4
        <5> QED  BY <3>1, <3>3, <5>1 DEF Live
      <4> QED  BY <4>3, <4>4
    <3> QED  BY <3>2, <3>3
  <2>6. ASSUME excuse' # "confused" PROVE OneAnswers'
    <3>1. ~(excuse = "lost" /\ Stale(g, i)) /\ excuse # "confused"
      BY <1>5, <2>6
    <3>2. OneAnswers
      BY <1>1, <3>1
    <3>3. CASE \A k \in Guilds : Live(k)' => Live(k)
      BY <1>2, <2>4, <3>2, <3>3, NobodyNew
    <3>4. CASE \E k \in Guilds : Live(k)' /\ ~Live(k)
      <4>1. PICK j \in Guilds : Live(j)' /\ ~Live(j)
        BY <3>4
      <4>2. j = Other(i) /\ Home[j] = g /\ enemy[g][j].state = None
        BY <2>5, <4>1
      <4>3. excuse \in {"none", "lost"}
        BY <1>1, <3>1 DEF WarTypeOK
      <4>4. ~Answered(Other(i))'
        BY <4>1, <4>2 DEF Live
      <4>5. i \in asked /\ ~Live(i) /\ ~Sent(i)
        BY <1>1, <1>2, <1>3, <1>5, <3>1, <4>2, <4>3, <4>4, DeclaredTo
      <4>6. ~Live(i)'
        BY <2>5, <4>5, OtherIt
      <4> QED  BY <1>2, <2>2, <2>4, <4>2, <4>5, <4>6, OtherIt DEF OneAnswers
    <3> QED  BY <3>3, <3>4
  <2> QED  BY <2>3, <2>4, <2>6 DEF ConsentInv
<1> QED  BY <1>3, <1>4, <1>5

-----------------------------------------------------------------------------
(* What a packet makes of a game's stage.                                  *)

LEMMA AtAsked ==
    ASSUME NEW g \in WarGames, NEW x, x \in {"first", "second"}, At(g, x)
    PROVE  /\ g \notin at
           /\ \A i \in Guilds : enemy[g][i].state \in {"send", "recv"}
  BY DEF At, Asks, Other

LEMMA GameDeclareTakes ==
    ASSUME WarTypeOK, NEW g \in WarGames, GameDeclare(g)
    PROVE  OnlyAt(g) /\ Takes(g)
<1>1. Head(warToGame[g]).op = "declare" /\ UNCHANGED at
  BY GameDeclareFrom
<1>2. PICK i \in Guilds :
          /\ Head(warToGame[g]).from = i
          /\ \/ enemy[g][i].state # None /\ UNCHANGED <<enemy, excuse>>
             \/ /\ enemy[g][i].state = None
                /\ excuse' = IF excuse = "lost" /\ Stale(g, i) THEN "confused" ELSE excuse
                /\ enemy'[g][i].state = "send"
                /\ enemy'[g][Other(i)] = IF enemy[g][Other(i)].state = None
                                         THEN Entry("recv", Head(warToGame[g]).type)
                                         ELSE enemy[g][Other(i)]
                /\ \A h \in WarGames : h # g => enemy'[h] = enemy[h]
  BY GameDeclareFrom
<1>3. OnlyAt(g)
  BY <1>1, <1>2 DEF OnlyAt
<1>4. ASSUME NEW x \in Stages, NEW y \in Stages, At(g, x), Turns(x, Head(warToGame[g]), y)
      PROVE  At(g, y)'
  <2>1. y = IF x = "none" THEN Asks(i) ELSE x
    BY <1>1, <1>2, <1>4 DEF Turns
  <2>2. CASE x = "none"
    <3>1. \A k \in Guilds : enemy[g][k].state = None
      BY <1>4, <2>2 DEF At
    <3>2. enemy'[g][i].state = "send" /\ enemy'[g][Other(i)].state = "recv"
      BY <1>2, <3>1, OtherIt DEF Entry
    <3>3. g \notin at
      BY <1>4, <2>2 DEF At
    <3> QED  BY <1>1, <2>1, <2>2, <3>2, <3>3 DEF At, Asks, Other
  <2>3. CASE x # "none"
    <3>1. \A k \in Guilds : enemy[g][k].state # None
      BY <1>4, <2>3, AsksIt DEF At, Other
    <3>2. UNCHANGED enemy
      BY <1>2, <3>1
    <3> QED  BY <1>1, <1>4, <2>1, <2>3, <3>2 DEF At
  <2> QED  BY <2>2, <2>3
<1> QED  BY <1>3, <1>4 DEF Takes

LEMMA GameRefuseTakes ==
    ASSUME WarTypeOK, NEW g \in WarGames, GameRefuse(g)
    PROVE  OnlyAt(g) /\ Takes(g)
<1> DEFINE f == [i \in Guilds |-> IF Declaring(enemy[g][i]) THEN NoEntry ELSE enemy[g][i]]
<1>1. /\ Applied(g, {"refuse"}) /\ enemy' = [enemy EXCEPT ![g] = f] /\ UNCHANGED at
  BY DEF GameRefuse
<1>2. Head(warToGame[g]).op = "refuse"
  BY <1>1, AppliedType
<1>3. \A i \in Guilds : enemy[g][i].state \in {"send", "recv"} => f[i].state = None
  BY DEF Declaring, NoEntry, Entry
<1> HIDE DEF f
<1>4. enemy'[g] = f /\ \A h \in WarGames : h # g => enemy'[h] = enemy[h]
  BY <1>1, GameStateAt
<1>5. OnlyAt(g)
  BY <1>1, <1>4 DEF OnlyAt
<1>6. ASSUME NEW x \in Stages, NEW y \in Stages, At(g, x), Turns(x, Head(warToGame[g]), y)
      PROVE  At(g, y)'
  <2>1. x \in {"first", "second"} /\ y = "none"
    BY <1>2, <1>6 DEF Turns
  <2>2. g \notin at' /\ \A i \in Guilds : enemy'[g][i].state = None
    BY <1>1, <1>3, <1>4, <1>6, <2>1, AtAsked
  <2> QED  BY <2>1, <2>2 DEF At, Asks
<1> QED  BY <1>5, <1>6 DEF Takes

LEMMA GameReserveTakes ==
    ASSUME WarTypeOK, NEW g \in WarGames, GameReserve(g)
    PROVE  OnlyAt(g) /\ Takes(g)
<1> DEFINE f == [i \in Guilds |->
                    Entry("reserve", IF enemy[g][i].state = None
                                     THEN Head(warToGame[g]).type ELSE enemy[g][i].type)]
<1>1. /\ Applied(g, {"reserve"}) /\ enemy' = [enemy EXCEPT ![g] = f] /\ UNCHANGED at
  BY DEF GameReserve
<1>2. Head(warToGame[g]).op = "reserve"
  BY <1>1, AppliedType
<1>3. \A i \in Guilds : f[i].state = "reserve"
  BY DEF Entry
<1> HIDE DEF f
<1>4. enemy'[g] = f /\ \A h \in WarGames : h # g => enemy'[h] = enemy[h]
  BY <1>1, GameStateAt
<1>5. OnlyAt(g)
  BY <1>1, <1>4 DEF OnlyAt
<1>6. ASSUME NEW x \in Stages, NEW y \in Stages, At(g, x), Turns(x, Head(warToGame[g]), y)
      PROVE  At(g, y)'
  <2>1. x \in {"first", "second"} /\ y = "reserve"
    BY <1>2, <1>6 DEF Turns
  <2>2. g \notin at' /\ \A i \in Guilds : enemy'[g][i].state = "reserve"
    BY <1>1, <1>3, <1>4, <1>6, <2>1, AtAsked
  <2> QED  BY <2>1, <2>2 DEF At, Asks
<1> QED  BY <1>5, <1>6 DEF Takes

LEMMA GameWaitStartTakes ==
    ASSUME WarTypeOK, NEW g \in WarGames, GameWaitStart(g)
    PROVE  OnlyAt(g) /\ Takes(g)
<1>1. Applied(g, {"wait"}) /\ UNCHANGED at
  BY DEF GameWaitStart
<1>2. Head(warToGame[g]) \in Packets /\ Head(warToGame[g]).op = "wait"
  BY <1>1, AppliedType
<1>3. PICK i \in Guilds : UNCHANGED enemy \/ enemy' = [enemy EXCEPT ![g][i].state = "wait"]
  <2>1. Head(warToGame[g]).from \in Guilds
    BY <1>2 DEF Packets
  <2> QED  BY <2>1, OtherIt DEF GameWaitStart
<1>4. /\ \A h \in WarGames : h # g => enemy'[h] = enemy[h]
      /\ \A j \in Guilds : enemy'[g][j].state = enemy[g][j].state \/ enemy'[g][j].state = "wait"
  BY <1>3, WaitKeeps
<1>5. OnlyAt(g)
  BY <1>1, <1>4 DEF OnlyAt
<1>6. ASSUME NEW x \in Stages, NEW y \in Stages, At(g, x), Turns(x, Head(warToGame[g]), y)
      PROVE  At(g, y)'
  <2>1. x = "reserve" /\ y = "reserve"
    BY <1>2, <1>6 DEF Turns
  <2>2. g \notin at' /\ \A j \in Guilds : enemy'[g][j].state \in {"reserve", "wait"}
    BY <1>1, <1>4, <1>6, <2>1 DEF At
  <2> QED  BY <2>1, <2>2 DEF At, Asks
<1> QED  BY <1>5, <1>6 DEF Takes

LEMMA GameStartWarTakes ==
    ASSUME WarTypeOK, NEW g \in WarGames, GameStartWar(g)
    PROVE  OnlyAt(g) /\ Takes(g)
<1> DEFINE f == [i \in Guilds |-> [enemy[g][i] EXCEPT !.state = "on"]]
<1>1. Applied(g, {"on"})
  BY DEF GameStartWar
<1>2. Head(warToGame[g]).op = "on"
  BY <1>1, AppliedType
<1>3. \A j \in Guilds : f[j].state = "on"
  <2>1. \A j \in Guilds : enemy[g][j] \in [state : {None, "send", "recv", "reserve", "wait", "on"}, type : Types]
    BY DEF WarTypeOK, Entries
  <2> QED  BY <2>1
<1>4. /\ (\A i \in Guilds : enemy[g][i].state \notin {None, "on"}) =>
              enemy' = [enemy EXCEPT ![g] = f] /\ at' = at \cup {g}
      /\ (\E i \in Guilds : enemy[g][i].state \in {None, "on"}) => UNCHANGED <<enemy, at>>
  BY DEF GameStartWar
<1> HIDE DEF f
<1>5. enemy' = [enemy EXCEPT ![g] = f] =>
          enemy'[g] = f /\ \A h \in WarGames : h # g => enemy'[h] = enemy[h]
  BY GameStateAt
<1>6. OnlyAt(g)
  BY <1>4, <1>5 DEF OnlyAt
<1>7. ASSUME NEW x \in Stages, NEW y \in Stages, At(g, x), Turns(x, Head(warToGame[g]), y)
      PROVE  At(g, y)'
  <2>1. x \in {"first", "second", "reserve"} /\ y = "on"
    BY <1>2, <1>7 DEF Turns
  <2>2. \A i \in Guilds : enemy[g][i].state \notin {None, "on"}
    BY <1>7, <2>1, AtAsked DEF At
  <2>3. g \in at' /\ \A i \in Guilds : enemy'[g][i].state = "on"
    BY <1>3, <1>4, <1>5, <2>2
  <2> QED  BY <2>1, <2>3 DEF At, Asks
<1> QED  BY <1>6, <1>7 DEF Takes

LEMMA GameEndTakes ==
    ASSUME WarTypeOK, NEW g \in WarGames, GameEnd(g)
    PROVE  OnlyAt(g) /\ Takes(g)
<1> DEFINE f == [i \in Guilds |-> NoEntry]
<1>1. Applied(g, {"end", "over", "cancel"}) /\ EndWar(g)
  BY DEF GameEnd
<1>2. Head(warToGame[g]).op \in {"end", "over", "cancel"}
  BY <1>1, AppliedType
<1>3. /\ g \in at => enemy' = [enemy EXCEPT ![g] = f] /\ at' = at \ {g}
      /\ g \notin at => UNCHANGED <<enemy, at>>
  BY <1>1 DEF EndWar
<1>4. \A i \in Guilds : f[i].state = None
  BY DEF NoEntry, Entry
<1> HIDE DEF f
<1>5. enemy' = [enemy EXCEPT ![g] = f] =>
          enemy'[g] = f /\ \A h \in WarGames : h # g => enemy'[h] = enemy[h]
  BY GameStateAt
<1>6. OnlyAt(g)
  BY <1>3, <1>5 DEF OnlyAt
<1>7. ASSUME NEW x \in Stages, NEW y \in Stages, At(g, x), Turns(x, Head(warToGame[g]), y)
      PROVE  At(g, y)'
  <2>1. y = IF x = "on" THEN "none" ELSE x
    BY <1>2, <1>7 DEF Turns
  <2>2. CASE x = "on"
    <3>1. g \in at
      BY <1>7, <2>2 DEF At
    <3>2. g \notin at' /\ \A i \in Guilds : enemy'[g][i].state = None
      BY <1>3, <1>4, <1>5, <3>1
    <3> QED  BY <2>1, <2>2, <3>2 DEF At, Asks
  <2>3. CASE x # "on"
    <3>1. UNCHANGED <<enemy, at>>
      BY <1>3, <1>7, <2>3 DEF At
    <3> QED  BY <1>7, <2>1, <2>3, <3>1 DEF At
  <2> QED  BY <2>2, <2>3
<1> QED  BY <1>6, <1>7 DEF Takes

-----------------------------------------------------------------------------
(* A step of a game leaves what the db has.                                *)

LEMMA DbAtQuiet ==
    ASSUME NEW f, DbAt(f), UNCHANGED <<war, reserved, waiting, asked, warToDb>>
    PROVE  DbAt(f)'
  BY DEF DbAt, Sent

LEMMA TogetherFrom ==
    ASSUME \A g \in WarGames : up'[g], NEW f \in Stages, DbAt(f)', AllLead(f)', TimersRight'
    PROVE  Together'
  BY DEF Together, AllLead

LEMMA AppliedTogether ==
    ASSUME WarTypeOK, Together, NEW g \in WarGames, NEW ops, Applied(g, ops),
           OnlyAt(g), Takes(g), UNCHANGED <<db, up, warToDb, asked>>,
           excuse' = "none" => excuse = "none"
    PROVE  Together'
<1>1. CASE excuse' # "none"
  BY <1>1 DEF Together
<1>2. CASE excuse' = "none"
  <2>1. PICK f \in Stages : DbAt(f) /\ AllLead(f)
    BY <1>2, TogetherIt
  <2>2. AllLead(f)'
    BY <2>1, LeadsApplied
  <2>3. DbAt(f)'
    BY <2>1, DbAtQuiet DEF db
  <2>4. TimersRight' /\ \A h \in WarGames : up'[h]
    BY <1>2, TogetherIt DEF TimersRight, db
  <2> QED  BY <2>2, <2>3, <2>4, TogetherFrom
<1> QED  BY <1>1, <1>2

LEMMA GameStepsTogether ==
    ASSUME WarTypeOK, Together, NEW g \in WarGames,
           \/ GameDeclare(g) \/ GameRefuse(g) \/ GameReserve(g)
           \/ GameWaitStart(g) \/ GameStartWar(g) \/ GameEnd(g)
    PROVE  Together'
<1>1. CASE GameDeclare(g)
  <2>1. Applied(g, {"declare"}) /\ UNCHANGED <<db, up, warToDb, asked>>
    BY <1>1 DEF GameDeclare
  <2>2. excuse' = "none" => excuse = "none"
    BY <1>1, GameDeclareFrom
  <2> QED  BY <1>1, <2>1, <2>2, GameDeclareTakes, AppliedTogether
<1>2. CASE GameRefuse(g)
  <2>1. Applied(g, {"refuse"}) /\ UNCHANGED <<db, up, warToDb, asked>> /\ UNCHANGED excuse
    BY <1>2 DEF GameRefuse, hist
  <2> QED  BY <1>2, <2>1, GameRefuseTakes, AppliedTogether
<1>3. CASE GameReserve(g)
  <2>1. Applied(g, {"reserve"}) /\ UNCHANGED <<db, up, warToDb, asked>> /\ UNCHANGED excuse
    BY <1>3 DEF GameReserve, hist
  <2> QED  BY <1>3, <2>1, GameReserveTakes, AppliedTogether
<1>4. CASE GameWaitStart(g)
  <2>1. Applied(g, {"wait"}) /\ UNCHANGED <<db, up, warToDb, asked>> /\ UNCHANGED excuse
    BY <1>4 DEF GameWaitStart, hist
  <2> QED  BY <1>4, <2>1, GameWaitStartTakes, AppliedTogether
<1>5. CASE GameStartWar(g)
  <2>1. Applied(g, {"on"}) /\ UNCHANGED <<db, up, warToDb, asked>> /\ UNCHANGED excuse
    BY <1>5 DEF GameStartWar, hist
  <2> QED  BY <1>5, <2>1, GameStartWarTakes, AppliedTogether
<1>6. CASE GameEnd(g)
  <2>1. Applied(g, {"end", "over", "cancel"}) /\ UNCHANGED <<db, up, warToDb, asked>>
        /\ UNCHANGED excuse
    BY <1>6 DEF GameEnd, hist
  <2> QED  BY <1>6, <2>1, GameEndTakes, AppliedTogether
<1> QED  BY <1>1, <1>2, <1>3, <1>4, <1>5, <1>6

-----------------------------------------------------------------------------
(* Timers.                                                                 *)

(* The timers q are right while the war w is on.                           *)
Right(q, w) ==
    /\ \A k \in DOMAIN q : ~q[k].bEnd => w # 0 /\ q[k].war = w
    /\ \A k, l \in DOMAIN q : q[k].war = q[l].war => k = l

LEMMA RightIt == (TimersRight <=> Right(timers, war)) /\ (TimersRight' <=> Right(timers', war'))
  BY DEF TimersRight, Right

LEMMA StartWarRight ==
    ASSUME WarTypeOK, TimersRight, war = 0, NEW t \in Types, StartWar(t)
    PROVE  TimersRight'
<1> DEFINE c == CHOOSE n \in 1..(Len(timers) + 1) :
                    \A k \in DOMAIN timers : timers[k].war # n
<1>1. timers \in Seq(Timers)
  BY TimersType
<1>2. c \in 1..(Len(timers) + 1) /\ \A k \in DOMAIN timers : timers[k].war # c
  BY <1>1, NumberLeft
<1>3. war' = c /\ timers' = Append(timers, [war |-> c, type |-> t, bEnd |-> FALSE])
  BY DEF StartWar
<1> HIDE DEF c
<1> DEFINE n == Len(timers)
           x == [war |-> c, type |-> t, bEnd |-> FALSE]
<1>4. n \in Nat /\ c # 0 /\ x.war = c
  BY <1>1, <1>2, LenProperties
<1>5. x \in Timers
  BY <1>2, <1>4 DEF Timers
<1> HIDE DEF x
<1>6. /\ DOMAIN timers = 1..n /\ DOMAIN timers' = 1..(n + 1)
      /\ \A k \in 1..n : timers'[k] = timers[k]
      /\ timers'[n + 1] = x
  BY <1>1, <1>3, <1>5, AppendProperties, LenProperties DEF x
<1>7. \A k \in 1..n : timers[k].bEnd
  BY <1>6 DEF TimersRight
<1>8. \A k \in DOMAIN timers' : ~timers'[k].bEnd => war' # 0 /\ timers'[k].war = war'
  <2>1. \A k \in 1..(n + 1) : k \in 1..n \/ k = n + 1
    BY <1>4
  <2> QED  BY <1>3, <1>4, <1>6, <1>7, <2>1
<1>9. \A k, l \in DOMAIN timers' : timers'[k].war = timers'[l].war => k = l
  <2>1. \A k \in 1..(n + 1) : k \in 1..n \/ k = n + 1
    BY <1>4
  <2>2. \A k \in 1..n : timers'[k].war # c
    BY <1>2, <1>6
  <2>3. \A k, l \in 1..n : timers'[k].war = timers'[l].war => k = l
    BY <1>6 DEF TimersRight
  <2> QED  BY <1>4, <1>6, <2>1, <2>2, <2>3
<1> QED  BY <1>8, <1>9 DEF TimersRight

LEMMA RemoveWarRight ==
    ASSUME NEW q \in Seq(Timers), Right(q, war), RemoveWar(q)
    PROVE  /\ TimersRight'
           /\ \A w : (\A k \in DOMAIN q : q[k].war # w)
                        => \A k \in DOMAIN timers' : timers'[k].war # w
<1>1. Len(q) \in Nat /\ DOMAIN q = 1..Len(q) /\ \A k \in 1..Len(q) : q[k] \in Timers
  BY LenProperties, ElementOfSeq
<1>2. timers' = [k \in 1..Len(q) |-> [q[k] EXCEPT !.bEnd = @ \/ q[k].war = war]]
  BY <1>1 DEF RemoveWar
<1>3. DOMAIN timers' = 1..Len(q)
  BY <1>2
<1>4. ASSUME NEW k \in 1..Len(q)
      PROVE  timers'[k].war = q[k].war /\ timers'[k].bEnd = (q[k].bEnd \/ q[k].war = war)
  <2>1. timers'[k] = [q[k] EXCEPT !.bEnd = @ \/ q[k].war = war]
    BY <1>2
  <2>2. q[k] \in [war : Nat, type : Types, bEnd : BOOLEAN]
    BY <1>1 DEF Timers
  <2> HIDE DEF Timers
  <2> QED  BY <2>1, <2>2
<1>5. \A k \in 1..Len(q) : timers'[k].bEnd
  BY <1>1, <1>4 DEF Right
<1>6. \A k, l \in 1..Len(q) : timers'[k].war = timers'[l].war => k = l
  BY <1>1, <1>4 DEF Right
<1> QED  BY <1>1, <1>3, <1>4, <1>5, <1>6 DEF TimersRight

LEMMA RemoveAtRight ==
    ASSUME NEW q \in Seq(Timers), NEW k \in DOMAIN q, NEW w, Right(q, w)
    PROVE  /\ Right(RemoveAt(q, k), w)
           /\ \A l \in DOMAIN RemoveAt(q, k) : RemoveAt(q, k)[l].war # q[k].war
<1> DEFINE n == Len(q)
           a == SubSeq(q, 1, k - 1)
           b == SubSeq(q, k + 1, n)
           p == RemoveAt(q, k)
           To(l) == IF l < k THEN l ELSE l + 1
<1>1. n \in Nat /\ DOMAIN q = 1..n /\ k \in 1..n
  BY LenProperties
<1>2. /\ a \in Seq(Timers) /\ Len(a) = k - 1 /\ \A l \in 1..(k - 1) : a[l] = q[l]
      /\ b \in Seq(Timers) /\ Len(b) = n - k /\ \A l \in 1..(n - k) : b[l] = q[k + l]
  <2>1. a \in Seq(Timers) /\ Len(a) = k - 1 /\ \A l \in 1..(k - 1) : a[l] = q[l]
    BY <1>1, SubSeqProperties
  <2>2. b \in Seq(Timers) /\ Len(b) = n - k /\ \A l \in 1..(n - k) : b[l] = q[k + l]
    BY <1>1, SubSeqProperties
  <2> QED  BY <2>1, <2>2
<1>3. p = a \o b
  BY DEF RemoveAt
<1> HIDE DEF n, a, b, p
<1>4. /\ DOMAIN p = 1..(n - 1)
      /\ \A l \in 1..(n - 1) : To(l) \in 1..n /\ To(l) # k /\ p[l] = q[To(l)]
  <2>1. p \in Seq(Timers) /\ Len(p) = n - 1
        /\ \A l \in 1..(n - 1) : p[l] = IF l <= k - 1 THEN a[l] ELSE b[l - (k - 1)]
    <3>1. /\ a \o b \in Seq(Timers) /\ Len(a \o b) = Len(a) + Len(b)
          /\ \A l \in 1..(Len(a) + Len(b)) :
                (a \o b)[l] = IF l <= Len(a) THEN a[l] ELSE b[l - Len(a)]
      BY <1>2, ConcatProperties
    <3>2. Len(a) = k - 1 /\ Len(a) + Len(b) = n - 1
      BY <1>1, <1>2
    <3> QED  BY <1>3, <3>1, <3>2
  <2>2. DOMAIN p = 1..(n - 1)
    BY <2>1, LenProperties
  <2>3. ASSUME NEW l \in 1..(n - 1) PROVE To(l) \in 1..n /\ To(l) # k /\ p[l] = q[To(l)]
    <3>1. CASE l < k
      BY <1>1, <1>2, <2>1, <2>3, <3>1
    <3>2. CASE ~(l < k)
      <4>1. l - (k - 1) \in 1..(n - k) /\ k + (l - (k - 1)) = l + 1
        BY <1>1, <2>3, <3>2
      <4>2. p[l] = b[l - (k - 1)]
        <5>1. ~(l <= k - 1)
          BY <1>1, <2>3, <3>2
        <5> QED  BY <2>1, <5>1
      <4>3. b[l - (k - 1)] = q[k + (l - (k - 1))]
        BY <1>2, <4>1
      <4>4. p[l] = q[l + 1] /\ To(l) = l + 1 /\ l + 1 \in 1..n /\ l + 1 # k
        BY <1>1, <2>3, <3>2, <4>1, <4>2, <4>3
      <4> QED  BY <4>4
    <3> QED  BY <3>1, <3>2
  <2> QED  BY <2>2, <2>3
<1>5. \A l, o \in 1..(n - 1) : To(l) = To(o) => l = o
  BY <1>1
<1> HIDE DEF To
<1>6. Right(p, w)
  BY <1>1, <1>4, <1>5 DEF Right
<1>7. \A l \in DOMAIN p : p[l].war # q[k].war
  BY <1>1, <1>4 DEF Right
<1> QED  BY <1>6, <1>7 DEF p

-----------------------------------------------------------------------------
(* Stages: the steps of the db.                                            *)

(* The db forwards a packet that takes all games to another stage.         *)
LEMMA ForwardTogether ==
    ASSUME WarTypeOK, Together, excuse = "none", NEW m \in Packets, Forward(m),
           UNCHANGED <<enemy, at, up>>, NEW f \in Stages, NEW f2 \in Stages, AllLead(f),
           Turns(f, m, f2), \A j \in Guilds : f = Asks(Other(j)) => f2 = f \/ Answer(m, j),
           DbAt(f2)', TimersRight'
    PROVE  Together'
<1>1. \A g \in WarGames : up[g]
  BY TogetherIt
<1>2. AllLead(f2)'
  BY <1>1, LeadsForward
<1>3. \A g \in WarGames : up'[g]
  BY <1>1
<1> QED  BY <1>2, <1>3, TogetherFrom

(* The db forwards nothing.                                                *)
LEMMA QuietTogether ==
    ASSUME Together, excuse = "none", UNCHANGED <<enemy, at, up, warToGame>>,
           NEW f \in Stages, AllLead(f), DbAt(f)', TimersRight'
    PROVE  Together'
<1>1. AllLead(f)'
  BY LeadsQuiet
<1>2. \A g \in WarGames : up'[g]
  BY TogetherIt
<1> QED  BY <1>1, <1>2, TogetherFrom

(* Nothing is under way to the db any more.                                *)
LEMMA DbAtRead ==
    ASSUME WarTypeOK, OneAsked, NEW g \in WarGames, NEW op, Received(g, op), NEW f,
           \A i \in Guilds : f = Asks(i) => i \in asked',
           war' # 0 => f = "on",
           reserved' + waiting' # 0 => reserved' + waiting' = 1 /\ f = "reserve"
    PROVE  DbAt(f)'
<1>1. \A i \in Guilds : ~Sent(i)'
  BY ReceivedLast, NothingAsked
<1> QED  BY <1>1 DEF DbAt

LEMMA DbDeclareTogether ==
    ASSUME WarTypeOK, OneAsked, Together, excuse = "none", NEW g \in WarGames, DbDeclare(g)
    PROVE  Together'
<1> DEFINE m == Head(warToDb[g])
<1>1. Received(g, "declare") /\ m \in Packets /\ m.op = "declare" /\ m.from \in Guilds
  BY ReceivedType DEF DbDeclare, Packets
<1>2. /\ Forward(m) /\ asked' = asked \cup {m.from}
      /\ UNCHANGED <<enemy, at, up, war, timers, reserved, waiting>>
  BY DEF DbDeclare, copies
<1>3. PICK f \in Stages : DbAt(f) /\ AllLead(f)
  BY TogetherIt
<1> HIDE DEF m
<1>4. PICK f2 \in Stages : f2 = IF f = "none" THEN Asks(m.from) ELSE f
  BY <1>1, AsksIt
<1>5. Turns(f, m, f2)
  BY <1>1, <1>4 DEF Turns
<1>6. \A j \in Guilds : f = Asks(Other(j)) => f2 = f
  BY <1>4, OtherIt, AsksIt
<1>7. \A i \in Guilds : f2 = Asks(i) => i \in asked'
  <2>1. \A i \in Guilds : f = Asks(i) => i \in asked
    BY <1>3 DEF DbAt
  <2>2. \A i \in Guilds : Asks(m.from) = Asks(i) => i = m.from
    BY <1>1 DEF Asks
  <2> QED  BY <1>2, <1>4, <2>1, <2>2
<1>8. /\ war' # 0 => f2 = "on"
      /\ reserved' + waiting' # 0 => reserved' + waiting' = 1 /\ f2 = "reserve"
  BY <1>2, <1>3, <1>4 DEF DbAt
<1>9. DbAt(f2)'
  BY <1>1, <1>7, <1>8, DbAtRead
<1>10. TimersRight'
  BY <1>2, TogetherIt DEF TimersRight
<1> QED  BY <1>1, <1>2, <1>3, <1>5, <1>6, <1>9, <1>10, ForwardTogether

(* A master's answer is on its way to the db.                              *)
LEMMA AnswerStage ==
    ASSUME WarTypeOK, OneAsked, NEW g \in WarGames, NEW op \in Answers, Received(g, op),
           NEW f \in Stages, DbAt(f)
    PROVE  /\ Head(warToDb[g]).from \in Guilds /\ f = Asks(Other(Head(warToDb[g]).from))
           /\ f \in {"first", "second"} /\ war = 0 /\ reserved = 0 /\ waiting = 0
           /\ \A m : m.from = Head(warToDb[g]).from /\ m.op \in {"refuse", "on", "reserve"} =>
                 \A j \in Guilds : f = Asks(Other(j)) => Answer(m, j)
<1> DEFINE j == Head(warToDb[g]).from
<1>1. warToDb[g] # <<>> /\ Head(warToDb[g]).op \in Answers
  BY ReceivedType DEF Received
<1>2. j \in Guilds
  BY <1>1 DEF OneAsked
<1>3. Sent(j)
  BY <1>1 DEF Sent
<1> HIDE DEF j
<1>4. f = Asks(Other(j)) /\ f \in {"first", "second"}
  BY <1>2, <1>3, AsksIt, OtherIt DEF DbAt
<1>5. war = 0
  BY <1>4 DEF DbAt
<1>6. reserved = 0 /\ waiting = 0
  <2>1. reserved + waiting = 0
    BY <1>4 DEF DbAt
  <2> QED  BY <2>1 DEF WarTypeOK
<1>7. \A k \in Guilds : f = Asks(Other(k)) => k = j
  BY <1>2, <1>4 DEF Asks, Other
<1> QED  BY <1>2, <1>4, <1>5, <1>6, <1>7 DEF j, Answer

LEMMA DbRefuseTogether ==
    ASSUME WarTypeOK, OneAsked, Together, excuse = "none", NEW g \in WarGames, DbRefuse(g)
    PROVE  Together'
<1> DEFINE m == Head(warToDb[g])
<1>1. Received(g, "refuse") /\ m \in Packets /\ m.op = "refuse"
  BY ReceivedType DEF DbRefuse
<1>2. /\ Forward(m) /\ UNCHANGED <<enemy, at, up, war, timers, reserved, waiting>>
  BY DEF DbRefuse, copies
<1>3. PICK f \in Stages : DbAt(f) /\ AllLead(f)
  BY TogetherIt
<1>4. /\ f \in {"first", "second"} /\ war = 0 /\ reserved = 0 /\ waiting = 0
      /\ \A j \in Guilds : f = Asks(Other(j)) => Answer(m, j)
  BY <1>1, <1>3, AnswerStage DEF Answers
<1>5. Turns(f, m, "none") /\ "none" \in Stages
  BY <1>1, <1>4 DEF Turns, Stages
<1>6. DbAt("none")'
  <2>1. \A i \in Guilds : "none" = Asks(i) => i \in asked'
    BY DEF Asks
  <2> QED  BY <1>1, <1>2, <1>4, <2>1, DbAtRead
<1>7. TimersRight'
  BY <1>2, TogetherIt DEF TimersRight
<1> HIDE DEF m
<1> QED  BY <1>1, <1>2, <1>3, <1>4, <1>5, <1>6, <1>7, ForwardTogether

LEMMA DbReserveTogether ==
    ASSUME WarTypeOK, OneAsked, Together, excuse = "none", NEW g \in WarGames, DbReserve(g)
    PROVE  Together'
<1> DEFINE m == Head(warToDb[g])
           r == [m EXCEPT !.op = "reserve"]
           c == [m EXCEPT !.op = "cancel"]
<1>1. Received(g, "wait") /\ m \in Packets
  BY ReceivedType DEF DbReserve
<1>2. /\ UNCHANGED <<enemy, at, up, war, timers, waiting>>
      /\ \/ Forward(r) /\ reserved' = reserved + 1
         \/ Forward(c) /\ UNCHANGED <<reserved, asked>>
  BY DEF DbReserve, copies
<1>3. /\ r \in Packets /\ r.op = "reserve" /\ r.from = m.from
      /\ c \in Packets /\ c.op = "cancel"
  BY <1>1 DEF Packets
<1>4. PICK f \in Stages : DbAt(f) /\ AllLead(f)
  BY TogetherIt
<1>5. /\ f \in {"first", "second"} /\ war = 0 /\ reserved = 0 /\ waiting = 0
      /\ \A p : p.from = m.from /\ p.op \in {"refuse", "on", "reserve"} =>
            \A j \in Guilds : f = Asks(Other(j)) => Answer(p, j)
  BY <1>1, <1>4, AnswerStage DEF Answers
<1>6. TimersRight'
  BY <1>2, TogetherIt DEF TimersRight
<1> HIDE DEF m, r, c
<1>7. CASE Forward(r) /\ reserved' = reserved + 1
  <2>1. Turns(f, r, "reserve") /\ "reserve" \in Stages
    BY <1>3, <1>5 DEF Turns, Stages
  <2>2. \A j \in Guilds : f = Asks(Other(j)) => Answer(r, j)
    BY <1>3, <1>5
  <2>3. DbAt("reserve")'
    <3>1. \A i \in Guilds : "reserve" = Asks(i) => i \in asked'
      BY DEF Asks
    <3>2. war' = 0 /\ reserved' + waiting' = 1
      BY <1>2, <1>5, <1>7
    <3> QED  BY <1>1, <3>1, <3>2, DbAtRead
  <2> QED  BY <1>2, <1>3, <1>4, <1>6, <1>7, <2>1, <2>2, <2>3, ForwardTogether
<1>8. CASE Forward(c) /\ UNCHANGED <<reserved, asked>>
  <2>1. Turns(f, c, f)
    BY <1>3, <1>5 DEF Turns
  <2>2. DbAt(f)'
    <3>1. \A i \in Guilds : f = Asks(i) => i \in asked'
      BY <1>4, <1>8 DEF DbAt
    <3>2. war' = 0 /\ reserved' + waiting' = 0
      BY <1>2, <1>5, <1>8
    <3> QED  BY <1>1, <3>1, <3>2, DbAtRead
  <2> QED  BY <1>2, <1>3, <1>4, <1>6, <1>8, <2>1, <2>2, ForwardTogether
<1> QED  BY <1>2, <1>7, <1>8

LEMMA DbOnWarTogether ==
    ASSUME WarTypeOK, OneAsked, Together, excuse = "none", NEW g \in WarGames, DbOnWar(g)
    PROVE  Together'
<1> DEFINE m == Head(warToDb[g])
<1>1. Received(g, "on") /\ m \in Packets /\ m.op = "on"
  BY ReceivedType DEF DbOnWar
<1>2. /\ Forward(m) /\ StartWar("field") /\ UNCHANGED <<enemy, at, up, reserved, waiting>>
  BY DEF DbOnWar, copies
<1>3. PICK f \in Stages : DbAt(f) /\ AllLead(f)
  BY TogetherIt
<1>4. /\ f \in {"first", "second"} /\ war = 0 /\ reserved = 0 /\ waiting = 0
      /\ \A j \in Guilds : f = Asks(Other(j)) => Answer(m, j)
  BY <1>1, <1>3, AnswerStage DEF Answers
<1>5. Turns(f, m, "on") /\ "on" \in Stages
  BY <1>1, <1>4 DEF Turns, Stages
<1>6. DbAt("on")'
  <2>1. \A i \in Guilds : "on" = Asks(i) => i \in asked'
    BY DEF Asks
  <2>2. reserved' + waiting' = 0
    BY <1>2, <1>4
  <2> QED  BY <1>1, <2>1, <2>2, DbAtRead
<1>7. TimersRight'
  BY <1>2, <1>4, TogetherIt, StartWarRight
<1> HIDE DEF m
<1> QED  BY <1>1, <1>2, <1>3, <1>4, <1>5, <1>6, <1>7, ForwardTogether

(* A war ends, if one is on, and all games are told.                       *)
LEMMA EndingTogether ==
    ASSUME WarTypeOK, Together, excuse = "none", NEW q \in Seq(Timers), Right(q, war),
           RemoveWar(q), NEW m \in Packets, m.op \in Endings, Forward(m),
           UNCHANGED <<enemy, at, up, reserved, waiting, asked>>,
           \A i \in Guilds : Sent(i)' => Sent(i)
    PROVE  Together'
<1>1. PICK f \in Stages : DbAt(f) /\ AllLead(f)
  BY TogetherIt
<1> DEFINE f2 == IF f = "on" THEN "none" ELSE f
<1>2. f2 \in Stages /\ Turns(f, m, f2)
  BY DEF Stages, Turns, Endings
<1>3. \A j \in Guilds : f = Asks(Other(j)) => f2 = f
  BY DEF Asks
<1>4. war' = 0 /\ TimersRight'
  BY RemoveWarType, RemoveWarRight
<1>5. DbAt(f2)'
  BY <1>1, <1>4 DEF DbAt, Asks
<1> HIDE DEF f2
<1> QED  BY <1>1, <1>2, <1>3, <1>4, <1>5, ForwardTogether

LEMMA DbOverTogether ==
    ASSUME WarTypeOK, OneAsked, Together, excuse = "none", NEW g \in WarGames,
           DbOver(g) \/ DbCancel(g)
    PROVE  Together'
<1>1. PICK op \in {"over", "cancel"} : Received(g, op)
  BY DEF DbOver, DbCancel
<1>2. /\ Head(warToDb[g]) \in Packets /\ Head(warToDb[g]).op \in Endings
      /\ \A i \in Guilds : ~Sent(i)'
  BY <1>1, ReceivedType, ReceivedLast, NothingAsked DEF Endings
<1>3. /\ RemoveWar(timers) /\ Forward(Head(warToDb[g]))
      /\ UNCHANGED <<enemy, at, up, reserved, waiting, asked>>
  BY DEF DbOver, DbCancel, copies, hist
<1>4. timers \in Seq(Timers) /\ Right(timers, war)
  BY TimersType, TogetherIt, RightIt
<1> QED  BY <1>2, <1>3, <1>4, EndingTogether

LEMMA WarEndTogether ==
    ASSUME WarTypeOK, Together, excuse = "none", NEW q \in Seq(Timers), Right(q, war),
           WarEnd(q), UNCHANGED <<enemy, at, up, reserved, waiting, asked>>,
           \A i \in Guilds : Sent(i)' => Sent(i)
    PROVE  Together'
<1>1. CASE RemoveWar(q) /\ Forward(Packet("end", 0, "field"))
  <2> DEFINE m == Packet("end", 0, "field")
  <2>1. m \in Packets /\ m.op \in Endings /\ Forward(m)
    BY <1>1, PacketType DEF Packet, Endings
  <2> HIDE DEF m
  <2> QED  BY <1>1, <2>1, EndingTogether
<1>2. CASE timers' = q /\ UNCHANGED <<war, warToGame>>
  <2>1. PICK f \in Stages : DbAt(f) /\ AllLead(f)
    BY TogetherIt
  <2>2. DbAt(f)'
    BY <1>2, <2>1 DEF DbAt
  <2>3. TimersRight'
    BY <1>2, RightIt
  <2> QED  BY <1>2, <2>1, <2>2, <2>3, QuietTogether
<1> QED  BY <1>1, <1>2 DEF WarEnd

LEMMA DbEndTogether ==
    ASSUME WarTypeOK, OneAsked, Together, excuse = "none", NEW g \in WarGames, DbEnd(g)
    PROVE  Together'
<1>1. /\ Received(g, "end") /\ WarEnd(timers)
      /\ UNCHANGED <<enemy, at, up, reserved, waiting, asked>>
  BY DEF DbEnd, copies, hist
<1>2. \A i \in Guilds : ~Sent(i)'
  BY <1>1, ReceivedLast, NothingAsked
<1>3. timers \in Seq(Timers) /\ Right(timers, war)
  BY TimersType, TogetherIt, RightIt
<1> QED  BY <1>1, <1>2, <1>3, WarEndTogether

LEMMA DbReservedWarTogether ==
    ASSUME WarTypeOK, Together, excuse = "none", DbReservedWar
    PROVE  Together'
<1>1. /\ reserved > 0 /\ reserved' = reserved - 1 /\ waiting' = waiting + 1
      /\ UNCHANGED <<enemy, at, up, war, timers, asked, warToDb>>
  BY DEF DbReservedWar, copies, hist
<1>2. PICK i \in Guilds : Forward(Packet("wait", i, "map"))
  BY DEF DbReservedWar
<1>3. PICK f \in Stages : DbAt(f) /\ AllLead(f)
  BY TogetherIt
<1>4. reserved \in Nat /\ waiting \in Nat
  BY DEF WarTypeOK
<1>5. f = "reserve" /\ reserved' + waiting' = reserved + waiting
  <2>1. reserved + waiting # 0
    BY <1>1, <1>4
  <2>2. f = "reserve"
    BY <1>3, <2>1 DEF DbAt
  <2> QED  BY <1>1, <1>4, <2>2
<1> DEFINE m == Packet("wait", i, "map")
<1>6. m \in Packets /\ Forward(m) /\ Turns(f, m, f)
  BY <1>2, <1>5, PacketType DEF Packet, Turns
<1>7. DbAt(f)'
  BY <1>1, <1>3, <1>5 DEF DbAt, Sent
<1>8. TimersRight'
  BY <1>1, TogetherIt DEF TimersRight
<1> HIDE DEF m
<1> QED  BY <1>1, <1>3, <1>6, <1>7, <1>8, ForwardTogether

LEMMA DbStartReservedTogether ==
    ASSUME WarTypeOK, Together, excuse = "none", DbStartReserved
    PROVE  Together'
<1> DEFINE m == Packet("on", 0, "map")
<1>1. /\ waiting > 0 /\ waiting' = waiting - 1 /\ StartWar("map") /\ Forward(m)
      /\ UNCHANGED <<enemy, at, up, reserved, asked, warToDb>>
  BY DEF DbStartReserved, copies, hist
<1>2. PICK f \in Stages : DbAt(f) /\ AllLead(f)
  BY TogetherIt
<1>3. f = "reserve" /\ reserved' + waiting' = 0
  <2>1. reserved \in Nat /\ waiting \in Nat /\ reserved + waiting # 0
    BY <1>1 DEF WarTypeOK
  <2>2. f = "reserve" /\ reserved + waiting = 1
    BY <1>2, <2>1 DEF DbAt
  <2> QED  BY <1>1, <2>1, <2>2
<1>4. war = 0
  BY <1>2, <1>3 DEF DbAt
<1>5. m \in Packets /\ Turns(f, m, "on") /\ "on" \in Stages
  BY <1>3, PacketType DEF Packet, Turns, Stages
<1>6. DbAt("on")'
  <2>1. \A i \in Guilds : ~Sent(i)'
    BY <1>1, <1>2, <1>3, AsksIt, OtherIt DEF DbAt, Sent
  <2> QED  BY <1>3, <2>1 DEF DbAt, Asks
<1>7. TimersRight'
  BY <1>1, <1>4, TogetherIt, StartWarRight
<1>8. \A j \in Guilds : f # Asks(Other(j))
  BY <1>3, AsksIt, OtherIt
<1> HIDE DEF m
<1> QED  BY <1>1, <1>2, <1>5, <1>6, <1>7, <1>8, ForwardTogether

LEMMA DbTimerTogether ==
    ASSUME WarTypeOK, Together, excuse = "none", NEW t \in Types, DbTimer(t)
    PROVE  Together'
<1>1. PICK k \in FirstOf(t) :
          IF timers[k].bEnd
          THEN timers' = RemoveAt(timers, k) /\ UNCHANGED <<war, warToGame>>
          ELSE WarEnd(RemoveAt(timers, k))
  BY DEF DbTimer
<1>2. UNCHANGED <<enemy, at, up, reserved, waiting, asked, warToDb>>
  BY DEF DbTimer, copies, hist
<1> DEFINE q == RemoveAt(timers, k)
<1>3. k \in DOMAIN timers
  BY DEF FirstOf
<1>4. q \in Seq(Timers) /\ Right(q, war)
  BY <1>3, TimersType, RemoveAtType, RemoveAtRight, TogetherIt, RightIt
<1>5. \A i \in Guilds : Sent(i)' => Sent(i)
  BY <1>2 DEF Sent
<1> HIDE DEF q
<1>6. CASE WarEnd(q)
  BY <1>2, <1>4, <1>5, <1>6, WarEndTogether
<1>7. CASE timers' = q /\ UNCHANGED <<war, warToGame>>
  <2>1. PICK f \in Stages : DbAt(f) /\ AllLead(f)
    BY TogetherIt
  <2>2. DbAt(f)'
    BY <1>2, <1>7, <2>1, DbAtQuiet
  <2>3. TimersRight'
    BY <1>4, <1>7, RightIt
  <2> QED  BY <1>2, <1>7, <2>1, <2>2, <2>3, QuietTogether
<1> QED  BY <1>1, <1>6, <1>7 DEF q

-----------------------------------------------------------------------------
(* Stages: what is asked of the db, and what is lost.                      *)

LEMMA ExcuseStays ==
    ASSUME WarTypeOK, WarNext
    PROVE  excuse' = "none" => excuse = "none"
<1>1. ASSUME NEW g \in WarGames, WarGameStep(g) PROVE excuse' = "none" => excuse = "none"
  <2>1. CASE GameDeclare(g)
    BY <2>1, GameDeclareFrom
  <2>2. CASE WarConnectionLost(g) \/ GameCrash(g)
    BY <2>2 DEF WarConnectionLost, GameCrash, Loses
  <2> QED  BY <1>1, <2>1, <2>2 DEF WarGameStep, GameRefuse, GameReserve, GameWaitStart,
              GameStartWar, GameEnd, GameMaster, OnSetup, hist
<1>2. ASSUME NEW i \in Guilds, MasterStep(i) PROVE excuse' = "none" => excuse = "none"
  BY <1>2 DEF MasterStep, Declare, Accept, Refuse, NoteTwice
<1>3. DbStep => UNCHANGED excuse
  BY DEF DbStep, DbDeclare, DbRefuse, DbReserve, DbOnWar, DbOver, DbCancel, DbEnd,
     DbReservedWar, DbStartReserved, DbTimer, hist
<1>4. WarDbRestart => excuse' # "none"
  BY DEF WarDbRestart, Loses
<1>5. RequestWarOver => UNCHANGED excuse
  BY DEF RequestWarOver, hist
<1> QED  BY <1>1, <1>2, <1>3, <1>4, <1>5 DEF WarNext

(* Who answers is asked, and by the one who has declared.                  *)
LEMMA SendTogether ==
    ASSUME WarTypeOK, Together, excuse = "none", NEW g \in WarGames, NEW m \in Packets,
           Send(g, m), UNCHANGED <<db, enemy, at, up, warToGame, asked>>,
           m.op \in Answers \cup {"declare"} => m.from \in Guilds,
           m.from \in Guilds => Home[m.from] = g,
           m.from \in Guilds /\ m.op \in Answers => Live(m.from)
    PROVE  Together'
<1>1. PICK f \in Stages : DbAt(f) /\ AllLead(f)
  BY TogetherIt
<1>2. \A j \in Guilds : Sent(j)' => m.from = j /\ m.op \in Answers
  BY SendOne
<1>3. ASSUME NEW j \in Guilds, Sent(j)' PROVE f = Asks(Other(j))
  <2>1. Live(j) /\ Leads(Home[j], f)
    BY <1>1, <1>2, <1>3, HomeType DEF AllLead
  <2> QED  BY <2>1, LiveLeads
<1>4. DbAt(f)'
  BY <1>1, <1>3 DEF DbAt, db
<1>5. TimersRight'
  BY TogetherIt DEF TimersRight, db
<1> QED  BY <1>1, <1>4, <1>5, QuietTogether

LEMMA MasterTogether ==
    ASSUME WarTypeOK, Together, excuse = "none", excuse' = "none",
           NEW i \in Guilds, MasterStep(i)
    PROVE  Together'
<1>1. Home[i] \in WarGames
  BY HomeType
<1>2. ASSUME NEW t \in Types, Declare(i, t) PROVE Together'
  <2> DEFINE m == Packet("declare", i, t)
  <2>1. m \in Packets /\ m.from = i /\ m.op \notin Answers
    BY PacketType DEF Packet, Answers
  <2>2. Send(Home[i], m) /\ UNCHANGED <<db, enemy, at, up, warToGame, asked>>
    BY <1>2 DEF Declare, Ask, copies
  <2> HIDE DEF m
  <2> QED  BY <1>1, <2>1, <2>2, SendTogether
<1>3. ASSUME NoteTwice(i), enemy[Home[i]][i].state = "recv"
      PROVE  Live(i)
  BY <1>3 DEF NoteTwice, Live
<1>4. CASE Accept(i)
  <2> DEFINE e == enemy[Home[i]]
             m == Packet(IF e[i].type = "field" THEN "on" ELSE "wait", i, e[i].type)
  <2>1. e[i].type \in Types
    <3>1. e[i] \in Entries
      BY <1>1 DEF WarTypeOK
    <3> QED  BY <3>1, EntryType
  <2>2. m \in Packets /\ m.from = i
    BY <2>1, PacketType DEF Packet
  <2>3. Send(Home[i], m) /\ UNCHANGED <<db, enemy, at, up, warToGame, asked>>
    BY <1>4 DEF Accept, Ask, copies
  <2>4. Live(i)
    BY <1>3, <1>4 DEF Accept
  <2> HIDE DEF m, e
  <2> QED  BY <1>1, <2>2, <2>3, <2>4, SendTogether
<1>5. CASE Refuse(i)
  <2> DEFINE m == Packet("refuse", i, "field")
  <2>1. m \in Packets /\ m.from = i
    BY PacketType DEF Packet
  <2>2. Send(Home[i], m) /\ UNCHANGED <<db, enemy, at, up, warToGame, asked>>
    BY <1>5 DEF Refuse, Ask, copies
  <2>3. Live(i)
    BY <1>3, <1>5 DEF Refuse
  <2> HIDE DEF m
  <2> QED  BY <1>1, <2>1, <2>2, <2>3, SendTogether
<1> QED  BY <1>2, <1>4, <1>5 DEF MasterStep

LEMMA EndAskedTogether ==
    ASSUME WarTypeOK, Together, excuse = "none", NEW g \in WarGames,
           NEW op \in {"end", "over", "cancel"}, Send(g, Packet(op, 0, "field")),
           UNCHANGED <<db, enemy, at, up, warToGame, asked>>
    PROVE  Together'
<1> DEFINE m == Packet(op, 0, "field")
<1>1. m \in Packets /\ m.from \notin Guilds /\ m.op \notin Answers \cup {"declare"}
  BY PacketType DEF Packet, Answers
<1>2. Send(g, m)
  OBVIOUS
<1> HIDE DEF m
<1> QED  BY <1>1, <1>2, SendTogether

-----------------------------------------------------------------------------
(* The inductive invariant.                                                *)

(* Together speaks of states before anything is lost only, and needs       *)
(* ConsentInv for the packet that the db reads; ConsentInv needs Together  *)
(* for the declaration that a game applies.                                *)
Whole == IInv /\ ConsentInv /\ Together

LEMMA WholeInit == WarInit => Whole
<1> SUFFICES ASSUME WarInit PROVE Whole
  OBVIOUS
<1>1. IInv
  BY InvInit
<1>2. /\ \A g \in WarGames : /\ warToDb[g] = <<>> /\ warToGame[g] = <<>> /\ up[g]
                             /\ \A i \in Guilds : enemy[g][i].state = None
      /\ at = {} /\ war = 0 /\ reserved = 0 /\ waiting = 0 /\ timers = <<>>
  BY DEF WarInit, NoEntry, Entry
<1>3. /\ \A j \in Guilds : ~Live(j)
      /\ \A j \in Guilds : ~Sent(j)
  BY <1>2, HomeType DEF Live, Sent
<1>4. OneAsked /\ Pairs /\ OneAnswers
  BY <1>2, <1>3 DEF OneAsked, Pairs, OneAnswers
<1>5. DbAt("none")
  BY <1>2, <1>3 DEF DbAt, Asks
<1>6. ASSUME NEW g \in WarGames PROVE Leads(g, "none")
  <2> DEFINE r == [k \in 0..0 |-> "none"]
  <2>1. At(g, "none")
    BY <1>2 DEF At, Asks
  <2>2. Len(warToGame[g]) = 0
    BY <1>2
  <2>3. r \in [0..0 -> Stages] /\ r[0] = "none" /\ \A k \in 0..0 : r[k] = "none"
    BY DEF Stages
  <2> HIDE DEF r
  <2>4. Path(r, warToGame[g], "none")
    <3>1. \A k \in 1..0 : FALSE
      OBVIOUS
    <3> QED  BY <2>2, <2>3, <3>1 DEF Path
  <2> QED  BY <2>1, <2>2, <2>3, <2>4 DEF Leads
<1>7. TimersRight
  <2>1. DOMAIN timers = {}
    BY <1>2
  <2> QED  BY <2>1 DEF TimersRight
<1>8. "none" \in Stages
  BY DEF Stages
<1>9. Together
  BY <1>2, <1>5, <1>6, <1>7, <1>8 DEF Together
<1> QED  BY <1>1, <1>4, <1>9 DEF Whole, ConsentInv

LEMMA WholeConsent == Whole /\ WarNext => ConsentInv'
<1> SUFFICES ASSUME Whole, WarNext PROVE ConsentInv'
  OBVIOUS
<1>1. IInv /\ ConsentInv /\ Together
  BY DEF Whole
<1>2. ASSUME NEW g \in WarGames, WarGameStep(g) PROVE ConsentInv'
  BY <1>1, <1>2, GameDeclareConsent, GameRefuseConsent, GameReserveConsent,
     GameWaitStartConsent, GameStartWarConsent, GameEndConsent, GameMasterConsent,
     LossesConsent, OnSetupConsent DEF WarGameStep
<1> QED  BY <1>1, <1>2, DbStepConsent, MasterConsent, RequestWarOverConsent, LossesConsent
         DEF WarNext

LEMMA WholeTogether == Whole /\ WarNext => Together'
<1> SUFFICES ASSUME Whole, WarNext PROVE Together'
  OBVIOUS
<1>1. WarTypeOK /\ OneAsked /\ Together
  BY DEF Whole, IInv, ConsentInv
<1>2. CASE excuse' # "none"
  BY <1>2 DEF Together
<1>3. CASE excuse' = "none"
  <2>1. excuse = "none"
    BY <1>1, <1>3, ExcuseStays
  <2>2. CASE DbStep
    BY <1>1, <2>1, <2>2, DbDeclareTogether, DbRefuseTogether, DbReserveTogether,
       DbOnWarTogether, DbOverTogether, DbEndTogether, DbReservedWarTogether,
       DbStartReservedTogether, DbTimerTogether DEF DbStep
  <2>3. ASSUME NEW g \in WarGames, WarGameStep(g) PROVE Together'
    <3>1. CASE GameMaster(g)
      <4>1. PICK op \in {"end", "cancel"} : Send(g, Packet(op, 0, "field"))
        BY <3>1 DEF GameMaster
      <4>2. UNCHANGED <<db, enemy, at, up, warToGame, asked>>
        BY <3>1 DEF GameMaster, hist, copies
      <4> QED  BY <1>1, <2>1, <4>1, <4>2, EndAskedTogether
    <3>2. CASE WarConnectionLost(g) \/ GameCrash(g)
      BY <1>3, <3>2 DEF WarConnectionLost, GameCrash, Loses
    <3>3. CASE OnSetup(g)
      BY <1>1, <2>1, <3>3, TogetherIt DEF OnSetup
    <3> QED  BY <1>1, <2>3, <3>1, <3>2, <3>3, GameStepsTogether DEF WarGameStep
  <2>4. ASSUME NEW i \in Guilds, MasterStep(i) PROVE Together'
    BY <1>1, <1>3, <2>1, <2>4, MasterTogether
  <2>5. CASE RequestWarOver
    <3>1. PICK op \in {"end", "over"} : Send(MapGame, Packet(op, 0, "field"))
      BY <2>5 DEF RequestWarOver
    <3>2. UNCHANGED <<db, enemy, at, up, warToGame, asked>>
      BY <2>5 DEF RequestWarOver, hist, copies
    <3>3. MapGame \in WarGames
      BY GuildWarAssumption DEF GuildWarAssumption
    <3> QED  BY <1>1, <2>1, <3>1, <3>2, <3>3, EndAskedTogether
  <2>6. CASE WarDbRestart
    BY <1>3, <2>6 DEF WarDbRestart, Loses
  <2> QED  BY <2>2, <2>3, <2>4, <2>5, <2>6 DEF WarNext
<1> QED  BY <1>2, <1>3

LEMMA WholeStutter == Whole /\ UNCHANGED warVars => ConsentInv' /\ Together'
<1> SUFFICES ASSUME Whole, UNCHANGED warVars PROVE ConsentInv' /\ Together'
  OBVIOUS
<1>1. UNCHANGED <<war, timers, reserved, waiting, enemy, at, up, warToDb, warToGame,
                  asked, excuse>>
  BY DEF warVars, db, copies, hist
<1>2. ConsentInv'
  BY <1>1 DEF Whole, ConsentInv, OneAsked, Pairs, OneAnswers, Live, Sent, Answered
<1>3. Together'
  BY <1>1 DEF Whole, Together, DbAt, Sent, Leads, At, TimersRight
<1> QED  BY <1>2, <1>3

LEMMA WholeStep == Whole /\ [WarNext]_warVars => Whole'
  BY InvStep, WholeConsent, WholeTogether, WholeStutter DEF Whole

LEMMA WholeInvariant == WarSpec => []Whole
  BY WholeInit, WholeStep, PTL DEF WarSpec

-----------------------------------------------------------------------------
(* An answer that the db reads is to a declaration that is wanted.         *)
LEMMA ReadsWanted ==
    ASSUME Whole, NEW g \in WarGames, DbOnWar(g) \/ DbReserve(g)
    PROVE  \/ \E h \in WarGames : /\ warToDb'[h] # warToDb[h]
                                  /\ asked \cup {Head(warToDb[h]).from} = Guilds
           \/ excuse = "confused"
<1>1. WarTypeOK /\ OneAsked /\ (excuse # "confused" => OneAnswers)
  BY DEF Whole, IInv, ConsentInv
<1>2. PICK op \in {"on", "wait"} : Received(g, op)
  BY DEF DbOnWar, DbReserve
<1>3. warToDb[g] # <<>> /\ Head(warToDb[g]).op \in Answers /\ warToDb'[g] = <<>>
  BY <1>1, <1>2, ReceivedType, ReceivedLast DEF Received, Answers
<1> DEFINE j == Head(warToDb[g]).from
<1>4. j \in Guilds /\ Sent(j)
  BY <1>1, <1>3 DEF OneAsked, Sent
<1> HIDE DEF j
<1>5. CASE excuse # "confused"
  <2>1. Other(j) \in asked /\ asked \subseteq Guilds
    BY <1>1, <1>4, <1>5 DEF OneAnswers, WarTypeOK
  <2>2. asked \cup {j} = Guilds
    <3>1. Guilds = {j, Other(j)}
      BY <1>4 DEF Other
    <3> QED  BY <2>1, <3>1
  <2> QED  BY <1>3, <2>2 DEF j
<1> QED  BY <1>5

(* The timer that ends a war is the only one of its number.                *)
LEMMA TimerIsIts ==
    ASSUME Whole, excuse = "none", NEW t \in Types, DbTimer(t), war' # war
    PROVE  \A k \in DOMAIN timers' : timers'[k].war # war
<1>1. WarTypeOK /\ Right(timers, war)
  BY TogetherIt, RightIt DEF Whole, IInv
<1>2. PICK k \in FirstOf(t) :
          IF timers[k].bEnd
          THEN timers' = RemoveAt(timers, k) /\ UNCHANGED <<war, warToGame>>
          ELSE WarEnd(RemoveAt(timers, k))
  BY DEF DbTimer
<1> DEFINE q == RemoveAt(timers, k)
<1>3. k \in DOMAIN timers /\ ~timers[k].bEnd /\ WarEnd(q)
  BY <1>2 DEF FirstOf
<1>4. timers[k].war = war
  BY <1>1, <1>3 DEF Right
<1>5. q \in Seq(Timers) /\ Right(q, war) /\ \A l \in DOMAIN q : q[l].war # war
  BY <1>1, <1>3, <1>4, TimersType, RemoveAtType, RemoveAtRight
<1> HIDE DEF q
<1>6. RemoveWar(q)
  BY <1>3 DEF WarEnd
<1> QED  BY <1>5, <1>6, RemoveWarRight

(* A war is reserved or started only when both masters want it, whatever   *)
(* is under way, until a master may have answered what nobody wants any    *)
(* more.                                                                   *)
THEOREM WarsAreWanted == WarSpec => Consent
<1>1. Whole /\ [WarNext]_warVars =>
        [(\E g \in WarGames : DbOnWar(g) \/ DbReserve(g)) =>
            \/ \E g \in WarGames : /\ warToDb'[g] # warToDb[g]
                                   /\ asked \cup {Head(warToDb[g]).from} = Guilds
            \/ excuse = "confused"]_warVars
  BY ReadsWanted
<1> QED  BY WholeInvariant, <1>1, PTL DEF WarSpec, Consent

(* The timer of a war ends that war, and is gone before there is another,  *)
(* until a connection is lost.                                             *)
THEOREM TimersEndTheirWar == WarSpec => TimerEndsItsWar
<1>1. Whole /\ [WarNext]_warVars =>
        [(\E t \in Types : DbTimer(t)) /\ war' # war =>
            \/ \A k \in DOMAIN timers' : timers'[k].war # war
            \/ excuse # "none"]_warVars
  BY TimerIsIts
<1> QED  BY WholeInvariant, <1>1, PTL DEF WarSpec, TimerEndsItsWar
=============================================================================

---------------------------- MODULE PartyProofs ----------------------------
(***************************************************************************)
(* Theorems about Party for any number of games, players, steps and moves: *)
(* every packet and replica is well typed and a player is loaded once;     *)
(* unless one of the four things it does not survive has happened, nobody  *)
(* is in two parties and every replica ends up with the db's parties.      *)
(***************************************************************************)
EXTENDS PartyInvariants, FiniteSetTheorems, SequenceTheorems, WellFoundedInduction, TLAPS

-----------------------------------------------------------------------------
(* What the db sends a game that connects.                                 *)

(* f holds what the first n sequences of seqs make one after another.      *)
Joins(f, seqs, n) ==
    f = [i \in 1..n |-> IF i = 1 THEN seqs[i] ELSE f[i - 1] \o seqs[i]]

LEMMA FlattenIsStep ==
    ASSUME NEW seqs, Len(seqs) # 0
    PROVE  FlattenSeq(seqs) = (CHOOSE f : Joins(f, seqs, Len(seqs)))[Len(seqs)]
  BY DEF FlattenSeq, Joins

LEMMA SmallestIn ==
    ASSUME NEW us \in SUBSET Nat, us # {}
    PROVE  \E m \in us : \A w \in us : ~(w < m)
<1>1. PICK m \in us : \A w \in us : ~(<<w, m>> \in OpToRel(<, Nat))
  BY WFMin, NatLessThanWellFounded
<1> QED  BY <1>1 DEF OpToRel

LEMMA FlattenExists ==
    ASSUME NEW T, NEW seqs \in Seq(Seq(T)), NEW n \in 1..Len(seqs)
    PROVE  \E f \in [1..n -> Seq(T)] : Joins(f, seqs, n)
<1> DEFINE N == Len(seqs)
           us == {m \in 1..N : \A f \in [1..m -> Seq(T)] : ~Joins(f, seqs, m)}
<1>1. N \in Nat /\ \A i \in 1..N : seqs[i] \in Seq(T)
  BY LenProperties, ElementOfSeq
<1>2. SUFFICES ASSUME us # {} PROVE FALSE
  OBVIOUS
<1>4. us \subseteq Nat
  BY <1>1
<1>5. PICK m \in us : \A w \in us : ~(w < m)
  <2> HIDE DEF us
  <2> QED  BY <1>2, <1>4, SmallestIn
<1>7. m \in 1..N /\ \A f \in [1..m -> Seq(T)] : ~Joins(f, seqs, m)
  OBVIOUS
<1> HIDE DEF us
<1>8. CASE m = 1
  <2> DEFINE f == [i \in 1..1 |-> seqs[i]]
  <2>1. f \in [1..m -> Seq(T)]  BY <1>1, <1>7, <1>8
  <2>2. Joins(f, seqs, m)  BY <1>8 DEF Joins
  <2> QED  BY <1>7, <2>1, <2>2
<1>9. CASE m # 1
  <2>1. m - 1 \in 1..N /\ m - 1 < m /\ N \in Nat /\ m \in Nat BY <1>1, <1>7, <1>9
  <2>2. m - 1 \notin us  BY <1>5, <2>1
  <2>3. PICK g \in [1..(m - 1) -> Seq(T)] : Joins(g, seqs, m - 1)  BY <2>1, <2>2 DEF us
  <2> DEFINE z == g[m - 1] \o seqs[m]
             f == [i \in 1..m |-> IF i = m THEN z ELSE g[i]]
  <2>4. z \in Seq(T)  BY <1>1, <1>7, <2>1, <2>3, ConcatProperties
  <2>5. f \in [1..m -> Seq(T)]
    <3> HIDE DEF z
    <3> QED BY <2>1, <2>3, <2>4
  <2>8. \A i \in 1..(m - 1) : g[i] = IF i = 1 THEN seqs[i] ELSE g[i - 1] \o seqs[i]
    BY <2>3 DEF Joins
  <2>6. ASSUME NEW i \in 1..m PROVE f[i] = IF i = 1 THEN seqs[i] ELSE f[i - 1] \o seqs[i]
    <3>1. CASE i = m
      <4>1. f[i - 1] = g[i - 1]  BY <2>1, <3>1, <1>9
      <4>2. f[i] = g[i - 1] \o seqs[i]  BY <3>1
      <4> QED  BY <3>1, <4>1, <4>2, <1>9
    <3>2. CASE i # m
      <4>1. i \in 1..(m - 1) /\ i - 1 # m BY <3>2, <2>1
      <4>2. f[i] = g[i] /\ (i # 1 => f[i - 1] = g[i - 1]) BY <3>2, <4>1, <2>1
      <4> HIDE DEF f
      <4> QED BY <2>8, <4>1, <4>2
    <3> QED  BY <3>1, <3>2
  <2>7. Joins(f, seqs, m)
    <3>1. DOMAIN f = 1..m  OBVIOUS
    <3>2. f = [i \in 1..m |-> f[i]]  OBVIOUS
    <3> HIDE DEF f
    <3> QED BY <2>6, <3>2 DEF Joins
  <2> QED  BY <1>7, <2>5, <2>7
<1> QED  BY <1>8, <1>9

LEMMA FlattenIsSeq ==
    ASSUME NEW T, NEW seqs \in Seq(Seq(T))
    PROVE  FlattenSeq(seqs) \in Seq(T)
<1> DEFINE N == Len(seqs)
           F == CHOOSE f : Joins(f, seqs, N)
<1>1. N \in Nat /\ \A i \in 1..N : seqs[i] \in Seq(T)
  BY LenProperties, ElementOfSeq
<1>2. CASE N = 0
  <2>1. seqs = <<>>  BY <1>2, EmptySeq
  <2>2. FlattenSeq(seqs) = seqs  BY <1>2 DEF FlattenSeq
  <2> QED  BY <2>1, <2>2, EmptySeq
<1>3. CASE N # 0
  <2>0. N \in 1..N  BY <1>1, <1>3
  <2>1. \E f : Joins(f, seqs, N)  BY <2>0, FlattenExists
  <2>2. Joins(F, seqs, N)  BY <2>1
  <2>5. FlattenSeq(seqs) = F[N]  BY <1>3, FlattenIsStep
  <2> HIDE DEF F
  <2>3. \A i \in 1..N : F[i] = IF i = 1 THEN seqs[i] ELSE F[i - 1] \o seqs[i]
    BY <2>2 DEF Joins
  <2> DEFINE us == {m \in 1..N : F[m] \notin Seq(T)}
  <2>4. us = {}
    <3>1. SUFFICES ASSUME us # {} PROVE FALSE  OBVIOUS
    <3>2. us \subseteq Nat  BY <1>1
    <3>3. PICK m \in us : \A w \in us : ~(w < m)
      <4> HIDE DEF us
      <4> QED  BY <3>1, <3>2, SmallestIn
    <3>4. m \in 1..N /\ F[m] \notin Seq(T)  OBVIOUS
    <3>5. m # 1  BY <1>1, <2>3, <3>4
    <3>6. m - 1 \in 1..N /\ m - 1 < m BY <1>1, <3>4, <3>5
    <3>7. m - 1 \notin us
      <4> HIDE DEF us
      <4> QED BY <3>3, <3>6
    <3>8. F[m - 1] \in Seq(T)  BY <3>6, <3>7
    <3>9. F[m] = F[m - 1] \o seqs[m]  BY <2>3, <3>4, <3>5
    <3> QED  BY <1>1, <3>4, <3>8, <3>9, ConcatProperties
  <2>6. F[N] \in Seq(T)  BY <2>0, <2>4
  <2> QED  BY <2>5, <2>6
<1> QED  BY <1>2, <1>3

LEMMA PacketsTyped ==
    ASSUME NEW l \in Players, NEW p \in Players
    PROVE  /\ {Created(l), Deleted(l), Added(l, p), Removed(l, p), Leveled(l, p)}
                 \subseteq {q \in ToDbPackets \cap ToGamePackets : q.k # "load"}
           /\ LoggedOut(p) \in ToDbPackets /\ Loaded(p) \in ToGamePackets
           /\ QuitPacket(l, p) \in ToDbPackets
  BY DEF Created, Deleted, Added, Removed, Leveled, LoggedOut, Loaded, QuitPacket,
         Packets, ToDbPackets, ToGamePackets

(* No player's load is among the packets of a game that connects.          *)
LEMMA SetupTyped ==
    ASSUME PartyAssumption, PmOK, NEW packets \in SetupPackets
    PROVE  packets \in Seq({q \in ToGamePackets : q.k # "load"})
<1> DEFINE T == {q \in ToGamePackets : q.k # "load"}
<1>1. PICK ls \in SetToSeqs(DOMAIN pm),
           ms \in {m \in [DOMAIN pm -> UNION {SetToSeqs(pm[l]) : l \in DOMAIN pm}] :
                      \A l \in DOMAIN pm : m[l] \in SetToSeqs(pm[l])} :
         packets = FlattenSeq([i \in DOMAIN ls |-> PartyPackets(ls[i], ms[ls[i]])])
  BY DEF SetupPackets
<1>2. \A S \in SUBSET Players : \A s \in SetToSeqs(S) : s \in Seq(S)
  <2>1. ASSUME NEW S \in SUBSET Players PROVE Cardinality(S) \in Nat
    BY FS_Subset, FS_CardinalityType DEF PartyAssumption
  <2> QED  BY <2>1 DEF SetToSeqs
<1>3. ls \in Seq(DOMAIN pm) /\ \A l \in DOMAIN pm : ms[l] \in Seq(pm[l])
  BY <1>1, <1>2 DEF PmOK
<1>4. ASSUME NEW l \in DOMAIN pm PROVE PartyPackets(l, ms[l]) \in Seq(T)
  <2> DEFINE s == ms[l]
             a == [i \in DOMAIN s |-> Added(l, s[i])]
  <2>1. l \in Players /\ s \in Seq(pm[l]) /\ pm[l] \subseteq Players
    BY <1>3, <1>4 DEF PmOK
  <2>2. Len(s) \in Nat /\ DOMAIN s = 1..Len(s) /\ \A i \in 1..Len(s) : s[i] \in Players
    BY <2>1, LenProperties, ElementOfSeq
  <2> HIDE DEF s
  <2>3. \A i \in DOMAIN s : Added(l, s[i]) \in T
    BY <2>1, <2>2, PacketsTyped
  <2>4. a \in Seq(T)
    BY <2>2, <2>3
  <2>5. <<Created(l)>> \in Seq(T)
    BY <2>1, PacketsTyped
  <2> QED  BY <2>4, <2>5, ConcatProperties DEF s, PartyPackets
<1>5. [i \in DOMAIN ls |-> PartyPackets(ls[i], ms[ls[i]])] \in Seq(Seq(T))
  <2>1. Len(ls) \in Nat /\ DOMAIN ls = 1..Len(ls) /\ \A i \in 1..Len(ls) : ls[i] \in DOMAIN pm
    BY <1>3, LenProperties, ElementOfSeq
  <2> QED  BY <2>1, <1>4
<1> QED  BY <1>1, <1>5, FlattenIsSeq

-----------------------------------------------------------------------------
(* What the operators that actions share keep.                             *)

LEMMA OneLess ==
    ASSUME NEW S, NEW q \in Seq(S), q # <<>>
    PROVE  /\ Head(q) \in S /\ Head(q) = q[1] /\ 1 \in DOMAIN q
           /\ Tail(q) \in Seq(S)
           /\ \A i \in DOMAIN Tail(q) :
                 i + 1 \in DOMAIN q /\ i + 1 # 1 /\ i \in Nat /\ Tail(q)[i] = q[i + 1]
<1>1. /\ Len(q) \in Nat /\ Len(q) # 0 /\ DOMAIN q = 1..Len(q)
      /\ Tail(q) \in Seq(S) /\ Len(Tail(q)) = Len(q) - 1
      /\ \A i \in 1..Len(Tail(q)) : Tail(q)[i] = q[i + 1]
      /\ Head(q) = q[1] /\ q[1] \in S
  BY LenProperties, EmptySeq, HeadTailProperties, ElementOfSeq
<1>2. DOMAIN Tail(q) = 1..Len(Tail(q))
  BY <1>1, LenProperties
<1> QED  BY <1>1, <1>2

LEMMA OneMore ==
    ASSUME NEW S, NEW q \in Seq(S), NEW x \in S
    PROVE  /\ Append(q, x) \in Seq(S)
           /\ \A i \in DOMAIN Append(q, x) :
                 \/ i \in DOMAIN q /\ Append(q, x)[i] = q[i]
                 \/ i = Len(q) + 1 /\ i \notin DOMAIN q /\ Append(q, x)[i] = x
<1>1. /\ Len(q) \in Nat /\ DOMAIN q = 1..Len(q)
      /\ Append(q, x) \in Seq(S) /\ Len(Append(q, x)) = Len(q) + 1
      /\ \A i \in 1..Len(q) : Append(q, x)[i] = q[i]
      /\ Append(q, x)[Len(q) + 1] = x
  BY LenProperties, AppendProperties
<1>2. DOMAIN Append(q, x) = 1..(Len(q) + 1)
  BY <1>1, LenProperties
<1> QED  BY <1>1, <1>2

(* If every load under way was under way before, d places further on.      *)
LEMMA LoadsKept ==
    ASSUME LoadsOnce, NEW d \in [Games -> Int], QueuesOK, QueuesOK',
           \A g \in Games : \A i \in DOMAIN toGame'[g] :
               toGame'[g][i].k = "load" =>
                  /\ i + d[g] \in DOMAIN toGame[g]
                  /\ toGame'[g][i] = toGame[g][i + d[g]]
                  /\ at[toGame'[g][i].p] = None => at'[toGame'[g][i].p] = None
    PROVE  LoadsOnce'
<1> SUFFICES ASSUME NEW g \in Games, NEW h \in Games,
                    NEW i \in DOMAIN toGame'[g], NEW j \in DOMAIN toGame'[h],
                    toGame'[g][i].k = "load"
             PROVE  /\ at'[toGame'[g][i].p] = None
                    /\ toGame'[h][j] = toGame'[g][i] => g = h /\ i = j
  BY DEF LoadsOnce
<1>1. i \in Nat /\ j \in Nat
  BY LenProperties DEF QueuesOK
<1>2. d[g] \in Int /\ d[h] \in Int
  OBVIOUS
<1>3. at'[toGame'[g][i].p] = None
  BY DEF LoadsOnce
<1>4. ASSUME toGame'[h][j] = toGame'[g][i] PROVE g = h /\ i = j
  <2>1. /\ i + d[g] \in DOMAIN toGame[g] /\ toGame'[g][i] = toGame[g][i + d[g]]
        /\ j + d[h] \in DOMAIN toGame[h] /\ toGame'[h][j] = toGame[h][j + d[h]]
    BY <1>4
  <2>2. g = h /\ i + d[g] = j + d[h]
    BY <1>4, <2>1 DEF LoadsOnce
  <2> QED  BY <1>1, <1>2, <2>2
<1> QED  BY <1>3, <1>4

LEMMA NoLoadSent ==
    ASSUME TypeInv, UNCHANGED at, toDb' \in [Games -> Seq(ToDbPackets)],
           toGame' \in [Games -> Seq(ToGamePackets)],
           \A g \in Games :
              \/ toGame'[g] = toGame[g]
              \/ \E x \in ToGamePackets :
                    x.k # "load" /\ toGame'[g] = Append(toGame[g], x)
    PROVE  LoadsOnce'
<1> DEFINE d == [g \in Games |-> 0]
<1>1. QueuesOK /\ QueuesOK' /\ LoadsOnce
  BY DEF TypeInv, QueuesOK
<1>2. ASSUME NEW g \in Games, NEW i \in DOMAIN toGame'[g], toGame'[g][i].k = "load"
      PROVE  i + d[g] \in DOMAIN toGame[g] /\ toGame'[g][i] = toGame[g][i + d[g]]
  <2>1. i \in Nat /\ i + d[g] = i
    BY <1>1, LenProperties DEF QueuesOK
  <2> HIDE DEF d
  <2>2. i \in DOMAIN toGame[g] /\ toGame'[g][i] = toGame[g][i]
    <3>1. CASE toGame'[g] = toGame[g]
      BY <3>1
    <3>2. ASSUME NEW x \in ToGamePackets, x.k # "load", toGame'[g] = Append(toGame[g], x)
          PROVE  i \in DOMAIN toGame[g] /\ toGame'[g][i] = toGame[g][i]
      <4>1. toGame[g] \in Seq(ToGamePackets)
        BY <1>1 DEF QueuesOK
      <4> QED  BY <4>1, <3>2, <1>2, OneMore
    <3> QED  BY <3>1, <3>2
  <2> QED  BY <2>1, <2>2
<1>3. d \in [Games -> Int]
  OBVIOUS
<1> HIDE DEF d
<1> QED  BY <1>1, <1>2, <1>3, LoadsKept

LEMMA SendAllTyped ==
    ASSUME TypeInv, NEW g \in Games, NEW packets \in Seq(ToDbPackets),
           SendAll(g, packets)
    PROVE  toDb' \in [Games -> Seq(ToDbPackets)]
<1>1. toDb[g] \o packets \in Seq(ToDbPackets)
  BY ConcatProperties DEF TypeInv, QueuesOK
<1> QED  BY <1>1 DEF SendAll, TypeInv, QueuesOK

(* A game takes a packet that is no load.                                  *)
LEMMA ReceivedKeeps ==
    ASSUME TypeInv, NEW g \in Games, NEW kinds, Received(g, kinds), "load" \notin kinds,
           toDb' \in [Games -> Seq(ToDbPackets)], UNCHANGED at
    PROVE  /\ Head(toGame[g]) \in ToGamePackets
           /\ Head(toGame[g]).p \in Players /\ Head(toGame[g]).l \in Players
           /\ toGame' \in [Games -> Seq(ToGamePackets)]
           /\ LoadsOnce'
<1> DEFINE d == [h \in Games |-> IF h = g THEN 1 ELSE 0]
<1>1. QueuesOK /\ LoadsOnce /\ toGame[g] \in Seq(ToGamePackets) /\ toGame[g] # <<>>
      /\ toGame' = [toGame EXCEPT ![g] = Tail(@)]
  BY DEF TypeInv, QueuesOK, Received
<1>2. Head(toGame[g]) \in ToGamePackets /\ toGame' \in [Games -> Seq(ToGamePackets)]
  BY <1>1, OneLess DEF QueuesOK
<1>3. Head(toGame[g]).p \in Players /\ Head(toGame[g]).l \in Players
  BY <1>2 DEF ToGamePackets, Packets
<1>4. ASSUME NEW h \in Games, NEW i \in DOMAIN toGame'[h], toGame'[h][i].k = "load"
      PROVE  i + d[h] \in DOMAIN toGame[h] /\ toGame'[h][i] = toGame[h][i + d[h]]
  <2>1. CASE h = g
    <3>1. toGame'[h] = Tail(toGame[g]) /\ d[h] = 1
      BY <1>1, <2>1 DEF QueuesOK
    <3>2. i \in DOMAIN Tail(toGame[g])
      BY <3>1
    <3>3. i + 1 \in DOMAIN toGame[g] /\ Tail(toGame[g])[i] = toGame[g][i + 1]
      BY <1>1, <3>2, OneLess
    <3> HIDE DEF d
    <3> QED  BY <2>1, <3>1, <3>3
  <2>2. CASE h # g
    <3>1. toGame'[h] = toGame[h] /\ d[h] = 0 /\ i \in Nat
      BY <1>1, <2>2, LenProperties DEF QueuesOK
    <3> QED  BY <3>1
  <2> QED  BY <2>1, <2>2
<1>5. d \in [Games -> Int] /\ QueuesOK'
  BY <1>2 DEF QueuesOK
<1> HIDE DEF d
<1> QED  BY <1>1, <1>2, <1>3, <1>4, <1>5, LoadsKept

LEMMA SetReplicaKeeps ==
    ASSUME TypeInv, PartyAssumption, NEW g \in Games,
           NEW m \in [Players -> Players \cup {None}],
           SetReplica(g, m), UNCHANGED at
    PROVE  party' \in [Games -> [Players -> Players \cup {None}]] /\ LinkedOK'
<1>1. party' \in [Games -> [Players -> Players \cup {None}]]
  BY DEF TypeInv, Rest, SetReplica
<1>2. ASSUME NEW p \in linked'
      PROVE  p \in Players /\ at'[p] # None /\ party'[at'[p]][p] # None
  <2>1. p \in Players /\ at[p] # None /\ at[p] \in Games /\ party[at[p]][p] # None
        /\ (at[p] = g => m[p] = party[g][p])
    BY <1>2 DEF SetReplica, TypeInv, LinkedOK, Rest
  <2>2. party'[at[p]] = IF at[p] = g THEN m ELSE party[at[p]]
    BY <2>1 DEF SetReplica, TypeInv, Rest
  <2> QED  BY <2>1, <2>2
<1> QED  BY <1>1, <1>2 DEF LinkedOK

LEMMA QuitOfTyped ==
    ASSUME NEW m \in [Players -> Players \cup {None}], NEW l, NEW p \in Players
    PROVE  /\ Without(m, l) \in [Players -> Players \cup {None}]
           /\ QuitOf(m, l, p) \in [Players -> Players \cup {None}]
  BY DEF Without, QuitOf

-----------------------------------------------------------------------------
(* Every step keeps the types.                                             *)

LEMMA DbPartyTyped ==
    ASSUME TypeInv, NEW g \in Games, DbParty(g)
    PROVE  TypeInv'
<1> DEFINE packet == Head(toDb[g])
<1>1. toDb[g] \in Seq(ToDbPackets) /\ toDb[g] # <<>> /\ packet.k # "logout"
      /\ UNCHANGED <<party, at, linked, undefined, excuses>>
      /\ toDb' = [toDb EXCEPT ![g] = Tail(@)]
  BY DEF DbParty, TypeInv, QueuesOK
<1>2. packet \in ToDbPackets /\ toDb' \in [Games -> Seq(ToDbPackets)]
  BY <1>1, OneLess DEF TypeInv, QueuesOK
<1>3. /\ packet.l \in Players /\ packet.p \in Players
      /\ packet.k \in {"create", "delete", "add", "remove", "level"}
      /\ packet \in ToGamePackets
      /\ Leveled(packet.l, packet.p) \in ToGamePackets
      /\ Leveled(packet.l, packet.p).k # "load"
  BY <1>1, <1>2, PacketsTyped DEF ToDbPackets, ToGamePackets, Packets, Leveled
<1>4. pm' = (IF DbTakes(packet) THEN DbApply(packet) ELSE pm)
  BY DEF DbParty
<1>5. toGame' = IF DbTakes(packet) THEN Forward(g, packet)
                ELSE IF DbLevels(packet)
                THEN [h \in Games |-> Append(toGame[h], Leveled(packet.l, packet.p))]
                ELSE toGame
  BY DEF DbParty
<1> HIDE DEF packet
<1>6. PmOK'
  <2>1. CASE ~DbTakes(packet)
    BY <1>4, <2>1 DEF TypeInv, PmOK
  <2>2. CASE DbTakes(packet)
    BY <1>3, <1>4, <2>2 DEF TypeInv, PmOK, DbTakes, DbApply
  <2> QED  BY <2>1, <2>2
<1>7. ASSUME NEW h \in Games
      PROVE  \/ toGame'[h] = toGame[h]
             \/ \E x \in ToGamePackets : x.k # "load" /\ toGame'[h] = Append(toGame[h], x)
  BY <1>3, <1>5 DEF Forward, ToDbPackets
<1>8. toGame' \in [Games -> Seq(ToGamePackets)]
  <2>1. ASSUME NEW h \in Games PROVE toGame'[h] \in Seq(ToGamePackets)
    <3>1. toGame[h] \in Seq(ToGamePackets)
      BY DEF TypeInv, QueuesOK
    <3>2. ASSUME NEW x \in ToGamePackets, toGame'[h] = Append(toGame[h], x)
          PROVE  toGame'[h] \in Seq(ToGamePackets)
      BY <3>1, <3>2, OneMore
    <3> QED  BY <1>7, <3>1, <3>2
  <2>2. toGame' = [h \in Games |-> toGame'[h]]
    BY <1>5 DEF Forward, TypeInv, QueuesOK
  <2> QED  BY <2>1, <2>2
<1>9. LoadsOnce'
  BY <1>1, <1>2, <1>7, <1>8, NoLoadSent
<1> QED  BY <1>1, <1>2, <1>6, <1>8, <1>9 DEF TypeInv, QueuesOK, LinkedOK, Rest

LEMMA DbLogoutTyped ==
    ASSUME TypeInv, NEW g \in Games, DbLogout(g)
    PROVE  TypeInv'
<1>1. toDb[g] \in Seq(ToDbPackets) /\ toDb[g] # <<>>
      /\ UNCHANGED <<party, at, linked, pm, toGame, undefined, excuses>>
      /\ toDb' = [toDb EXCEPT ![g] = Tail(@)]
  BY DEF DbLogout, TypeInv, QueuesOK
<1>2. toDb' \in [Games -> Seq(ToDbPackets)]
  BY <1>1, OneLess DEF TypeInv, QueuesOK
<1> QED  BY <1>1, <1>2 DEF TypeInv, QueuesOK, LinkedOK, Rest, PmOK, LoadsOnce

LEMMA DbLoadTyped ==
    ASSUME TypeInv, NEW g \in Games, NEW p \in Players, DbLoad(g, p)
    PROVE  TypeInv'
<1>1. /\ UNCHANGED <<party, at, linked, pm, toDb, undefined, excuses>>
      /\ toGame' = [toGame EXCEPT ![g] = Append(@, Loaded(p))]
      /\ at[p] = None
  BY DEF DbLoad
<1>2. \A h \in Games : toGame[h] \in Seq(ToGamePackets)
                       /\ \A i \in DOMAIN toGame[h] : toGame[h][i] # Loaded(p)
  <2>1. \A h \in Games : toGame[h] \in Seq(ToGamePackets)
    BY DEF TypeInv, QueuesOK
  <2>2. \A h \in Games : DOMAIN toGame[h] = 1..Len(toGame[h])
    BY <2>1, LenProperties
  <2> QED  BY <2>1, <2>2 DEF DbLoad, OnTheWay, Contains
<1>3. Loaded(p) \in ToGamePackets /\ Loaded(p).k = "load" /\ Loaded(p).p = p
  BY PacketsTyped DEF Loaded
<1>4. toGame' \in [Games -> Seq(ToGamePackets)]
  BY <1>1, <1>2, <1>3, OneMore DEF TypeInv, QueuesOK
<1>5. ASSUME NEW h \in Games, NEW i \in DOMAIN toGame'[h]
      PROVE  \/ i \in DOMAIN toGame[h] /\ toGame'[h][i] = toGame[h][i]
             \/ h = g /\ i = Len(toGame[g]) + 1 /\ toGame'[h][i] = Loaded(p)
  <2>1. CASE h = g
    <3>1. toGame'[h] = Append(toGame[g], Loaded(p))
      BY <1>1, <2>1 DEF TypeInv, QueuesOK
    <3> QED  BY <1>2, <1>3, <2>1, <3>1, OneMore
  <2>2. CASE h # g
    BY <1>1, <2>2 DEF TypeInv, QueuesOK
  <2> QED  BY <2>1, <2>2
<1>6. LoadsOnce'
  <2> SUFFICES ASSUME NEW h \in Games, NEW k \in Games,
                      NEW i \in DOMAIN toGame'[h], NEW j \in DOMAIN toGame'[k],
                      toGame'[h][i].k = "load"
               PROVE  /\ at'[toGame'[h][i].p] = None
                      /\ toGame'[k][j] = toGame'[h][i] => h = k /\ i = j
    BY DEF LoadsOnce
  <2>1. at'[toGame'[h][i].p] = None
    BY <1>1, <1>3, <1>5 DEF TypeInv, LoadsOnce
  <2>2. ASSUME toGame'[k][j] = toGame'[h][i] PROVE h = k /\ i = j
    <3>1. CASE i \in DOMAIN toGame[h] /\ toGame'[h][i] = toGame[h][i]
      <4>1. j \in DOMAIN toGame[k] /\ toGame'[k][j] = toGame[k][j]
        BY <1>2, <1>5, <2>2, <3>1
      <4> QED  BY <2>2, <3>1, <4>1 DEF TypeInv, LoadsOnce
    <3>2. CASE h = g /\ i = Len(toGame[g]) + 1 /\ toGame'[h][i] = Loaded(p)
      BY <1>2, <1>5, <2>2, <3>2
    <3> QED  BY <1>5, <3>1, <3>2
  <2> QED  BY <2>1, <2>2
<1> QED  BY <1>1, <1>4, <1>6 DEF TypeInv, QueuesOK, LinkedOK, Rest, PmOK

(* The four excuses.                                                       *)
LEMMA CrossedTyped ==
    ASSUME TypeInv, NEW l, NEW found
    PROVE  Crossed(l, found) \subseteq {"ghost", "crossed", "refounded", "unlinked"}
  BY DEF TypeInv, Rest, Crossed

LEMMA P2PCreatePartyTyped ==
    ASSUME TypeInv, PartyAssumption, NEW g \in Games, P2PCreateParty(g)
    PROVE  TypeInv'
<1> DEFINE l == Head(toGame[g]).l
           m == [party[g] EXCEPT ![l] = l]
<1>1. /\ Received(g, {"create", "level"}) /\ UNCHANGED <<at, pm, toDb, undefined>>
      /\ IF party[g][l] = None THEN SetReplica(g, m) ELSE UNCHANGED <<party, linked>>
      /\ excuses' \in {excuses \cup {"ghost"}, Crossed(l, party[g][l])}
  BY DEF P2PCreateParty
<1>2. toDb' \in [Games -> Seq(ToDbPackets)]
  BY <1>1 DEF TypeInv, QueuesOK
<1>3. l \in Players /\ toGame' \in [Games -> Seq(ToGamePackets)] /\ LoadsOnce'
  BY <1>1, <1>2, ReceivedKeeps
<1> HIDE DEF l
<1>4. m \in [Players -> Players \cup {None}]
  BY <1>3 DEF TypeInv, Rest
<1>5. party' \in [Games -> [Players -> Players \cup {None}]] /\ LinkedOK'
  <2> HIDE DEF m
  <2> QED  BY <1>1, <1>4, SetReplicaKeeps DEF TypeInv, Rest, LinkedOK
<1>6. excuses' \subseteq {"ghost", "crossed", "refounded", "unlinked"}
  BY <1>1, CrossedTyped DEF TypeInv, Rest
<1> QED  BY <1>1, <1>2, <1>3, <1>5, <1>6 DEF TypeInv, QueuesOK, Rest, PmOK

LEMMA P2PDeletePartyTyped ==
    ASSUME TypeInv, PartyAssumption, NEW g \in Games, P2PDeleteParty(g)
    PROVE  TypeInv'
<1> DEFINE l == Head(toGame[g]).l
           m == Without(party[g], party[g][l])
<1>1. /\ Received(g, {"delete"}) /\ UNCHANGED <<at, pm, toDb, undefined>>
      /\ IF party[g][l] = None THEN UNCHANGED <<party, linked>> ELSE SetReplica(g, m)
      /\ excuses' = Crossed(l, party[g][l])
  BY DEF P2PDeleteParty
<1>2. toDb' \in [Games -> Seq(ToDbPackets)]
  BY <1>1 DEF TypeInv, QueuesOK
<1>3. l \in Players /\ toGame' \in [Games -> Seq(ToGamePackets)] /\ LoadsOnce'
  BY <1>1, <1>2, ReceivedKeeps
<1> HIDE DEF l
<1>4. m \in [Players -> Players \cup {None}]
  BY <1>3, QuitOfTyped DEF TypeInv, Rest
<1>5. party' \in [Games -> [Players -> Players \cup {None}]] /\ LinkedOK'
  <2> HIDE DEF m
  <2> QED  BY <1>1, <1>4, SetReplicaKeeps DEF TypeInv, Rest, LinkedOK
<1>6. excuses' \subseteq {"ghost", "crossed", "refounded", "unlinked"}
  BY <1>1, CrossedTyped
<1> QED  BY <1>1, <1>2, <1>3, <1>5, <1>6 DEF TypeInv, QueuesOK, Rest, PmOK

LEMMA P2PJoinPartyTyped ==
    ASSUME TypeInv, PartyAssumption, NEW g \in Games, P2PJoinParty(g)
    PROVE  TypeInv'
<1> DEFINE l    == Head(toGame[g]).l
           p    == Head(toGame[g]).p
           to   == party[g][l]
           from == party[g][p]
           m1   == [party[g] EXCEPT ![l] = l]
           m2   == [party[g] EXCEPT ![p] = to]
<1>1. /\ Received(g, {"add"}) /\ UNCHANGED <<at, pm>>
      /\ \/ SetReplica(g, m1)
         \/ to # None /\ SetReplica(g, m2)
         \/ UNCHANGED <<party, linked>>
      /\ \/ /\ from # None /\ SendAll(g, <<QuitPacket(from, p)>>)
            /\ undefined' = [undefined EXCEPT ![g] = TRUE]
         \/ UNCHANGED <<toDb, undefined>>
      /\ excuses' \in {excuses \cup {"ghost"}, Crossed(l, to)}
  BY DEF P2PJoinParty
<1>2. Head(toGame[g]) \in ToGamePackets
  BY <1>1, OneLess DEF Received, TypeInv, QueuesOK
<1>3. l \in Players /\ p \in Players /\ to \in Players \cup {None} /\ from \in Players \cup {None}
  BY <1>2 DEF ToGamePackets, Packets, TypeInv, Rest
<1>4. toDb' \in [Games -> Seq(ToDbPackets)]
  <2>1. ASSUME from # None PROVE <<QuitPacket(from, p)>> \in Seq(ToDbPackets)
    BY <1>3, <2>1, PacketsTyped
  <2> HIDE DEF from, p
  <2> QED  BY <1>1, <2>1, SendAllTyped DEF TypeInv, QueuesOK
<1>5. toGame' \in [Games -> Seq(ToGamePackets)] /\ LoadsOnce'
  BY <1>1, <1>4, ReceivedKeeps
<1>6. m1 \in [Players -> Players \cup {None}] /\ m2 \in [Players -> Players \cup {None}]
  <2> HIDE DEF to, l, p
  <2> QED  BY <1>3 DEF TypeInv, Rest
<1> HIDE DEF to, from, l, p, m1, m2
<1>7. party' \in [Games -> [Players -> Players \cup {None}]] /\ LinkedOK'
  BY <1>1, <1>6, SetReplicaKeeps DEF TypeInv, Rest, LinkedOK
<1>8. /\ excuses' \subseteq {"ghost", "crossed", "refounded", "unlinked"}
      /\ undefined' \in [Games -> BOOLEAN]
  BY <1>1, CrossedTyped DEF TypeInv, Rest
<1> QED  BY <1>1, <1>4, <1>5, <1>7, <1>8 DEF TypeInv, QueuesOK, Rest, PmOK

LEMMA P2PQuitPartyTyped ==
    ASSUME TypeInv, PartyAssumption, NEW g \in Games, P2PQuitParty(g)
    PROVE  TypeInv'
<1> DEFINE l    == Head(toGame[g]).l
           p    == Head(toGame[g]).p
           from == party[g][p]
           m    == QuitOf(party[g], from, p)
<1>1. /\ Received(g, {"remove"}) /\ UNCHANGED <<at, pm, undefined>>
      /\ IF from = None THEN UNCHANGED <<party, linked>> ELSE SetReplica(g, m)
      /\ IF from = p THEN SendAll(g, <<Deleted(from)>>) ELSE UNCHANGED toDb
      /\ excuses' = Crossed(l, from)
  BY DEF P2PQuitParty
<1>2. Head(toGame[g]) \in ToGamePackets
  BY <1>1, OneLess DEF Received, TypeInv, QueuesOK
<1>3. p \in Players
  BY <1>2 DEF ToGamePackets, Packets
<1>4. toDb' \in [Games -> Seq(ToDbPackets)]
  <2>1. ASSUME from = p PROVE <<Deleted(from)>> \in Seq(ToDbPackets)
    BY <1>3, <2>1, PacketsTyped
  <2> HIDE DEF from, p
  <2> QED  BY <1>1, <2>1, SendAllTyped DEF TypeInv, QueuesOK
<1>5. toGame' \in [Games -> Seq(ToGamePackets)] /\ LoadsOnce'
  BY <1>1, <1>4, ReceivedKeeps
<1>6. m \in [Players -> Players \cup {None}]
  BY <1>3, QuitOfTyped DEF TypeInv, Rest
<1> HIDE DEF l, p, from, m
<1>7. party' \in [Games -> [Players -> Players \cup {None}]] /\ LinkedOK'
  BY <1>1, <1>6, SetReplicaKeeps DEF TypeInv, Rest, LinkedOK
<1>8. excuses' \subseteq {"ghost", "crossed", "refounded", "unlinked"}
  BY <1>1, CrossedTyped
<1> QED  BY <1>1, <1>4, <1>5, <1>7, <1>8 DEF TypeInv, QueuesOK, Rest, PmOK

LEMMA EnterGameTyped ==
    ASSUME TypeInv, PartyAssumption, NEW g \in Games, EnterGame(g)
    PROVE  TypeInv'
<1> DEFINE q == toGame[g]
           p == Head(toGame[g]).p
           d == [h \in Games |-> IF h = g THEN 1 ELSE 0]
<1>1. /\ UNCHANGED <<party, pm, undefined, excuses>>
      /\ at' = [at EXCEPT ![p] = g]
      /\ IF party[g][p] = None THEN UNCHANGED <<linked, toDb>>
         ELSE /\ linked' = linked \cup {p}
              /\ SendAll(g, <<Leveled(party[g][p], p)>>)
      /\ q # <<>> /\ Head(q).k = "load" /\ toGame' = [toGame EXCEPT ![g] = Tail(@)]
  BY DEF EnterGame, Received
<1>2. q \in Seq(ToGamePackets) /\ Head(q) \in ToGamePackets /\ Tail(q) \in Seq(ToGamePackets)
      /\ Head(q) = q[1] /\ 1 \in DOMAIN q
  BY <1>1, OneLess DEF TypeInv, QueuesOK
<1>3. p \in Players /\ Head(q) = Loaded(p)
  BY <1>1, <1>2 DEF ToGamePackets, Packets
<1>4. at[p] = None /\ party[g][p] \in Players \cup {None} /\ g # None
  BY <1>1, <1>2 , <1>3 DEF TypeInv, LoadsOnce, Rest, PartyAssumption
<1>5. toDb' \in [Games -> Seq(ToDbPackets)]
  <2>1. ASSUME party[g][p] # None PROVE <<Leveled(party[g][p], p)>> \in Seq(ToDbPackets)
    BY <1>3, <1>4, <2>1, PacketsTyped
  <2> HIDE DEF p
  <2> QED  BY <1>1, <2>1, SendAllTyped DEF TypeInv, QueuesOK
<1>6. toGame' \in [Games -> Seq(ToGamePackets)]
  BY <1>1, <1>2 DEF TypeInv, QueuesOK
<1>7. ASSUME NEW h \in Games, NEW i \in DOMAIN toGame'[h], toGame'[h][i].k = "load"
      PROVE  /\ i + d[h] \in DOMAIN toGame[h] /\ toGame'[h][i] = toGame[h][i + d[h]]
             /\ at[toGame'[h][i].p] = None => at'[toGame'[h][i].p] = None
  <2>1. /\ i + d[h] \in DOMAIN toGame[h] /\ toGame'[h][i] = toGame[h][i + d[h]]
        /\ ~(h = g /\ i + d[h] = 1)
    <3>1. CASE h = g
      <4>1. i \in DOMAIN Tail(q) /\ toGame'[h] = Tail(q) /\ d[h] = 1
        BY <1>1, <3>1 DEF TypeInv, QueuesOK
      <4>2. i + 1 \in DOMAIN q /\ i + 1 # 1 /\ Tail(q)[i] = q[i + 1]
        BY <1>1, <1>2, <4>1, OneLess
      <4> HIDE DEF d
      <4> QED  BY <3>1, <4>1, <4>2
    <3>2. CASE h # g
      <4>1. toGame'[h] = toGame[h] /\ d[h] = 0 /\ i \in Nat
        BY <1>1, <1>6, <3>2, LenProperties DEF TypeInv, QueuesOK
      <4> QED  BY <3>2, <4>1
    <3> QED  BY <3>1, <3>2
  <2> HIDE DEF d
  <2>2. toGame'[h][i] \in ToGamePackets /\ toGame'[h][i] # Loaded(p)
    <3>1. toGame'[h][i] \in ToGamePackets
      BY <1>6, <1>7, ElementOfSeq, LenProperties
    <3>2. ASSUME toGame'[h][i] = Loaded(p) PROVE FALSE
      <4>1. /\ toGame[h][i + d[h]] = toGame[g][1] /\ toGame[g][1].k = "load"
            /\ i + d[h] \in DOMAIN toGame[h] /\ 1 \in DOMAIN toGame[g]
        BY <1>1, <1>2, <1>3, <2>1, <3>2
      <4>2. LoadsOnce
        BY DEF TypeInv
      <4>3. g = h /\ 1 = i + d[h]
        BY <4>1, <4>2 DEF LoadsOnce
      <4> QED  BY <2>1, <4>3
    <3> QED  BY <3>1, <3>2
  <2>3. toGame'[h][i].p \in Players /\ toGame'[h][i].p # p
    BY <1>7, <2>2 DEF ToGamePackets, Packets
  <2> QED  BY <1>1, <2>1, <2>3 DEF TypeInv, Rest
<1>8. LoadsOnce'
  <2>1. d \in [Games -> Int] /\ QueuesOK /\ QueuesOK' /\ LoadsOnce
    BY <1>5, <1>6 DEF QueuesOK, TypeInv
  <2> HIDE DEF d
  <2> QED  BY <1>7, <2>1, LoadsKept
<1>9. LinkedOK'
  <2> SUFFICES ASSUME NEW x \in linked'
               PROVE  x \in Players /\ at'[x] # None /\ party'[at'[x]][x] # None
    BY DEF LinkedOK
  <2> HIDE DEF p
  <2>1. CASE x \in linked
    <3>1. x \in Players /\ at[x] # None /\ party[at[x]][x] # None
      BY <2>1 DEF TypeInv, LinkedOK
    <3>2. x # p
      BY <1>4, <3>1
    <3> QED  BY <1>1, <3>1, <3>2 DEF TypeInv, Rest
  <2>2. CASE x \notin linked
    <3>1. x = p /\ party[g][p] # None
      BY <1>1, <2>2
    <3> QED  BY <1>1, <1>3, <1>4, <3>1 DEF TypeInv, Rest
  <2> QED  BY <2>1, <2>2
<1>10. at' \in [Players -> Games \cup {None}]
  BY <1>1 DEF TypeInv, Rest
<1> QED  BY <1>1, <1>5, <1>6, <1>8, <1>9, <1>10 DEF TypeInv, QueuesOK, Rest, PmOK

LEMMA DisconnectTyped ==
    ASSUME TypeInv, PartyAssumption, NEW p \in Players, Disconnect(p)
    PROVE  TypeInv'
<1>1. /\ at[p] # None /\ at' = [at EXCEPT ![p] = None] /\ linked' = linked \ {p}
      /\ SendAll(at[p], <<LoggedOut(p)>>)
      /\ UNCHANGED <<party, pm, toGame, undefined, excuses>>
  BY DEF Disconnect
<1>2. at[p] \in Games
  BY <1>1 DEF TypeInv, Rest
<1>3. toDb' \in [Games -> Seq(ToDbPackets)]
  <2>1. <<LoggedOut(p)>> \in Seq(ToDbPackets)
    BY PacketsTyped
  <2> QED  BY <1>1, <1>2, <2>1, SendAllTyped
<1>4. \A x \in Players : x # p => at'[x] = at[x]
  BY <1>1 DEF TypeInv, Rest
<1>5. LinkedOK'
  BY <1>1, <1>4 DEF TypeInv, LinkedOK
<1>6. \A x : at[x] = None => at'[x] = None
  BY <1>1 DEF TypeInv, Rest
<1>7. LoadsOnce'
  BY <1>1, <1>6 DEF TypeInv, LoadsOnce
<1>8. at' \in [Players -> Games \cup {None}]
  BY <1>1 DEF TypeInv, Rest
<1> QED  BY <1>1, <1>3, <1>5, <1>7, <1>8 DEF TypeInv, QueuesOK, Rest, PmOK

LEMMA PartyInviteAcceptTyped ==
    ASSUME TypeInv, PartyAssumption, NEW l \in Players, NEW p \in Players,
           PartyInviteAccept(l, p)
    PROVE  TypeInv'
<1> DEFINE g     == at[l]
           fresh == l \notin linked
           first == IF fresh THEN <<Created(l)>> \o JoinPackets(g, l, l, TRUE) ELSE <<>>
           next  == IF fresh /\ Clash(g, l, l, TRUE) THEN <<>> ELSE JoinPackets(g, l, p, FALSE)
<1>1. /\ g # None /\ at[p] = g /\ UNCHANGED <<at, pm, toGame>>
      /\ SendAll(g, first \o next)
      /\ \/ /\ undefined' = [undefined EXCEPT ![g] = TRUE]
            /\ UNCHANGED <<party, linked>>
         \/ /\ party' = [party EXCEPT ![g][l] = l, ![g][p] = l]
            /\ linked' = linked \cup {l, p}
            /\ UNCHANGED undefined
      /\ excuses' \subseteq excuses \cup {"refounded"}
  BY DEF PartyInviteAccept, Operation
<1>2. g \in Games
  BY <1>1 DEF TypeInv, Rest
<1>3. ASSUME NEW x \in Players, NEW b PROVE JoinPackets(g, l, x, b) \in Seq(ToDbPackets)
  <2>1. party[g][x] \in Players \cup {None}
    BY <1>2 DEF TypeInv, Rest
  <2> HIDE DEF g
  <2> QED  BY <2>1, PacketsTyped DEF JoinPackets, Clash
<1>4. first \o next \in Seq(ToDbPackets)
  <2>1. <<Created(l)>> \in Seq(ToDbPackets) /\ <<>> \in Seq(ToDbPackets)
    BY PacketsTyped
  <2> HIDE DEF g, fresh
  <2>2. first \in Seq(ToDbPackets)
    BY <1>3, <2>1, ConcatProperties
  <2>3. next \in Seq(ToDbPackets)
    BY <1>3, <2>1
  <2> HIDE DEF first, next
  <2> QED  BY <2>2, <2>3, ConcatProperties
<1> HIDE DEF first, next, fresh
<1>5. toDb' \in [Games -> Seq(ToDbPackets)]
  BY <1>1, <1>2, <1>4, SendAllTyped
<1> HIDE DEF g
<1>6. party' \in [Games -> [Players -> Players \cup {None}]]
  BY <1>1 DEF TypeInv, Rest
<1>7. LinkedOK'
  <2>1. CASE UNCHANGED <<party, linked>>
    BY <1>1, <2>1 DEF TypeInv, LinkedOK
  <2>2. CASE party' = [party EXCEPT ![g][l] = l, ![g][p] = l] /\ linked' = linked \cup {l, p}
    <3> SUFFICES ASSUME NEW x \in linked'
                 PROVE  x \in Players /\ at'[x] # None /\ party'[at'[x]][x] # None
      BY DEF LinkedOK
    <3>1. l # None
      BY DEF PartyAssumption
    <3>2. \A h \in Games, y \in Players :
             party'[h][y] = IF h = g /\ y \in {l, p} THEN l ELSE party[h][y]
      BY <1>2, <2>2 DEF TypeInv, Rest
    <3>3. at[l] = g
      BY DEF g
    <3>4. CASE x \in {l, p}
      BY <1>1, <1>2, <3>1, <3>2, <3>3, <3>4
    <3>5. CASE x \notin {l, p}
      BY <1>1, <2>2, <3>2, <3>5 DEF TypeInv, LinkedOK, Rest
    <3> QED  BY <3>4, <3>5
  <2> QED  BY <1>1, <2>1, <2>2
<1>8. excuses' \subseteq {"ghost", "crossed", "refounded", "unlinked"}
      /\ undefined' \in [Games -> BOOLEAN]
  BY <1>1 DEF TypeInv, Rest
<1> QED  BY <1>1, <1>5, <1>6, <1>7, <1>8 DEF TypeInv, QueuesOK, Rest, PmOK, LoadsOnce

LEMMA QuitOrDeleteTyped ==
    ASSUME TypeInv, PartyAssumption, NEW g \in Games, NEW l \in Players, NEW p \in Players,
           QuitOrDelete(g, l, p)
    PROVE  TypeInv'
<1>1. PICK gone \in {l, p} :
         /\ SetReplica(g, QuitOf(party[g], l, gone))
         /\ SendAll(g, <<QuitPacket(l, gone)>>)
         /\ UNCHANGED <<at, pm, toGame, undefined, excuses>>
  BY DEF QuitOrDelete, Operation
<1>2. gone \in Players
  OBVIOUS
<1>3. toDb' \in [Games -> Seq(ToDbPackets)]
  <2>1. <<QuitPacket(l, gone)>> \in Seq(ToDbPackets)
    BY <1>2, PacketsTyped
  <2> QED  BY <1>1, <2>1, SendAllTyped
<1>4. party' \in [Games -> [Players -> Players \cup {None}]] /\ LinkedOK'
  <2>1. QuitOf(party[g], l, gone) \in [Players -> Players \cup {None}]
    BY <1>2, QuitOfTyped DEF TypeInv, Rest
  <2> QED  BY <1>1, <2>1, SetReplicaKeeps
<1> QED  BY <1>1, <1>3, <1>4 DEF TypeInv, QueuesOK, Rest, PmOK, LoadsOnce

LEMMA LeavesTyped ==
    ASSUME TypeInv, PartyAssumption, NEW p \in Players,
           Ungroup(p) \/ \E l \in Players : PartyRemove(l, p)
    PROVE  TypeInv'
<1>1. CASE Ungroup(p)
  <2>1. p \in linked /\ QuitOrDelete(at[p], party[at[p]][p], p)
    BY <1>1 DEF Ungroup
  <2>2. at[p] \in Games /\ party[at[p]][p] \in Players
    BY <2>1 DEF TypeInv, LinkedOK, Rest
  <2> QED  BY <2>1, <2>2, QuitOrDeleteTyped
<1>2. ASSUME NEW l \in Players, PartyRemove(l, p) PROVE TypeInv'
  <2>1. l \in linked /\ QuitOrDelete(at[l], l, p)
    BY <1>2 DEF PartyRemove
  <2>2. at[l] \in Games
    BY <2>1 DEF TypeInv, LinkedOK, Rest
  <2> QED  BY <2>1, <2>2, QuitOrDeleteTyped
<1> QED  BY <1>1, <1>2

(* After a fault: the connections of some games are new.                   *)
LEMMA SetupKeeps ==
    ASSUME TypeInv, PartyAssumption, NEW games \in SUBSET Games,
           NEW packets \in Seq({q \in ToGamePackets : q.k # "load"}),
           Setup(games, packets),
           \A p \in Players : at'[p] = at[p] \/ (at[p] \in games /\ at'[p] = None)
    PROVE  /\ party' \in [Games -> [Players -> Players \cup {None}]]
           /\ QueuesOK' /\ LinkedOK' /\ LoadsOnce'
<1> DEFINE d == [h \in Games |-> 0]
<1>1. /\ party'  = [h \in Games |-> IF h \in games THEN NoParties ELSE party[h]]
      /\ linked' = {p \in linked : at[p] \notin games}
      /\ toDb'   = [h \in Games |-> IF h \in games THEN <<>> ELSE toDb[h]]
      /\ toGame' = [h \in Games |-> IF h \in games THEN packets ELSE toGame[h]]
  BY DEF Setup
<1>2. party' \in [Games -> [Players -> Players \cup {None}]]
  BY <1>1 DEF TypeInv, Rest, NoParties
<1>3. \A i \in DOMAIN packets : packets[i] \in ToGamePackets /\ packets[i].k # "load"
  BY LenProperties, ElementOfSeq
<1>4. packets \in Seq(ToGamePackets)
  BY <1>3, LenProperties
<1>5. QueuesOK'
  <2>1. <<>> \in Seq(ToDbPackets)
    OBVIOUS
  <2> QED  BY <1>1, <1>4, <2>1 DEF TypeInv, QueuesOK
<1>6. LinkedOK'
  <2> SUFFICES ASSUME NEW p \in linked'
               PROVE  p \in Players /\ at'[p] # None /\ party'[at'[p]][p] # None
    BY DEF LinkedOK
  <2>1. p \in Players /\ at[p] # None /\ at[p] \in Games /\ party[at[p]][p] # None /\ at[p] \notin games
    BY <1>1 DEF TypeInv, LinkedOK, Rest
  <2> QED  BY <1>1, <2>1
<1>7. ASSUME NEW h \in Games, NEW i \in DOMAIN toGame'[h], toGame'[h][i].k = "load"
      PROVE  /\ i + d[h] \in DOMAIN toGame[h] /\ toGame'[h][i] = toGame[h][i + d[h]]
             /\ at[toGame'[h][i].p] = None => at'[toGame'[h][i].p] = None
  <2>1. h \notin games /\ toGame'[h] = toGame[h]
    BY <1>1, <1>3, <1>7
  <2>2. i \in Nat /\ toGame[h][i] \in ToGamePackets
    BY <2>1, LenProperties, ElementOfSeq DEF TypeInv, QueuesOK
  <2>3. toGame'[h][i].p \in Players
    BY <2>1, <2>2 DEF ToGamePackets, Packets
  <2>4. None \notin games
    BY DEF PartyAssumption
  <2>5. d[h] = 0
    OBVIOUS
  <2> HIDE DEF d
  <2> QED  BY <2>1, <2>2, <2>3, <2>4, <2>5
<1>8. LoadsOnce'
  <2>1. d \in [Games -> Int] /\ QueuesOK /\ LoadsOnce
    BY DEF TypeInv
  <2> HIDE DEF d
  <2> QED  BY <1>5, <1>7, <2>1, LoadsKept
<1> QED  BY <1>2, <1>5, <1>6, <1>8

LEMMA FaultsTyped ==
    ASSUME TypeInv, PartyAssumption,
           DbRestart \/ \E g \in Games : GameRestart(g) \/ Reconnect(g)
    PROVE  TypeInv'
<1>1. ASSUME NEW g \in Games, GameRestart(g) PROVE TypeInv'
  <2>1. PICK packets \in SetupPackets : Setup({g}, packets)
    BY <1>1 DEF GameRestart
  <2>2. /\ at' = [p \in Players |-> IF at[p] = g THEN None ELSE at[p]]
        /\ undefined' = [undefined EXCEPT ![g] = FALSE] /\ UNCHANGED <<pm, excuses>>
    BY <1>1 DEF GameRestart
  <2>3. packets \in Seq({q \in ToGamePackets : q.k # "load"})
    BY SetupTyped DEF TypeInv
  <2>4. /\ party' \in [Games -> [Players -> Players \cup {None}]]
        /\ QueuesOK' /\ LinkedOK' /\ LoadsOnce'
    BY <2>1, <2>2, <2>3, SetupKeeps
  <2> QED  BY <2>2, <2>4 DEF TypeInv, Rest, PmOK
<1>2. ASSUME NEW g \in Games, Reconnect(g) PROVE TypeInv'
  <2>1. PICK packets \in SetupPackets : Setup({g}, packets)
    BY <1>2 DEF Reconnect
  <2>2. excuses' = excuses \cup {"unlinked"} /\ UNCHANGED <<at, pm, undefined>>
    BY <1>2 DEF Reconnect
  <2>3. packets \in Seq({q \in ToGamePackets : q.k # "load"})
    BY SetupTyped DEF TypeInv
  <2>4. /\ party' \in [Games -> [Players -> Players \cup {None}]]
        /\ QueuesOK' /\ LinkedOK' /\ LoadsOnce'
    BY <2>1, <2>2, <2>3, SetupKeeps
  <2> QED  BY <2>2, <2>4 DEF TypeInv, Rest, PmOK
<1>3. CASE DbRestart
  <2>1. Setup(Games, <<>>) /\ pm' = <<>> /\ UNCHANGED <<at, undefined, excuses>>
    BY <1>3 DEF DbRestart
  <2>2. <<>> \in Seq({q \in ToGamePackets : q.k # "load"})
    OBVIOUS
  <2>3. /\ party' \in [Games -> [Players -> Players \cup {None}]]
        /\ QueuesOK' /\ LinkedOK' /\ LoadsOnce'
    BY <2>1, <2>2, SetupKeeps
  <2>4. PmOK'
    BY <2>1 DEF PmOK
  <2> QED  BY <2>1, <2>3, <2>4 DEF TypeInv, Rest
<1> QED  BY <1>1, <1>2, <1>3

LEMMA TypeInvInit == Init => TypeInv
<1> SUFFICES ASSUME Init PROVE TypeInv
  OBVIOUS
<1>1. PmOK
  BY DEF Init, PmOK
<1>2. QueuesOK
  BY DEF Init, QueuesOK
<1>3. LinkedOK /\ Rest
  BY DEF Init, LinkedOK, Rest, NoParties
<1>4. LoadsOnce
  BY DEF Init, LoadsOnce
<1> QED  BY <1>1, <1>2, <1>3, <1>4 DEF TypeInv

LEMMA TypeInvKept == TypeInv /\ [Next]_vars => TypeInv'
<1> SUFFICES ASSUME TypeInv, [Next]_vars PROVE TypeInv'
  OBVIOUS
<1> USE PartyAssumption
<1>1. ASSUME NEW g \in Games,
             \/ DbParty(g) \/ DbLogout(g) \/ \E p \in Players : DbLoad(g, p)
             \/ P2PCreateParty(g) \/ P2PDeleteParty(g)
             \/ P2PJoinParty(g) \/ P2PQuitParty(g) \/ EnterGame(g)
      PROVE  TypeInv'
  BY <1>1, DbPartyTyped, DbLogoutTyped, DbLoadTyped, P2PCreatePartyTyped,
     P2PDeletePartyTyped, P2PJoinPartyTyped, P2PQuitPartyTyped, EnterGameTyped
<1>2. CASE DbRestart \/ \E g \in Games : GameRestart(g) \/ Reconnect(g)
  BY <1>2, FaultsTyped
<1>3. ASSUME NEW l \in Players, NEW p \in Players,
             PartyInviteAccept(l, p) \/ PartyRemove(l, p) \/ Ungroup(p) \/ Disconnect(p)
      PROVE  TypeInv'
  BY <1>3, PartyInviteAcceptTyped, LeavesTyped, DisconnectTyped
<1>4. CASE UNCHANGED vars
  BY <1>4 DEF vars, TypeInv, PmOK, QueuesOK, LinkedOK, Rest, LoadsOnce
<1> QED  BY <1>1, <1>2, <1>3, <1>4 DEF Next

(* A character that knows its party is in the game and in that party in    *)
(* the replica of its game, whatever packets, leaves, logins and crashes    *)
(* come in between; and the variables hold what they may hold.             *)
THEOREM TypeCorrect == Spec => []TypeOK
<1>1. TypeInv => TypeOK
  <2> SUFFICES ASSUME TypeInv PROVE TypeOK
    OBVIOUS
  <2>1. ASSUME NEW g \in Games
        PROVE  /\ \A i \in DOMAIN toDb[g] : toDb[g][i] \in Packets
               /\ \A i \in DOMAIN toGame[g] : toGame[g][i] \in Packets
    <3>1. toDb[g] \in Seq(ToDbPackets) /\ toGame[g] \in Seq(ToGamePackets)
      BY DEF TypeInv, QueuesOK
    <3> QED  BY <3>1, LenProperties, ElementOfSeq DEF ToDbPackets, ToGamePackets
  <2> QED  BY <2>1 DEF TypeInv, TypeOK, PmOK, LinkedOK, Rest
<1> QED  BY <1>1, TypeInvInit, TypeInvKept, PTL DEF Spec

-----------------------------------------------------------------------------
(* Packets in a queue: what reading the first, or a new last, changes.     *)

(* The empty queue.                                                        *)
LEMMA NoQueue ==
    /\ \A S : ~Has(<<>>, S)
    /\ \A x, S : Followed(<<>>, x, S) /\ Led(<<>>, S, x) /\ First(<<>>, x, S)
    /\ \A x, S, y : Sep(<<>>, x, S, y) /\ Unled(<<>>, y, x)
<1>1. DOMAIN <<>> = {}
  OBVIOUS
<1> QED  BY <1>1 DEF Has, Followed, Led, Sep, First, Unled

(* Nothing is said of packets that are not there.                          *)
LEMMA Absent1 ==
    ASSUME NEW q
    PROVE  /\ \A x, S : ~Has(q, {x}) => Followed(q, x, S) /\ Led(q, S, x) /\ First(q, x, S)
           /\ \A x, S, y : ~Has(q, {x}) => /\ Sep(q, x, S, y) /\ Sep(q, y, S, x)
                                           /\ Unled(q, y, x) /\ Unled(q, x, y)
           /\ \A x, S : Stands(q, x, S) => Has(q, {x})
           /\ \A x, S : Has(q, {x}) /\ ~Has(q, S) => Stands(q, x, S)
           /\ \A x, S : Has(q, {x}) /\ Followed(q, x, S) => Has(q, S)
           /\ \A S, y : Has(q, {y}) /\ Led(q, S, y) => Has(q, S)
           /\ \A S, T : Has(q, S \cup T) <=> Has(q, S) \/ Has(q, T)
           /\ \A S, T : S \subseteq T /\ Has(q, S) => Has(q, T)
           /\ \A x, S : x \in S /\ Has(q, {x}) => Has(q, S)
           /\ \A x, y : Has(q, {x, y}) => Has(q, {x}) \/ Has(q, {y})
<1>1. \A x, S : ~Has(q, {x}) => Followed(q, x, S) /\ Led(q, S, x) /\ First(q, x, S)
  BY DEF Has, Followed, Led, First
<1>2. \A x, S, y : ~Has(q, {x}) => /\ Sep(q, x, S, y) /\ Sep(q, y, S, x)
                                   /\ Unled(q, y, x) /\ Unled(q, x, y)
  BY DEF Has, Sep, Unled
<1>3. \A x, S : Stands(q, x, S) => Has(q, {x})
  BY DEF Has, Stands
<1>4. \A x, S : Has(q, {x}) /\ ~Has(q, S) => Stands(q, x, S)
  BY DEF Has, Stands
<1>5. \A x, S : Has(q, {x}) /\ Followed(q, x, S) => Has(q, S)
  BY DEF Has, Followed
<1>6. \A S, y : Has(q, {y}) /\ Led(q, S, y) => Has(q, S)
  BY DEF Has, Led
<1>7. \A S, T : Has(q, S \cup T) <=> Has(q, S) \/ Has(q, T)
  BY DEF Has
<1>8. \A S, T : S \subseteq T /\ Has(q, S) => Has(q, T)
  BY DEF Has
<1>9. \A x, S : x \in S /\ Has(q, {x}) => Has(q, S)
  BY DEF Has
<1>10. \A x, y : Has(q, {x, y}) => Has(q, {x}) \/ Has(q, {y})
  BY DEF Has
<1> QED  BY <1>1, <1>2, <1>3, <1>4, <1>5, <1>6, <1>7, <1>8, <1>9, <1>10

(* One more packet.                                                        *)
LEMMA Added1 ==
    ASSUME NEW T, NEW q \in Seq(T), NEW z \in T
    PROVE  /\ Append(q, z) \in Seq(T)
           /\ \A S : Has(Append(q, z), S) <=> Has(q, S) \/ z \in S
           /\ \A x, S : z # x /\ Followed(q, x, S) => Followed(Append(q, z), x, S)
           /\ \A x, S : z # x /\ z \in S => Followed(Append(q, z), x, S)
           /\ \A S, y : Led(q, S, y) /\ (z = y => Has(q, S)) => Led(Append(q, z), S, y)
           /\ \A x, S, y : Sep(q, x, S, y) /\ (z = y => Followed(q, x, S)) => Sep(Append(q, z), x, S, y)
           /\ \A x, S : First(q, x, S) /\ (z = x => ~Has(q, S)) => First(Append(q, z), x, S)
           /\ \A x, S : Stands(q, x, S) /\ z \notin S => Stands(Append(q, z), x, S)
           /\ \A S : Stands(Append(q, z), z, S)
           /\ \A x, y : Unled(q, y, x) /\ (z = x => ~Has(q, {y})) => Unled(Append(q, z), y, x)
<1> DEFINE r == Append(q, z)
           n == Len(q)
<1>1. /\ n \in Nat /\ DOMAIN q = 1..n /\ r \in Seq(T)
      /\ DOMAIN r = 1..(n + 1)
      /\ \A i \in 1..n : r[i] = q[i]
      /\ r[n + 1] = z
  <2>1. n \in Nat /\ DOMAIN q = 1..n  BY LenProperties
  <2>2. r \in Seq(T) /\ Len(r) = n + 1 /\ (\A i \in 1..n : r[i] = q[i]) /\ r[n + 1] = z
    BY AppendProperties
  <2>3. DOMAIN r = 1..(n + 1)  BY <2>2, LenProperties
  <2> QED  BY <2>1, <2>2, <2>3
<1> HIDE DEF r, n
<1>2. \A S : Has(r, S) <=> Has(q, S) \/ z \in S
  <2> TAKE S
  <2>1. Has(q, S) => Has(r, S)  BY <1>1 DEF Has
  <2>2. z \in S => Has(r, S)  BY <1>1 DEF Has
  <2>3. Has(r, S) => Has(q, S) \/ z \in S  BY <1>1 DEF Has
  <2> QED  BY <2>1, <2>2, <2>3
<1>3. \A x, S : z # x /\ Followed(q, x, S) => Followed(r, x, S)
  <2> SUFFICES ASSUME NEW x, NEW S, z # x, Followed(q, x, S), NEW i \in DOMAIN r, r[i] = x
               PROVE  \E k \in DOMAIN r : i < k /\ r[k] \in S
    BY DEF Followed
  <2>1. i \in DOMAIN q /\ q[i] = x  BY <1>1
  <2>2. PICK k \in DOMAIN q : i < k /\ q[k] \in S  BY <2>1 DEF Followed
  <2> QED  BY <1>1, <2>2
<1>4. \A x, S : z # x /\ z \in S => Followed(r, x, S)
  <2> SUFFICES ASSUME NEW x, NEW S, z # x, z \in S, NEW i \in DOMAIN r, r[i] = x
               PROVE  \E k \in DOMAIN r : i < k /\ r[k] \in S
    BY DEF Followed
  <2>1. i \in DOMAIN q  BY <1>1
  <2>2. n + 1 \in DOMAIN r /\ i < n + 1  BY <1>1, <2>1
  <2> QED  BY <1>1, <2>2
<1>5. \A S, y : Led(q, S, y) /\ (z = y => Has(q, S)) => Led(r, S, y)
  <2> SUFFICES ASSUME NEW y, NEW S, Led(q, S, y), z = y => Has(q, S), NEW i \in DOMAIN r, r[i] = y
               PROVE  \E j \in DOMAIN r : j < i /\ r[j] \in S
    BY DEF Led
  <2>1. CASE i = n + 1
    <3>1. PICK j \in DOMAIN q : q[j] \in S  BY <1>1, <2>1 DEF Has
    <3> QED  BY <1>1, <2>1, <3>1
  <2>2. CASE i # n + 1
    <3>1. i \in DOMAIN q /\ q[i] = y  BY <1>1, <2>2
    <3>2. PICK j \in DOMAIN q : j < i /\ q[j] \in S  BY <3>1 DEF Led
    <3> QED  BY <1>1, <3>2
  <2> QED  BY <2>1, <2>2
<1>6. \A x, S, y : Sep(q, x, S, y) /\ (z = y => Followed(q, x, S)) => Sep(r, x, S, y)
  <2> SUFFICES ASSUME NEW x, NEW y, NEW S, Sep(q, x, S, y), z = y => Followed(q, x, S),
                      NEW i \in DOMAIN r, NEW j \in DOMAIN r, j < i, r[j] = x, r[i] = y
               PROVE  \E k \in DOMAIN r : j < k /\ k < i /\ r[k] \in S
    BY DEF Sep
  <2>0. j \in DOMAIN q /\ q[j] = x  BY <1>1
  <2>1. CASE i = n + 1
    <3>1. PICK k \in DOMAIN q : j < k /\ q[k] \in S  BY <1>1, <2>0, <2>1 DEF Followed
    <3> QED  BY <1>1, <2>1, <3>1
  <2>2. CASE i # n + 1
    <3>1. i \in DOMAIN q /\ q[i] = y  BY <1>1, <2>2
    <3>2. PICK k \in DOMAIN q : j < k /\ k < i /\ q[k] \in S  BY <2>0, <3>1 DEF Sep
    <3> QED  BY <1>1, <3>2
  <2> QED  BY <2>1, <2>2
<1>7. \A x, S : First(q, x, S) /\ (z = x => ~Has(q, S)) => First(r, x, S)
  <2> SUFFICES ASSUME NEW x, NEW S, First(q, x, S), z = x => ~Has(q, S),
                      NEW i \in DOMAIN r, NEW k \in DOMAIN r, r[i] = x, r[k] \in S, ~(i <= k)
               PROVE  FALSE
    BY <1>1 DEF First
  <2>1. k \in DOMAIN q /\ q[k] \in S  BY <1>1
  <2>2. i \in DOMAIN q /\ q[i] = x  BY <1>1, <2>1 DEF Has
  <2> QED  BY <2>1, <2>2 DEF First
<1>8. \A x, S : Stands(q, x, S) /\ z \notin S => Stands(r, x, S)
  <2> SUFFICES ASSUME NEW x, NEW S, Stands(q, x, S), z \notin S PROVE Stands(r, x, S)
    OBVIOUS
  <2>1. PICK i \in DOMAIN q : q[i] = x /\ \A k \in DOMAIN q : i < k => q[k] \notin S  BY DEF Stands
  <2>2. i \in DOMAIN r /\ r[i] = x  BY <1>1, <2>1
  <2>3. \A k \in DOMAIN r : i < k => r[k] \notin S  BY <1>1, <2>1
  <2> QED  BY <2>2, <2>3 DEF Stands
<1>9. \A S : Stands(r, z, S)
  <2>1. n + 1 \in DOMAIN r /\ r[n + 1] = z /\ \A k \in DOMAIN r : ~(n + 1 < k)  BY <1>1
  <2> QED  BY <2>1 DEF Stands
<1>10. \A x, y : Unled(q, y, x) /\ (z = x => ~Has(q, {y})) => Unled(r, y, x)
  <2> SUFFICES ASSUME NEW x, NEW y, Unled(q, y, x), z = x => ~Has(q, {y}),
                      NEW i \in DOMAIN r, NEW j \in DOMAIN r, j < i, r[i] = x, r[j] = y
               PROVE  FALSE
    BY DEF Unled
  <2>1. j \in DOMAIN q /\ q[j] = y  BY <1>1
  <2>2. i \in DOMAIN q /\ q[i] = x  BY <1>1, <2>1 DEF Has
  <2> QED  BY <2>1, <2>2 DEF Unled
<1> QED  BY <1>1, <1>2, <1>3, <1>4, <1>5, <1>6, <1>7, <1>8, <1>9, <1>10 DEF r

(* One packet less.                                                        *)
LEMMA Taken1 ==
    ASSUME NEW T, NEW q \in Seq(T), q # <<>>
    PROVE  /\ Tail(q) \in Seq(T) /\ Head(q) \in T
           /\ \A S : Has(q, S) <=> Has(Tail(q), S) \/ Head(q) \in S
           /\ \A x, S : Followed(q, x, S) => Followed(Tail(q), x, S)
           /\ \A x, S : Head(q) = x /\ Followed(q, x, S) => Has(Tail(q), S)
           /\ \A S, y : Led(q, S, y) /\ Head(q) \notin S => Led(Tail(q), S, y)
           /\ \A x, S, y : Sep(q, x, S, y) => Sep(Tail(q), x, S, y)
           /\ \A x, S, y : Sep(q, x, S, y) /\ Head(q) = x => Led(Tail(q), S, y)
           /\ \A S, y : Led(q, S, y) => Head(q) # y
           /\ \A x, S : First(q, x, S) => First(Tail(q), x, S)
           /\ \A x, S : First(q, x, S) /\ Head(q) \in S /\ Has(q, {x}) => Head(q) = x
           /\ \A x, S : First(q, x, S) /\ x \in S /\ Head(q) = x => ~Has(Tail(q), {x})
           /\ \A x, S : Stands(q, x, S) /\ Head(q) # x => Stands(Tail(q), x, S)
           /\ \A x, S : Stands(q, x, S) => Stands(Tail(q), x, S) \/ ~Has(Tail(q), S)
           /\ \A x, y : Unled(q, y, x) => Unled(Tail(q), y, x)
           /\ \A x, y : Unled(q, y, x) /\ Head(q) = y => ~Has(Tail(q), {x})
<1> DEFINE r == Tail(q)
           n == Len(q)
<1>1. /\ n \in Nat /\ n # 0 /\ DOMAIN q = 1..n /\ r \in Seq(T)
      /\ DOMAIN r = 1..(n - 1)
      /\ \A i \in 1..(n - 1) : r[i] = q[i + 1]
      /\ Head(q) = q[1] /\ Head(q) \in T
  <2>1. n \in Nat /\ n # 0 /\ DOMAIN q = 1..n  BY LenProperties, EmptySeq
  <2>2. r \in Seq(T) /\ Len(r) = n - 1 /\ (\A i \in 1..Len(r) : r[i] = q[i + 1])
        /\ Head(q) = q[1] /\ Head(q) \in T
    BY HeadTailProperties
  <2>3. DOMAIN r = 1..(n - 1)  BY <2>2, LenProperties
  <2> QED  BY <2>1, <2>2, <2>3
<1> HIDE DEF r, n
<1>u. \A i \in DOMAIN r : i \in Nat /\ i + 1 \in DOMAIN q /\ r[i] = q[i + 1] /\ i + 1 # 1
  BY <1>1
<1>d. \A i \in DOMAIN q : i \in Nat /\ (i # 1 => i - 1 \in DOMAIN r /\ r[i - 1] = q[i]) /\ i >= 1
  BY <1>1
<1>h. 1 \in DOMAIN q /\ Head(q) = q[1]
  BY <1>1
<1>2. \A S : Has(q, S) <=> Has(r, S) \/ Head(q) \in S
  <2> TAKE S
  <2>1. Has(r, S) => Has(q, S)  BY <1>u DEF Has
  <2>2. Head(q) \in S => Has(q, S)  BY <1>h DEF Has
  <2>3. ASSUME Has(q, S), Head(q) \notin S PROVE Has(r, S)
    <3>1. PICK i \in DOMAIN q : q[i] \in S  BY <2>3 DEF Has
    <3>2. i # 1  BY <3>1, <2>3, <1>h
    <3> QED  BY <3>1, <3>2, <1>d DEF Has
  <2> QED  BY <2>1, <2>2, <2>3
<1>3. \A x, S : Followed(q, x, S) => Followed(r, x, S)
  <2> SUFFICES ASSUME NEW x, NEW S, Followed(q, x, S), NEW i \in DOMAIN r, r[i] = x
               PROVE  \E k \in DOMAIN r : i < k /\ r[k] \in S
    BY DEF Followed
  <2>1. PICK k \in DOMAIN q : i + 1 < k /\ q[k] \in S  BY <1>u DEF Followed
  <2>2. k # 1 /\ i < k - 1  BY <1>u, <1>d, <2>1
  <2> QED  BY <1>d, <2>1, <2>2
<1>4. \A x, S : Head(q) = x /\ Followed(q, x, S) => Has(r, S)
  <2> SUFFICES ASSUME NEW x, NEW S, Head(q) = x, Followed(q, x, S) PROVE Has(r, S)
    OBVIOUS
  <2>1. PICK k \in DOMAIN q : 1 < k /\ q[k] \in S  BY <1>h DEF Followed
  <2>2. k # 1  BY <2>1
  <2> QED  BY <1>d, <2>1, <2>2 DEF Has
<1>5. \A S, y : Led(q, S, y) /\ Head(q) \notin S => Led(r, S, y)
  <2> SUFFICES ASSUME NEW y, NEW S, Led(q, S, y), Head(q) \notin S, NEW i \in DOMAIN r, r[i] = y
               PROVE  \E j \in DOMAIN r : j < i /\ r[j] \in S
    BY DEF Led
  <2>1. PICK j \in DOMAIN q : j < i + 1 /\ q[j] \in S  BY <1>u DEF Led
  <2>2. j # 1  BY <1>h, <2>1
  <2>3. j - 1 < i  BY <1>u, <1>d, <2>1, <2>2
  <2> QED  BY <1>d, <2>1, <2>2, <2>3
<1>6. \A x, S, y : Sep(q, x, S, y) => Sep(r, x, S, y)
  <2> SUFFICES ASSUME NEW x, NEW y, NEW S, Sep(q, x, S, y),
                      NEW i \in DOMAIN r, NEW j \in DOMAIN r, j < i, r[j] = x, r[i] = y
               PROVE  \E k \in DOMAIN r : j < k /\ k < i /\ r[k] \in S
    BY DEF Sep
  <2>0. j + 1 < i + 1  BY <1>u
  <2>1. PICK k \in DOMAIN q : j + 1 < k /\ k < i + 1 /\ q[k] \in S  BY <1>u, <2>0 DEF Sep
  <2>2. k # 1 /\ j < k - 1 /\ k - 1 < i  BY <1>u, <1>d, <2>1
  <2> QED  BY <1>d, <2>1, <2>2
<1>7. \A x, S, y : Sep(q, x, S, y) /\ Head(q) = x => Led(r, S, y)
  <2> SUFFICES ASSUME NEW x, NEW y, NEW S, Sep(q, x, S, y), Head(q) = x, NEW i \in DOMAIN r, r[i] = y
               PROVE  \E j \in DOMAIN r : j < i /\ r[j] \in S
    BY DEF Led
  <2>0. 1 < i + 1  BY <1>1
  <2>1. PICK k \in DOMAIN q : 1 < k /\ k < i + 1 /\ q[k] \in S  BY <1>u, <1>h, <2>0 DEF Sep
  <2>3. k \in Nat /\ i \in Nat  BY <1>u, <1>d
  <2>2. k # 1 /\ k - 1 < i  BY <2>1, <2>3
  <2> QED  BY <1>d, <2>1, <2>2
<1>8. \A S, y : Led(q, S, y) => Head(q) # y
  BY <1>h, <1>d DEF Led
<1>9. \A x, S : First(q, x, S) => First(r, x, S)
  <2> SUFFICES ASSUME NEW x, NEW S, First(q, x, S), NEW i \in DOMAIN r, NEW k \in DOMAIN r, r[i] = x, r[k] \in S
               PROVE  i <= k
    BY DEF First
  <2>1. i + 1 <= k + 1  BY <1>u DEF First
  <2> QED  BY <2>1, <1>u
<1>10. \A x, S : First(q, x, S) /\ Head(q) \in S /\ Has(q, {x}) => Head(q) = x
  <2> SUFFICES ASSUME NEW x, NEW S, First(q, x, S), Head(q) \in S, Has(q, {x}) PROVE Head(q) = x
    OBVIOUS
  <2>1. PICK i \in DOMAIN q : q[i] = x  BY DEF Has
  <2>2. i <= 1  BY <1>h, <2>1 DEF First
  <2>3. i = 1  BY <2>2, <1>d
  <2> QED  BY <2>1, <2>3, <1>h
<1>11. \A x, S : First(q, x, S) /\ x \in S /\ Head(q) = x => ~Has(r, {x})
  <2> SUFFICES ASSUME NEW x, NEW S, First(q, x, S), x \in S, Head(q) = x, NEW i \in DOMAIN r, r[i] = x PROVE FALSE
    BY DEF Has
  <2>1. i + 1 <= 1  BY <1>u, <1>h DEF First
  <2> QED  BY <2>1, <1>1
<1>12. \A x, S : Stands(q, x, S) /\ Head(q) # x => Stands(r, x, S)
  <2> SUFFICES ASSUME NEW x, NEW S, Stands(q, x, S), Head(q) # x PROVE Stands(r, x, S)
    OBVIOUS
  <2>1. PICK i \in DOMAIN q : q[i] = x /\ \A k \in DOMAIN q : i < k => q[k] \notin S  BY DEF Stands
  <2>2. i # 1 /\ i - 1 \in DOMAIN r /\ r[i - 1] = x /\ i \in Nat  BY <1>d, <1>h, <2>1
  <2>3. ASSUME NEW k \in DOMAIN r, i - 1 < k PROVE r[k] \notin S
    <3>1. i < k + 1  BY <1>u, <2>2, <2>3
    <3> QED  BY <1>u, <2>1, <3>1
  <2> QED  BY <2>2, <2>3 DEF Stands
<1>13. \A x, S : Stands(q, x, S) => Stands(r, x, S) \/ ~Has(r, S)
  <2> SUFFICES ASSUME NEW x, NEW S, Stands(q, x, S) PROVE Stands(r, x, S) \/ ~Has(r, S)
    OBVIOUS
  <2>1. PICK i \in DOMAIN q : q[i] = x /\ \A k \in DOMAIN q : i < k => q[k] \notin S  BY DEF Stands
  <2>2. CASE i = 1
    <3>1. \A k \in DOMAIN r : r[k] \notin S  BY <1>1, <2>1, <2>2
    <3> QED  BY <3>1 DEF Has
  <2>3. CASE i # 1
    <3>2. i - 1 \in DOMAIN r /\ r[i - 1] = x /\ i \in Nat  BY <1>d, <2>3, <2>1
    <3>3. ASSUME NEW k \in DOMAIN r, i - 1 < k PROVE r[k] \notin S
      <4>1. i < k + 1  BY <1>u, <3>2, <3>3
      <4> QED  BY <1>u, <2>1, <4>1
    <3> QED  BY <3>2, <3>3 DEF Stands
  <2> QED  BY <2>2, <2>3
<1>14. \A x, y : Unled(q, y, x) => Unled(r, y, x)
  <2> SUFFICES ASSUME NEW x, NEW y, Unled(q, y, x), NEW i \in DOMAIN r, NEW j \in DOMAIN r, j < i, r[i] = x
               PROVE  r[j] # y
    BY DEF Unled
  <2>1. j + 1 < i + 1  BY <1>u
  <2> QED  BY <2>1, <1>u DEF Unled
<1>15. \A x, y : Unled(q, y, x) /\ Head(q) = y => ~Has(r, {x})
  <2> SUFFICES ASSUME NEW x, NEW y, Unled(q, y, x), Head(q) = y, NEW i \in DOMAIN r, r[i] = x PROVE FALSE
    BY DEF Has
  <2>1. 1 < i + 1  BY <1>1
  <2> QED  BY <2>1, <1>u, <1>h DEF Unled
<1>16. r \in Seq(T) /\ Head(q) \in T
  BY <1>1
<1> QED
  BY <1>2, <1>3, <1>4, <1>5, <1>6, <1>7, <1>8, <1>9, <1>10, <1>11, <1>12, <1>13, <1>14, <1>15,
     <1>16 DEF r

-----------------------------------------------------------------------------
(* What packets are, and when PartyInv holds.                              *)

(* f with y at x; ln and p; who of ln still knows his party once g's       *)
(* replica is pt2's.                                                       *)
With(f, x, y) == [f EXCEPT ![x] = y]
Also(ln, p)   == ln \cup {p}
Knowing(ln, wh, g, pt2, pt) == {p \in ln : wh[p] = g => pt2[g][p] = pt[g][p]}

(* What packets are.                                                       *)
LEMMA Names ==
    /\ \A l \in Players : Start(l, l) = Created(l)
    /\ \A l, p \in Players : l # p => Start(l, p) = Added(l, p)
    /\ \A l, p \in Players : Start(l, p) \in Named(l) /\ Ends(l, p) \subseteq Named(l)
                             /\ Deleted(l) \in Ends(l, p) /\ Removed(l, p) \in Ends(l, p)
    /\ \A l, p, m, o \in Players : Start(l, p) = Start(m, o) => l = m /\ p = o
    /\ \A l, p, m, o \in Players : Start(l, p) \notin Ends(m, o)
    /\ \A l, p, m \in Players : Created(l) = Start(m, p) => l = m /\ p = m
  BY DEF Start, Ends, Named, Created, Added, Deleted, Removed, Packets

LEMMA EndsAre ==
    ASSUME NEW q, NEW l, NEW p
    PROVE  Has(q, Ends(l, p)) <=> Has(q, {Deleted(l)}) \/ Has(q, {Removed(l, p)})
  BY DEF Has, Ends

(* Nothing is left of l's party.                                           *)
LEMMA NoneNamed ==
    ASSUME NEW q, NEW l \in Players, ~Has(q, Named(l))
    PROVE  /\ ~Has(q, {Created(l)}) /\ ~Has(q, {Deleted(l)})
           /\ \A p \in Players : /\ ~Has(q, {Start(l, p)}) /\ ~Has(q, {Removed(l, p)})
                                /\ ~Has(q, Ends(l, p))
<1>1. /\ Created(l) \in Named(l) /\ Deleted(l) \in Named(l)
      /\ \A p \in Players : /\ Start(l, p) \in Named(l) /\ Removed(l, p) \in Named(l)
                           /\ Ends(l, p) \subseteq Named(l)
  BY DEF Start, Ends, Named, Created, Added, Deleted, Removed, Packets
<1> QED  BY <1>1 DEF Has

LEMMA StartIs ==
    ASSUME NEW l \in Players, NEW p \in Players
    PROVE  LET x == Start(l, p)
           IN /\ \A m, o \in Players : x = Start(m, o) <=> m = l /\ o = p
              /\ \A m, o \in Players : x \notin Ends(m, o) /\ x # Deleted(m) /\ x # Removed(m, o)
              /\ \A m \in Players : x # LoggedOut(m) /\ x # Loaded(m)
              /\ \A m \in Players : x \in Named(m) <=> m = l
              /\ \A m \in Players : x = Created(m) <=> m = l /\ m = p
              /\ x \in ToDbPackets /\ x \in ToGamePackets
  BY DEF Start, Ends, Named, Created, Added, Deleted, Removed, LoggedOut, Loaded, Packets,
         ToDbPackets, ToGamePackets

LEMMA DeletedIs ==
    ASSUME NEW l \in Players
    PROVE  LET x == Deleted(l)
           IN /\ \A m, o \in Players : x # Start(m, o) /\ x # Removed(m, o)
              /\ \A m, o \in Players : x \in Ends(m, o) <=> m = l
              /\ \A m \in Players : x = Deleted(m) <=> m = l
              /\ \A m \in Players : x # LoggedOut(m) /\ x # Loaded(m) /\ x # Created(m)
              /\ \A m \in Players : x \in Named(m) <=> m = l
              /\ x \in ToDbPackets /\ x \in ToGamePackets
  BY DEF Start, Ends, Named, Created, Added, Deleted, Removed, LoggedOut, Loaded, Packets,
         ToDbPackets, ToGamePackets

LEMMA RemovedIs ==
    ASSUME NEW l \in Players, NEW p \in Players
    PROVE  LET x == Removed(l, p)
           IN /\ \A m, o \in Players : x # Start(m, o)
              /\ \A m, o \in Players : x \in Ends(m, o) <=> m = l /\ o = p
              /\ \A m, o \in Players : x = Removed(m, o) <=> m = l /\ o = p
              /\ \A m \in Players : x # LoggedOut(m) /\ x # Loaded(m) /\ x # Created(m) /\ x # Deleted(m)
              /\ \A m \in Players : x \in Named(m) <=> m = l
              /\ x \in ToDbPackets /\ x \in ToGamePackets
  BY DEF Start, Ends, Named, Created, Added, Deleted, Removed, LoggedOut, Loaded, Packets,
         ToDbPackets, ToGamePackets

(* Packets that change nothing.                                            *)
Neutral(x, l) ==
    /\ \A m, o \in Players : x # Start(m, o) /\ x \notin Ends(m, o) /\ x # Removed(m, o)
    /\ \A m \in Players : x # LoggedOut(m) /\ x # Loaded(m) /\ x # Created(m) /\ x # Deleted(m)
    /\ \A m \in Players : x \in Named(m) <=> m = l
    /\ x \in ToDbPackets /\ x \in ToGamePackets

LEMMA NeutralAre ==
    ASSUME NEW l \in Players, NEW p \in Players
    PROVE  Neutral(Leveled(l, p), l) /\ Neutral(Added(l, l), l)
  BY DEF Neutral, Start, Ends, Named, Created, Added, Deleted, Removed, LoggedOut, Loaded, Packets,
         ToDbPackets, ToGamePackets, Leveled

LEMMA LogPacketsAre ==
    ASSUME NEW p \in Players
    PROVE  /\ \A x \in {LoggedOut(p), Loaded(p)} :
                 /\ \A m, o \in Players : x # Start(m, o) /\ x \notin Ends(m, o) /\ x # Removed(m, o)
                 /\ \A m \in Players : x # Created(m) /\ x # Deleted(m) /\ x \notin Named(m)
           /\ \A m \in Players : /\ LoggedOut(p) = LoggedOut(m) <=> m = p
                                 /\ Loaded(p) = Loaded(m) <=> m = p
                                 /\ LoggedOut(p) # Loaded(m) /\ Loaded(p) # LoggedOut(m)
           /\ LoggedOut(p) \in ToDbPackets /\ Loaded(p) \in ToGamePackets
  BY DEF Start, Ends, Named, Created, Added, Deleted, Removed, LoggedOut, Loaded, Packets,
         ToDbPackets, ToGamePackets

-----------------------------------------------------------------------------
(* The db reads a packet.                                                  *)

(* e is f, but for the queue of g, which has lost its first packet, x.     *)
Takes(e, f, g, x) ==
    /\ \A h \in Games : h # g => e[h] = f[h]
    /\ \A h \in Games : \A S : Has(e[h], S) => Has(f[h], S)
    /\ \A h \in Games : \A S : Has(f[h], S) /\ x \notin S => Has(e[h], S)
    /\ \A h \in Games : \A y, S : Followed(f[h], y, S) => Followed(e[h], y, S)
    /\ \A h \in Games : \A y, S : Led(f[h], S, y) /\ x \notin S => Led(e[h], S, y)
    /\ \A h \in Games : \A y, z, S : Sep(f[h], y, S, z) => Sep(e[h], y, S, z)
    /\ \A h \in Games : \A y, S : First(f[h], y, S) => First(e[h], y, S)
    /\ \A h \in Games : \A y, S : Stands(f[h], y, S) /\ x # y => Stands(e[h], y, S)
    /\ \A h \in Games : \A y, S : Stands(f[h], y, S) => Stands(e[h], y, S) \/ ~Has(e[h], S) \/ h # g
    /\ \A h \in Games : \A y, z : Unled(f[h], y, z) => Unled(e[h], y, z)

(* What is known of the packet, and of the queue it has left.              *)
Took(r, q, x) ==
    /\ Has(q, {x})
    /\ \A S : Followed(q, x, S) => Has(r, S)
    /\ \A S, y : Sep(q, x, S, y) => Led(r, S, y)
    /\ \A S, y : Led(q, S, y) => x # y
    /\ \A y, S : First(q, y, S) /\ x \in S /\ Has(q, {y}) => x = y
    /\ \A S : First(q, x, S) /\ x \in S => ~Has(r, {x})
    /\ \A S : Stands(q, x, S) => Stands(r, x, S) \/ ~Has(r, S)
    /\ \A y : Unled(q, x, y) => ~Has(r, {y})

Pops(T, e, f, g, x) ==
    f \in [Games -> Seq(T)] /\ g \in Games /\ f[g] # <<>> /\ x = Head(f[g])
    /\ e = [f EXCEPT ![g] = Tail(f[g])]

LEMMA OneTaken ==
    ASSUME NEW T, NEW f, NEW g, NEW e, NEW x, Pops(T, e, f, g, x)
    PROVE  e \in [Games -> Seq(T)] /\ x \in T /\ Takes(e, f, g, x) /\ Took(e[g], f[g], x)
<1> USE DEF Pops
<1>1. e \in [Games -> Seq(T)] /\ e[g] = Tail(f[g]) /\ (\A h \in Games : h # g => e[h] = f[h]) /\ x \in T
  BY HeadTailProperties
<1> SUFFICES ASSUME NEW h \in Games
    PROVE  /\ \A S : Has(e[h], S) => Has(f[h], S)
           /\ \A S : Has(f[h], S) /\ x \notin S => Has(e[h], S)
           /\ \A y, S : Followed(f[h], y, S) => Followed(e[h], y, S)
           /\ \A y, S : Led(f[h], S, y) /\ x \notin S => Led(e[h], S, y)
           /\ \A y, z, S : Sep(f[h], y, S, z) => Sep(e[h], y, S, z)
           /\ \A y, S : First(f[h], y, S) => First(e[h], y, S)
           /\ \A y, S : Stands(f[h], y, S) /\ x # y => Stands(e[h], y, S)
           /\ \A y, S : Stands(f[h], y, S) => Stands(e[h], y, S) \/ ~Has(e[h], S) \/ h # g
           /\ \A y, z : Unled(f[h], y, z) => Unled(e[h], y, z)
  <2>1. Took(e[g], f[g], x)
    <3> DEFINE q == f[g]
    <3>1. q \in Seq(T) /\ q # <<>> /\ x = Head(q) /\ e[g] = Tail(q)
      BY <1>1
    <3> HIDE DEF q
    <3>2. /\ \A S : Has(q, S) <=> Has(Tail(q), S) \/ Head(q) \in S
          /\ \A y, S : Head(q) = y /\ Followed(q, y, S) => Has(Tail(q), S)
          /\ \A y, S, z : Sep(q, y, S, z) /\ Head(q) = y => Led(Tail(q), S, z)
          /\ \A S, y : Led(q, S, y) => Head(q) # y
          /\ \A y, S : First(q, y, S) /\ Head(q) \in S /\ Has(q, {y}) => Head(q) = y
          /\ \A y, S : First(q, y, S) /\ y \in S /\ Head(q) = y => ~Has(Tail(q), {y})
          /\ \A y, S : Stands(q, y, S) => Stands(Tail(q), y, S) \/ ~Has(Tail(q), S)
          /\ \A y, z : Unled(q, z, y) /\ Head(q) = z => ~Has(Tail(q), {y})
      BY <3>1, Taken1
    <3>3. Took(Tail(q), q, x)
      BY <3>1, <3>2 DEF Took
    <3> QED  BY <3>1, <3>3 DEF q
  <2> QED  BY <1>1, <2>1 DEF Takes
<1> DEFINE q == f[h]
<1>3. CASE h = g
  <2>1. e[h] = Tail(q) /\ q \in Seq(T) /\ q # <<>> /\ x = Head(q)
    BY <1>1, <1>3
  <2>2. /\ \A S : Has(q, S) <=> Has(Tail(q), S) \/ Head(q) \in S
        /\ \A y, S : Followed(q, y, S) => Followed(Tail(q), y, S)
        /\ \A S, y : Led(q, S, y) /\ Head(q) \notin S => Led(Tail(q), S, y)
        /\ \A y, S, z : Sep(q, y, S, z) => Sep(Tail(q), y, S, z)
        /\ \A y, S : First(q, y, S) => First(Tail(q), y, S)
        /\ \A y, S : Stands(q, y, S) /\ Head(q) # y => Stands(Tail(q), y, S)
        /\ \A y, S : Stands(q, y, S) => Stands(Tail(q), y, S) \/ ~Has(Tail(q), S)
        /\ \A y, z : Unled(q, z, y) => Unled(Tail(q), z, y)
    BY <2>1, Taken1
  <2> HIDE DEF q
  <2>3. q = f[h]
    BY DEF q
  <2> QED  BY <2>1, <2>2, <2>3
<1>4. CASE h # g
  <2>1. e[h] = f[h]
    BY <1>1, <1>4
  <2> QED  BY <1>4, <2>1
<1> QED  BY <1>3, <1>4

(* e is f, but for the queues of the games in B, which have z at the end.  *)
Gives(e, f, B, z) ==
    /\ \A h \in Games : h \notin B => e[h] = f[h]
    /\ \A h \in Games : \A S : Has(e[h], S) <=> Has(f[h], S) \/ (h \in B /\ z \in S)
    /\ \A h \in Games : \A y, S : Followed(f[h], y, S) /\ (h \in B => z # y) => Followed(e[h], y, S)
    /\ \A h \in Games : \A y, S : h \in B /\ z \in S /\ z # y => Followed(e[h], y, S)
    /\ \A h \in Games : \A y, S : Led(f[h], S, y) /\ (h \in B /\ z = y => Has(f[h], S)) => Led(e[h], S, y)
    /\ \A h \in Games : \A y, w, S : Sep(f[h], y, S, w) /\ (h \in B /\ z = w => Followed(f[h], y, S))
                                    => Sep(e[h], y, S, w)
    /\ \A h \in Games : \A y, S : First(f[h], y, S) /\ (h \in B /\ z = y => ~Has(f[h], S)) => First(e[h], y, S)
    /\ \A h \in Games : \A y, S : Stands(f[h], y, S) /\ (h \in B => z \notin S) => Stands(e[h], y, S)
    /\ \A h \in Games : \A S : h \in B => Stands(e[h], z, S)
    /\ \A h \in Games : \A y, w : Unled(f[h], y, w) /\ (h \in B /\ z = w => ~Has(f[h], {y})) => Unled(e[h], y, w)

Puts(T, e, f, B, z) ==
    f \in [Games -> Seq(T)] /\ z \in T
    /\ e = [h \in Games |-> IF h \in B THEN Append(f[h], z) ELSE f[h]]

LEMMA OneGiven ==
    ASSUME NEW T, NEW f, NEW B, NEW e, NEW z, Puts(T, e, f, B, z)
    PROVE  e \in [Games -> Seq(T)] /\ Gives(e, f, B, z)
<1> USE DEF Puts
<1>1. \A h \in Games : f[h] \in Seq(T) /\ Append(f[h], z) \in Seq(T)
  BY AppendProperties
<1>2. e \in [Games -> Seq(T)]
  BY <1>1
<1> SUFFICES ASSUME NEW h \in Games
    PROVE  /\ h \notin B => e[h] = f[h]
           /\ \A S : Has(e[h], S) <=> Has(f[h], S) \/ (h \in B /\ z \in S)
           /\ \A y, S : Followed(f[h], y, S) /\ (h \in B => z # y) => Followed(e[h], y, S)
           /\ \A y, S : h \in B /\ z \in S /\ z # y => Followed(e[h], y, S)
           /\ \A y, S : Led(f[h], S, y) /\ (h \in B /\ z = y => Has(f[h], S)) => Led(e[h], S, y)
           /\ \A y, w, S : Sep(f[h], y, S, w) /\ (h \in B /\ z = w => Followed(f[h], y, S))
                              => Sep(e[h], y, S, w)
           /\ \A y, S : First(f[h], y, S) /\ (h \in B /\ z = y => ~Has(f[h], S)) => First(e[h], y, S)
           /\ \A y, S : Stands(f[h], y, S) /\ (h \in B => z \notin S) => Stands(e[h], y, S)
           /\ \A S : h \in B => Stands(e[h], z, S)
           /\ \A y, w : Unled(f[h], y, w) /\ (h \in B /\ z = w => ~Has(f[h], {y})) => Unled(e[h], y, w)
  BY <1>2 DEF Gives
<1> DEFINE q == f[h]
<1>3. CASE h \in B
  <2>1. e[h] = Append(q, z) /\ q \in Seq(T)
    BY <1>1, <1>3
  <2>2. /\ \A S : Has(Append(q, z), S) <=> Has(q, S) \/ z \in S
        /\ \A x, S : z # x /\ Followed(q, x, S) => Followed(Append(q, z), x, S)
        /\ \A x, S : z # x /\ z \in S => Followed(Append(q, z), x, S)
        /\ \A S, y : Led(q, S, y) /\ (z = y => Has(q, S)) => Led(Append(q, z), S, y)
        /\ \A x, S, y : Sep(q, x, S, y) /\ (z = y => Followed(q, x, S)) => Sep(Append(q, z), x, S, y)
        /\ \A x, S : First(q, x, S) /\ (z = x => ~Has(q, S)) => First(Append(q, z), x, S)
        /\ \A x, S : Stands(q, x, S) /\ z \notin S => Stands(Append(q, z), x, S)
        /\ \A S : Stands(Append(q, z), z, S)
        /\ \A x, y : Unled(q, y, x) /\ (z = x => ~Has(q, {y})) => Unled(Append(q, z), y, x)
    BY <2>1, Added1
  <2> HIDE DEF q
  <2>3. q = f[h]
    BY DEF q
  <2> QED  BY <1>3, <2>1, <2>2, <2>3
<1>4. CASE h \notin B
  <2>1. e[h] = f[h]
    BY <1>4
  <2> QED  BY <1>4, <2>1
<1> QED  BY <1>3, <1>4

(* The db reads a packet in vain: it changes nothing of who is in what.    *)
LEMMA VainKeeps ==
    ASSUME NEW pt, NEW wh, NEW ln, NEW db, NEW td, NEW tg, PartyInv(pt, wh, ln, db, td, tg),
           NEW g \in Games, NEW x, NEW e, Pops(ToDbPackets, e, td, g, x), NEW db2,
           DOMAIN db2 = DOMAIN db, \A l, p \in Players : InDb(db2, l, p) <=> InDb(db, l, p),
           \A l \in Players : x # Created(l),
           \A l, p \in Players : x \in Ends(l, p) => ~InDb(db, l, p),
           \A l, p \in Players : x = Start(l, p) => InDb(db, l, p) \/ l \notin DOMAIN db
    PROVE  PartyInv(pt, wh, ln, db2, e, tg)
<1>t. Types(pt, wh, db, td, tg)
  BY DEF PartyInv
<1>g. e \in [Games -> Seq(ToDbPackets)] /\ Takes(e, td, g, x) /\ Took(e[g], td[g], x)
  BY OneTaken
<1>e. /\ e \in [Games -> Seq(ToDbPackets)]
      /\ \A h \in Games : \A S : Has(e[h], S) => Has(td[h], S)
      /\ \A h \in Games : \A S : Has(td[h], S) /\ x \notin S => Has(e[h], S)
      /\ \A h \in Games : \A y, S : Followed(td[h], y, S) => Followed(e[h], y, S)
      /\ \A h \in Games : \A y, S : Led(td[h], S, y) /\ x \notin S => Led(e[h], S, y)
      /\ \A h \in Games : \A y, z, S : Sep(td[h], y, S, z) => Sep(e[h], y, S, z)
      /\ \A h \in Games : \A y, S : First(td[h], y, S) => First(e[h], y, S)
      /\ \A h \in Games : h # g => e[h] = td[h]
  BY <1>g DEF Takes
<1>1. Types(pt, wh, db2, e, tg)
  BY <1>t, <1>e DEF Types
<1>2. Loads(wh, tg) /\ Lead(pt) /\ Links(pt, wh, ln) /\ Heard(pt, tg) /\ NoClash(pt, tg)
  BY DEF PartyInv
<1>3. Kinds(e, tg)
  BY <1>e DEF PartyInv, Kinds
<1>4. Logouts(wh, e, tg)
  BY <1>e DEF PartyInv, Logouts
<1>5. Sent(wh, e)
  BY <1>e DEF PartyInv, Sent, Stays
<1>6. Told(wh, e, tg)
  <2> SUFFICES ASSUME NEW h \in Games, NEW l \in Players, NEW p \in Players
      PROVE  /\ Has(tg[h], {Start(l, p)}) =>
                   /\ Away(wh, e[h], tg[h], l, h, Start(l, p))
                   /\ Away(wh, e[h], tg[h], p, h, Start(l, p))
             /\ Has(tg[h], {Removed(l, p)}) =>
                   \/ Away(wh, e[h], tg[h], l, h, Removed(l, p))
                   \/ Away(wh, e[h], tg[h], p, h, Removed(l, p))
    BY DEF Told
  <2>1. \A y, z : Away(wh, td[h], tg[h], y, h, z) => Away(wh, e[h], tg[h], y, h, z)
    BY <1>e DEF Away
  <2>2. Told(wh, td, tg)
    BY DEF PartyInv
  <2> QED  BY <2>1, <2>2 DEF Told
<1>7. Founded(pt, db2, e, tg)
  BY <1>e DEF PartyInv, Founded
<1>8. Over(pt, db2, e, tg)
  BY <1>e DEF PartyInv, Over
<1>9. Rejoined(pt, e)
  BY <1>e DEF PartyInv, Rejoined
<1>10. OneInDb(db2)
  BY DEF PartyInv, OneInDb
<1>d. \A l \in Players : Dead(db, td, l) => Dead(db2, e, l)
  BY <1>e DEF Dead
<1>11. Ordered(db2, e)
  BY <1>e, <1>d DEF PartyInv, Ordered
<1>12. Known(pt, db2, e, tg)
  BY <1>e DEF PartyInv, Known
<1>13. Own(pt, db2, e, tg)
  BY <1>e, <1>d DEF PartyInv, Own
<1>14. Right(pt, db2, e, tg)
  <2> SUFFICES ASSUME NEW h \in Games, NEW l \in Players, NEW p \in Players, pt[h][p] = l
               PROVE  InDb(db, l, p) \/ Has(tg[h], Ends(l, p)) \/ Has(e[h], {Start(l, p)})
    BY DEF Right
  <2>1. InDb(db, l, p) \/ Has(tg[h], Ends(l, p)) \/ Has(td[h], {Start(l, p)})
    BY DEF PartyInv, Right
  <2>2. CASE Has(td[h], {Start(l, p)}) /\ x # Start(l, p)
    BY <1>e, <2>2
  <2>3. CASE x = Start(l, p) /\ Has(td[h], {Start(l, p)})
    <3>1. InDb(db, l, p) \/ l \notin DOMAIN db
      BY <2>3
    <3>2. CASE l \notin DOMAIN db
      <4>1. pt[h][l] = l
        BY DEF PartyInv, Lead
      <4>2. ~InDb(db, l, l)
        BY <3>2 DEF InDb
      <4>3. Has(tg[h], Ends(l, l)) \/ Has(td[h], {Created(l)})
        <5>1. InDb(db, l, l) \/ Has(tg[h], Ends(l, l)) \/ Has(td[h], {Start(l, l)})
          BY <4>1 DEF PartyInv, Right
        <5>2. Start(l, l) = Created(l)
          BY Names
        <5> QED  BY <4>2, <5>1, <5>2
      <4>4. ~Has(td[h], {Created(l)})
        <5> SUFFICES ASSUME Has(td[h], {Created(l)}) PROVE FALSE
          OBVIOUS
        <5>1. First(td[h], Created(l), Named(l)) /\ \A k \in Games \ {h} : ~Has(td[k], Named(l))
          BY DEF PartyInv, Founded
        <5>2. x \in Named(l) /\ Has(td[g], {x})
          <6>1. x \in Named(l)  BY <2>3, Names
          <6>2. Has(td[g], {x})  BY <1>g DEF Took
          <6> QED  BY <6>1, <6>2
        <5>3. Has(td[g], Named(l))
          BY <5>2, Absent1
        <5>4. g = h
          BY <5>1, <5>3
        <5>5. x = Created(l)
          BY <1>g, <5>1, <5>2, <5>4 DEF Took
        <5> QED  BY <5>5
      <4>5. Has(tg[h], {Deleted(l)})
        BY <4>3, <4>4, EndsAre DEF PartyInv, Kinds
      <4> QED  BY <4>5, EndsAre
    <3> QED  BY <3>1, <3>2
  <2> QED  BY <2>1, <2>2, <2>3
<1>15. Rightly(pt, db2, tg)
  BY DEF PartyInv, Rightly
<1> QED
  BY <1>1, <1>2, <1>3, <1>4, <1>5, <1>6, <1>7, <1>8, <1>9, <1>10, <1>11, <1>12, <1>13, <1>14, <1>15
     DEF PartyInv

(* Who has been at g since a packet under way was sent is nowhere else.    *)
LEMMA StaysPut ==
    ASSUME PartyAssumption, NEW wh, NEW td, NEW tg, Loads(wh, tg), Logouts(wh, td, tg),
           NEW g \in Games, NEW p \in Players, NEW y,
           Stays(wh, td[g], p, g, y), Has(td[g], {y})
    PROVE  /\ \A h \in Games : ~Has(tg[h], {Loaded(p)})
           /\ \A h \in Games : h # g => wh[p] # h /\ ~Has(td[h], {LoggedOut(p)})
           /\ \A h \in Games : \A z : h # g /\ Has(td[h], {z}) => ~Stays(wh, td[h], p, h, z)
           /\ \A z : ~Away(wh, td[g], tg[g], p, g, z)
<1>1. wh[p] = g \/ Has(td[g], {LoggedOut(p)})
  BY Absent1 DEF Stays
<1>2. \A h \in Games : ~Has(tg[h], {Loaded(p)})
  BY <1>1 DEF Loads, Logouts, PartyAssumption
<1>3. \A h \in Games : h # g => wh[p] # h /\ ~Has(td[h], {LoggedOut(p)})
  BY <1>1 DEF Logouts, PartyAssumption
<1>4. \A h \in Games : \A z : h # g /\ Has(td[h], {z}) => ~Stays(wh, td[h], p, h, z)
  BY <1>3, Absent1 DEF Stays
<1>5. \A z : ~Away(wh, td[g], tg[g], p, g, z)
  BY <1>1 DEF Away
<1> QED  BY <1>2, <1>3, <1>4, <1>5

(* The db makes p a member of l's party, and the other games are told.     *)
LEMMA StartKeeps ==
    ASSUME PartyAssumption,
           NEW pt, NEW wh, NEW ln, NEW db, NEW td, NEW tg, PartyInv(pt, wh, ln, db, td, tg),
           NEW g \in Games, NEW l0 \in Players, NEW p0 \in Players,
           NEW e, Pops(ToDbPackets, e, td, g, Start(l0, p0)),
           NEW r, Puts(ToGamePackets, r, tg, Games \ {g}, Start(l0, p0)),
           p0 # l0 => l0 \in DOMAIN db,
           NEW db2, \A l : l \in DOMAIN db2 <=> l \in DOMAIN db \/ l = l0,
           \A l, p \in Players : InDb(db2, l, p) <=> InDb(db, l, p) \/ (l = l0 /\ p = p0)
    PROVE  PartyInv(pt, wh, ln, db2, e, r)
<1> DEFINE x == Start(l0, p0)
<1>x. /\ \A m, o \in Players : x = Start(m, o) <=> m = l0 /\ o = p0
      /\ \A m, o \in Players : x \notin Ends(m, o) /\ x # Deleted(m) /\ x # Removed(m, o)
      /\ \A m \in Players : x # LoggedOut(m) /\ x # Loaded(m)
      /\ \A m \in Players : x \in Named(m) <=> m = l0
      /\ \A m \in Players : x = Created(m) <=> m = l0 /\ m = p0
  BY StartIs
<1>p. Pops(ToDbPackets, e, td, g, x) /\ Puts(ToGamePackets, r, tg, Games \ {g}, x)
  OBVIOUS
<1>s. \A m, o \in Players : \A n, i \in Players : Start(m, o) = Start(n, i) => m = n /\ o = i
  BY Names
<1> HIDE DEF x
<1>g. e \in [Games -> Seq(ToDbPackets)] /\ Takes(e, td, g, x) /\ Took(e[g], td[g], x)
  BY <1>p, OneTaken
<1>h. r \in [Games -> Seq(ToGamePackets)] /\ Gives(r, tg, Games \ {g}, x)
  BY <1>p, OneGiven
<1>e. /\ \A h \in Games : h # g => e[h] = td[h]
      /\ \A h \in Games : \A S : Has(e[h], S) => Has(td[h], S)
      /\ \A h \in Games : \A S : Has(td[h], S) /\ x \notin S => Has(e[h], S)
      /\ \A h \in Games : \A y, S : Followed(td[h], y, S) => Followed(e[h], y, S)
      /\ \A h \in Games : \A y, S : Led(td[h], S, y) /\ x \notin S => Led(e[h], S, y)
      /\ \A h \in Games : \A y, z, S : Sep(td[h], y, S, z) => Sep(e[h], y, S, z)
      /\ \A h \in Games : \A y, S : First(td[h], y, S) => First(e[h], y, S)
  BY <1>g DEF Takes
<1>k. /\ Has(td[g], {x})
      /\ \A S : Followed(td[g], x, S) => Has(e[g], S)
      /\ \A S, y : Sep(td[g], x, S, y) => Led(e[g], S, y)
      /\ \A S, y : Led(td[g], S, y) => x # y
      /\ \A S : First(td[g], x, S) /\ x \in S => ~Has(e[g], {x})
  BY <1>g DEF Took
<1>r. /\ r[g] = tg[g]
      /\ \A h \in Games : \A S : Has(r[h], S) <=> Has(tg[h], S) \/ (h # g /\ x \in S)
      /\ \A h \in Games : \A y, S : Followed(tg[h], y, S) /\ (h # g => x # y) => Followed(r[h], y, S)
      /\ \A h \in Games : \A y, S : Led(tg[h], S, y) /\ (h # g /\ x = y => Has(tg[h], S)) => Led(r[h], S, y)
      /\ \A h \in Games : \A y, w, S : Sep(tg[h], y, S, w) /\ (h # g /\ x = w => Followed(tg[h], y, S))
                                    => Sep(r[h], y, S, w)
      /\ \A h \in Games : \A y, S : First(tg[h], y, S) /\ (h # g /\ x = y => ~Has(tg[h], S)) => First(r[h], y, S)
      /\ \A h \in Games : \A y, S : Stands(tg[h], y, S) /\ (h # g => x \notin S) => Stands(r[h], y, S)
      /\ \A h \in Games : \A S : h # g => Stands(r[h], x, S)
      /\ \A h \in Games : \A y, w : Unled(tg[h], y, w) /\ (h # g /\ x = w => ~Has(tg[h], {y})) => Unled(r[h], y, w)
  <2>1. \A h \in Games : h \in Games \ {g} <=> h # g
    OBVIOUS
  <2> QED  BY <1>h, <2>1 DEF Gives
<1>t. Types(pt, wh, db, td, tg)
  BY DEF PartyInv
<1>l. /\ Stays(wh, td[g], l0, g, x) /\ Stays(wh, td[g], p0, g, x)
      /\ \A h \in Games : ~Has(tg[h], {Loaded(l0)}) /\ ~Has(tg[h], {Loaded(p0)})
      /\ \A h \in Games : h # g => /\ wh[l0] # h /\ ~Has(td[h], {LoggedOut(l0)})
                                   /\ wh[p0] # h /\ ~Has(td[h], {LoggedOut(p0)})
      /\ \A h \in Games, l \in Players : h # g => ~Has(td[h], {Start(l, p0)})
  <2>1. Stays(wh, td[g], l0, g, x) /\ Stays(wh, td[g], p0, g, x)
    BY DEF PartyInv, Sent, x
  <2>2. Loads(wh, tg) /\ Logouts(wh, td, tg)
    BY DEF PartyInv
  <2>3. /\ \A h \in Games : ~Has(tg[h], {Loaded(l0)})
        /\ \A h \in Games : h # g => wh[l0] # h /\ ~Has(td[h], {LoggedOut(l0)})
    BY <2>1, <2>2, <1>k, StaysPut
  <2>4. /\ \A h \in Games : ~Has(tg[h], {Loaded(p0)})
        /\ \A h \in Games : h # g => wh[p0] # h /\ ~Has(td[h], {LoggedOut(p0)})
        /\ \A h \in Games : \A z : h # g /\ Has(td[h], {z}) => ~Stays(wh, td[h], p0, h, z)
    BY <2>1, <2>2, <1>k, StaysPut
  <2>5. \A h \in Games, l \in Players : h # g => ~Has(td[h], {Start(l, p0)})
    BY <2>4 DEF PartyInv, Sent
  <2> QED  BY <2>1, <2>3, <2>4, <2>5
<1>o. \A l \in Players : l # l0 => ~InDb(db, l, p0)
  <2>1. Ordered(db, td)
    BY DEF PartyInv
  <2> QED  BY <2>1, <1>k DEF Ordered, x
<1>c. p0 = l0 => /\ l0 \notin DOMAIN db /\ First(td[g], x, Named(l0)) /\ ~Has(e[g], {x})
                 /\ \A h \in Games : ~Has(tg[h], Named(l0))
                 /\ \A h \in Games : h # g => ~Has(td[h], Named(l0)) /\ pt[h][l0] # l0
  <2>1. p0 = l0 => x = Created(l0)
    BY <1>x
  <2> SUFFICES ASSUME p0 = l0 PROVE /\ l0 \notin DOMAIN db /\ First(td[g], x, Named(l0)) /\ ~Has(e[g], {x})
                 /\ \A h \in Games : /\ ~Has(tg[h], Named(l0))
                                     /\ h # g => ~Has(td[h], Named(l0)) /\ pt[h][l0] # l0
    OBVIOUS
  <2>3. Founded(pt, db, td, tg) /\ Has(td[g], {Created(l0)})
    BY <1>k, <2>1 DEF PartyInv
  <2>4. /\ l0 \notin DOMAIN db /\ First(td[g], x, Named(l0))
        /\ \A h \in Games : ~Has(tg[h], Named(l0))
        /\ \A h \in Games \ {g} : ~Has(td[h], Named(l0)) /\ pt[h][l0] # l0
    BY <2>1, <2>3 DEF Founded
  <2>5. ~Has(e[g], {x})
    BY <2>4, <1>k, <1>x
  <2> QED  BY <2>4, <2>5
<1>d. \A l \in Players : Dead(db, td, l) => Dead(db2, e, l)
  <2>1. ~Dead(db, td, l0)
    BY <1>k, <1>x DEF Dead
  <2> QED  BY <2>1, <1>e DEF Dead
<1>1. Types(pt, wh, db2, e, r)
  BY <1>t, <1>g, <1>h DEF Types
<1>2. Loads(wh, r) /\ Lead(pt) /\ Links(pt, wh, ln)
  BY <1>r, <1>x DEF PartyInv, Loads
<1>3. Kinds(e, r)
  BY <1>e, <1>r, <1>x DEF PartyInv, Kinds
<1>4. Logouts(wh, e, r)
  BY <1>e, <1>r, <1>x DEF PartyInv, Logouts
<1>5. Sent(wh, e)
  BY <1>e DEF PartyInv, Sent, Stays
<1>6. Told(wh, e, r)
  <2>1. \A h \in Games, y \in Players : \A z : Away(wh, td[h], tg[h], y, h, z) /\ z # x =>
           Away(wh, e[h], r[h], y, h, z)
    BY <1>e, <1>r DEF Away
  <2>2. \A h \in Games : \A z : h # g => /\ Away(wh, e[h], r[h], l0, h, z) /\ Away(wh, e[h], r[h], p0, h, z)
    <3> SUFFICES ASSUME NEW h \in Games, NEW z, h # g
                 PROVE  Away(wh, e[h], r[h], l0, h, z) /\ Away(wh, e[h], r[h], p0, h, z)
      OBVIOUS
    <3>1. ~Has(r[h], {Loaded(l0)}) /\ ~Has(r[h], {Loaded(p0)})
      <4>1. ~Has(tg[h], {Loaded(l0)}) /\ ~Has(tg[h], {Loaded(p0)})
        BY <1>l
      <4>2. Has(r[h], {Loaded(l0)}) => Has(tg[h], {Loaded(l0)}) \/ x = Loaded(l0)
        BY <1>r
      <4>3. Has(r[h], {Loaded(p0)}) => Has(tg[h], {Loaded(p0)}) \/ x = Loaded(p0)
        BY <1>r
      <4> QED  BY <1>x, <4>1, <4>2, <4>3
    <3>2. Unled(r[h], Loaded(l0), z) /\ Unled(r[h], Loaded(p0), z)
      BY <3>1, Absent1
    <3> QED  BY <3>2, <1>l, <1>e DEF Away
  <2>3. ~Has(tg[g], {x})
    <3>1. ~Away(wh, td[g], tg[g], l0, g, x)
      BY <1>l, <1>k, StaysPut DEF PartyInv
    <3> QED  BY <3>1 DEF PartyInv, Told, x
  <2>4. Told(wh, td, tg)
    BY DEF PartyInv
  <2> SUFFICES ASSUME NEW h \in Games, NEW l \in Players, NEW p \in Players
      PROVE  /\ Has(r[h], {Start(l, p)}) =>
                   /\ Away(wh, e[h], r[h], l, h, Start(l, p))
                   /\ Away(wh, e[h], r[h], p, h, Start(l, p))
             /\ Has(r[h], {Removed(l, p)}) =>
                   \/ Away(wh, e[h], r[h], l, h, Removed(l, p))
                   \/ Away(wh, e[h], r[h], p, h, Removed(l, p))
    BY DEF Told
  <2>5. Has(r[h], {Removed(l, p)}) =>
                   \/ Away(wh, e[h], r[h], l, h, Removed(l, p))
                   \/ Away(wh, e[h], r[h], p, h, Removed(l, p))
    <3>1. Removed(l, p) # x
      BY <1>x
    <3>2. Has(r[h], {Removed(l, p)}) => Has(tg[h], {Removed(l, p)})
      BY <3>1, <1>r
    <3>3. Has(tg[h], {Removed(l, p)}) =>
             Away(wh, td[h], tg[h], l, h, Removed(l, p)) \/ Away(wh, td[h], tg[h], p, h, Removed(l, p))
      BY <2>4 DEF Told
    <3>4. \A y \in Players : Away(wh, td[h], tg[h], y, h, Removed(l, p)) => Away(wh, e[h], r[h], y, h, Removed(l, p))
      BY <3>1, <2>1
    <3> QED  BY <3>2, <3>3, <3>4
  <2>6. CASE Start(l, p) # x
    BY <2>1, <2>4, <2>5, <2>6, <1>r DEF Told
  <2>7. CASE Start(l, p) = x
    <3>1. l = l0 /\ p = p0
      BY <1>x, <2>7
    <3>2. Has(r[h], {x}) => h # g
      BY <1>r, <2>3
    <3> QED  BY <2>2, <2>5, <2>7, <3>1, <3>2
  <2> QED  BY <2>6, <2>7
<1>7. Founded(pt, db2, e, r)
  <2> SUFFICES ASSUME NEW k \in Games, NEW l \in Players, Has(e[k], {Created(l)})
      PROVE  /\ l \notin DOMAIN db2 /\ First(e[k], Created(l), Named(l))
             /\ \A h \in Games : ~Has(r[h], Named(l))
             /\ \A h \in Games \ {k} : ~Has(e[h], Named(l)) /\ pt[h][l] # l
    BY DEF Founded
  <2>1. Has(td[k], {Created(l)}) /\ Founded(pt, db, td, tg)
    BY <1>e DEF PartyInv
  <2>2. /\ l \notin DOMAIN db /\ First(td[k], Created(l), Named(l))
        /\ \A h \in Games : ~Has(tg[h], Named(l))
        /\ \A h \in Games \ {k} : ~Has(td[h], Named(l)) /\ pt[h][l] # l
    BY <2>1 DEF Founded
  <2>3. ASSUME l = l0 PROVE FALSE
    <3>1. p0 = l0
      BY <2>2, <2>3
    <3>2. x = Created(l)
      BY <1>x, <2>3, <3>1
    <3>3. k = g
      BY <1>k, <1>x, <2>2, <2>3, Absent1
    <3> QED  BY <1>c, <3>1, <3>2, <3>3
  <2> QED  BY <2>2, <2>3, <1>e, <1>r, <1>x
<1>b. \A h \in Games, l \in Players : Doomed(pt[h], tg[h], l) =>
         Doomed(pt[h], r[h], l) \/ (l = l0 /\ p0 = l0 /\ h # g)
  BY <1>r, <1>x DEF Doomed
<1>n. \A l \in Players : Deleted(l) \in Named(l)
  BY Names
<1>8. Over(pt, db2, e, r)
  <2> SUFFICES ASSUME NEW h \in Games, NEW l \in Players
      PROVE  /\ Has(r[h], {Deleted(l)}) => l \notin DOMAIN db2
             /\ Has(e[h], {Deleted(l)}) => Doomed(pt[h], r[h], l)
    BY DEF Over
  <2>1. /\ Has(tg[h], {Deleted(l)}) => l \notin DOMAIN db
        /\ Has(td[h], {Deleted(l)}) => Doomed(pt[h], tg[h], l)
    BY DEF PartyInv, Over
  <2>2. Has(r[h], {Deleted(l)}) => Has(tg[h], {Deleted(l)})
    BY <1>r, <1>x
  <2>3. Has(tg[h], {Deleted(l)}) => l \notin DOMAIN db2
    <3>1. Has(tg[h], {Deleted(l)}) => Has(tg[h], Named(l))
      BY <1>n, Absent1
    <3> QED  BY <2>1, <3>1, <1>c
  <2>4. Has(td[h], {Deleted(l)}) => Has(td[h], Named(l))
    BY <1>n, Absent1
  <2>5. Has(e[h], {Deleted(l)}) => Doomed(pt[h], r[h], l)
    BY <2>1, <2>4, <1>e, <1>b, <1>c
  <2> QED  BY <2>2, <2>3, <2>5
<1>9. Rejoined(pt, e)
  BY <1>e DEF PartyInv, Rejoined
<1>10. OneInDb(db2)
  BY <1>o DEF PartyInv, OneInDb
<1>11. Ordered(db2, e)
  <2> SUFFICES ASSUME NEW h \in Games, NEW l \in Players, NEW m \in Players, NEW p \in Players, l # m
      PROVE  /\ InDb(db2, l, p) => Led(e[h], Ends(l, p), Start(m, p))
             /\ Dead(db2, e, l) \/ Sep(e[h], Start(l, p), Ends(l, p), Start(m, p))
    BY DEF Ordered
  <2>1. /\ InDb(db, l, p) => Led(td[h], Ends(l, p), Start(m, p))
        /\ Dead(db, td, l) \/ Sep(td[h], Start(l, p), Ends(l, p), Start(m, p))
    BY DEF PartyInv, Ordered
  <2>2. Dead(db2, e, l) \/ Sep(e[h], Start(l, p), Ends(l, p), Start(m, p))
    BY <2>1, <1>d, <1>e
  <2>3. InDb(db, l, p) => Led(e[h], Ends(l, p), Start(m, p))
    BY <2>1, <1>e, <1>x
  <2>4. ASSUME l = l0, p = p0 PROVE Led(e[h], Ends(l, p), Start(m, p))
    <3>1. CASE h = g
      <4>1. ~Dead(db, td, l0)
        BY <1>k, <1>x DEF Dead
      <4> QED  BY <1>k, <2>1, <2>4, <3>1, <4>1 DEF x
    <3>2. CASE h # g
      <4>1. ~Has(e[h], {Start(m, p)})
        BY <1>e, <1>l, <2>4, <3>2
      <4> QED  BY <4>1, Absent1
    <3> QED  BY <3>1, <3>2
  <2> QED  BY <2>2, <2>3, <2>4
<1>12. Known(pt, db2, e, r)
  <2> SUFFICES ASSUME NEW h \in Games, NEW l \in Players, NEW p \in Players, InDb(db2, l, p)
      PROVE  \/ Stands(r[h], Start(l, p), Ends(l, p))
             \/ pt[h][p] = l /\ ~Has(r[h], Ends(l, p))
             \/ Has(e[h], Ends(l, p))
    BY DEF Known
  <2>0. x \notin Ends(l, p)
    BY <1>x
  <2>1. CASE InDb(db, l, p)
    <3>1. \/ Stands(tg[h], Start(l, p), Ends(l, p))
          \/ pt[h][p] = l /\ ~Has(tg[h], Ends(l, p))
          \/ Has(td[h], Ends(l, p))
      BY <2>1 DEF PartyInv, Known
    <3> QED  BY <3>1, <2>0, <1>e, <1>r
  <2>2. CASE l = l0 /\ p = p0
    <3>1. CASE h # g
      <4>1. Start(l, p) = x
        BY <2>2 DEF x
      <4> QED  BY <1>r, <3>1, <4>1
    <3>2. CASE h = g
      <4>1. ~Dead(db, td, l0)
        BY <1>k, <1>x DEF Dead
      <4>2. \/ pt[g][p0] = l0 /\ ~Has(tg[g], Ends(l0, p0))
            \/ Followed(td[g], x, Ends(l0, p0))
        BY <4>1 DEF PartyInv, Own, x
      <4> QED  BY <4>2, <1>k, <1>r, <2>2, <3>2
    <3> QED  BY <3>1, <3>2
  <2> QED  BY <2>1, <2>2
<1>13. Own(pt, db2, e, r)
  BY <1>e, <1>r, <1>x, <1>d DEF PartyInv, Own
<1>14. Right(pt, db2, e, r)
  BY <1>e, <1>r, <1>x DEF PartyInv, Right
<1>15. Rightly(pt, db2, r)
  <2> SUFFICES ASSUME NEW h \in Games, NEW l \in Players, NEW p \in Players, ~InDb(db2, l, p)
      PROVE  Doomed(pt[h], r[h], l) \/ Followed(r[h], Start(l, p), Ends(l, p))
    BY DEF Rightly
  <2>1. Start(l, p) # x /\ ~InDb(db, l, p)
    BY <1>x
  <2>2. Doomed(pt[h], tg[h], l) \/ Followed(tg[h], Start(l, p), Ends(l, p))
    BY <2>1 DEF PartyInv, Rightly
  <2>3. Followed(tg[h], Start(l, p), Ends(l, p)) => Followed(r[h], Start(l, p), Ends(l, p))
    BY <2>1, <1>r
  <2>4. ASSUME l = l0, p0 = l0 PROVE Followed(tg[h], Start(l, p), Ends(l, p))
    <3>1. ~Has(tg[h], Named(l))
      BY <2>4, <1>c
    <3>2. ~Has(tg[h], {Start(l, p)})
      BY <3>1, NoneNamed
    <3> QED  BY <3>2, Absent1
  <2>5. CASE l = l0 /\ p0 = l0
    BY <2>3, <2>4, <2>5
  <2>6. CASE ~(l = l0 /\ p0 = l0)
    <3>1. Doomed(pt[h], tg[h], l) => Doomed(pt[h], r[h], l)
      BY <2>6, <1>b
    <3> QED  BY <2>2, <2>3, <3>1
  <2> QED  BY <2>5, <2>6
<1>16. NoClash(pt, r)
  <2> SUFFICES ASSUME NEW h \in Games, NEW l \in Players, NEW m \in Players, NEW p \in Players, l # m
      PROVE  /\ pt[h][p] = l => Led(r[h], Ends(l, p), Start(m, p))
             /\ Doomed(pt[h], r[h], l) \/ Sep(r[h], Start(l, p), Ends(l, p), Start(m, p))
    BY DEF NoClash
  <2>1. /\ pt[h][p] = l => Led(tg[h], Ends(l, p), Start(m, p))
        /\ Doomed(pt[h], tg[h], l) \/ Sep(tg[h], Start(l, p), Ends(l, p), Start(m, p))
    BY DEF PartyInv, NoClash
  <2>2. ASSUME h # g, x = Start(m, p) PROVE p = p0 /\ l # l0 /\ ~InDb(db, l, p)
    BY <1>o, <1>x, <2>2
  <2>3. ASSUME pt[h][p] = l PROVE Led(r[h], Ends(l, p), Start(m, p))
    <3>1. ASSUME h # g, x = Start(m, p) PROVE Has(tg[h], Ends(l, p))
      <4>1. InDb(db, l, p) \/ Has(tg[h], Ends(l, p)) \/ Has(td[h], {Start(l, p)})
        BY <2>3 DEF PartyInv, Right
      <4> QED  BY <1>l, <2>2, <3>1, <4>1
    <3> QED  BY <2>1, <2>3, <3>1, <1>r
  <2>4. ASSUME h # g, x = Start(m, p), ~Doomed(pt[h], tg[h], l)
        PROVE  Followed(tg[h], Start(l, p), Ends(l, p))
    BY <2>2, <2>4 DEF PartyInv, Rightly
  <2>5. ASSUME l = l0, p0 = l0 PROVE Sep(tg[h], Start(l, p), Ends(l, p), Start(m, p)) /\ x # Start(m, p)
    <3>1. ~Has(tg[h], Named(l))
      BY <2>5, <1>c
    <3>2. ~Has(tg[h], {Start(l, p)})
      BY <3>1, NoneNamed
    <3> QED  BY <3>2, Absent1, <2>5, <1>x
  <2>6. Doomed(pt[h], r[h], l) \/ Sep(r[h], Start(l, p), Ends(l, p), Start(m, p))
    <3>1. CASE l = l0 /\ p0 = l0
      BY <2>5, <3>1, <1>r
    <3>2. CASE ~(l = l0 /\ p0 = l0)
      BY <2>1, <2>4, <3>2, <1>r, <1>b
    <3> QED  BY <3>1, <3>2
  <2> QED  BY <2>3, <2>6
<1>17. Heard(pt, r)
  <2> SUFFICES ASSUME NEW h \in Games, NEW l \in Players, Has(r[h], {Created(l)})
      PROVE  pt[h][l] # l /\ First(r[h], Created(l), Named(l))
    BY DEF Heard
  <2>1. CASE Has(tg[h], {Created(l)})
    <3>1. pt[h][l] # l /\ First(tg[h], Created(l), Named(l))
      BY <2>1 DEF PartyInv, Heard
    <3>2. Has(tg[h], Named(l))
      BY <2>1, Names, Absent1
    <3>3. x # Created(l)
      BY <1>c, <1>x, <3>2
    <3> QED  BY <3>1, <3>3, <1>r
  <2>2. CASE ~Has(tg[h], {Created(l)})
    <3>1. h # g /\ x = Created(l)
      BY <2>2, <1>r
    <3>2. l = l0 /\ p0 = l0
      BY <1>x, <3>1
    <3>3. pt[h][l] # l /\ ~Has(tg[h], Named(l))
      BY <1>c, <3>1, <3>2
    <3>4. First(tg[h], Created(l), Named(l))
      BY <2>2, Absent1
    <3> QED  BY <3>1, <3>3, <3>4, <1>r
  <2> QED  BY <2>1, <2>2
<1> QED
  BY <1>1, <1>2, <1>3, <1>4, <1>5, <1>6, <1>7, <1>8, <1>9, <1>10, <1>11, <1>12, <1>13, <1>14, <1>15, <1>16, <1>17
     DEF PartyInv

(* The db takes p out of l's party, and the other games are told.          *)
LEMMA RemovalKeeps ==
    ASSUME PartyAssumption,
           NEW pt, NEW wh, NEW ln, NEW db, NEW td, NEW tg, PartyInv(pt, wh, ln, db, td, tg),
           NEW g \in Games, NEW l0 \in Players, NEW p0 \in Players, l0 \in DOMAIN db,
           NEW e, Pops(ToDbPackets, e, td, g, Removed(l0, p0)),
           NEW r, Puts(ToGamePackets, r, tg, Games \ {g}, Removed(l0, p0)),
           NEW db2, DOMAIN db2 = DOMAIN db,
           \A l, p \in Players : InDb(db2, l, p) <=> InDb(db, l, p) /\ ~(l = l0 /\ p = p0)
    PROVE  PartyInv(pt, wh, ln, db2, e, r)
<1> DEFINE x == Removed(l0, p0)
<1>x. /\ \A m, o \in Players : x # Start(m, o)
      /\ \A m, o \in Players : x \in Ends(m, o) <=> m = l0 /\ o = p0
      /\ \A m, o \in Players : x = Removed(m, o) <=> m = l0 /\ o = p0
      /\ \A m \in Players : x # LoggedOut(m) /\ x # Loaded(m) /\ x # Created(m) /\ x # Deleted(m)
      /\ \A m \in Players : x \in Named(m) <=> m = l0
  BY RemovedIs
<1>p. Pops(ToDbPackets, e, td, g, x) /\ Puts(ToGamePackets, r, tg, Games \ {g}, x)
  OBVIOUS
<1> HIDE DEF x
<1>e. e \in [Games -> Seq(ToDbPackets)] /\ Takes(e, td, g, x) /\ Took(e[g], td[g], x)
  BY <1>p, OneTaken
<1>r. r \in [Games -> Seq(ToGamePackets)] /\ Gives(r, tg, Games \ {g}, x)
  BY <1>p, OneGiven
<1>n. r[g] = tg[g] /\ \A h \in Games : h # g => Has(r[h], {x})
  BY <1>r DEF Gives
<1>i. \A h \in Games, p \in Players :
         /\ Has(r[h], {Loaded(p)}) => Has(tg[h], {Loaded(p)})
         /\ Has(r[h], {Created(p)}) => Has(tg[h], {Created(p)})
  <2>1. \A h \in Games : \A S : Has(r[h], S) => Has(tg[h], S) \/ x \in S
    BY <1>r DEF Gives
  <2> QED  BY <2>1, <1>x
<1>j. \A h \in Games : \A S : Has(e[h], S) => Has(td[h], S)
  BY <1>e DEF Takes
<1>t. Types(pt, wh, db, td, tg)
  BY DEF PartyInv
<1>k. Has(td[g], {x})
  BY <1>e DEF Took
<1>l. PICK y \in {l0, p0} : Stays(wh, td[g], y, g, x)
  BY DEF PartyInv, Sent, x
<1>s. /\ y \in Players
      /\ \A h \in Games : ~Has(tg[h], {Loaded(y)})
      /\ \A h \in Games : h # g => wh[y] # h /\ ~Has(td[h], {LoggedOut(y)})
      /\ \A h \in Games : \A z : h # g /\ Has(td[h], {z}) => ~Stays(wh, td[h], y, h, z)
      /\ \A z : ~Away(wh, td[g], tg[g], y, g, z)
  <2>1. Loads(wh, tg) /\ Logouts(wh, td, tg) /\ y \in Players
    BY DEF PartyInv
  <2> QED  BY <2>1, <1>l, <1>k, StaysPut
<1>o. \A h \in Games : h # g => ~Has(td[h], {Start(l0, p0)})
  BY <1>s DEF PartyInv, Sent
<1>w. ~Has(tg[g], {Start(l0, p0)})
  BY <1>s DEF PartyInv, Told
<1>c. \A h \in Games : ~Has(td[h], {Created(l0)})
  BY DEF PartyInv, Founded
<1>d. \A l \in Players : Dead(db, td, l) => Dead(db2, e, l)
  BY <1>e DEF Dead, Takes
<1>1. Types(pt, wh, db2, e, r)
  BY <1>t, <1>e, <1>r DEF Types
<1>2. Loads(wh, r) /\ Lead(pt) /\ Links(pt, wh, ln)
  BY <1>i DEF PartyInv, Loads
<1>3. Kinds(e, r)
  <2>1. p0 # l0
    BY <1>k DEF PartyInv, Kinds, x
  <2> QED  BY <2>1, <1>e, <1>r, <1>x DEF PartyInv, Kinds, Takes, Gives
<1>4. Logouts(wh, e, r)
  BY <1>i, <1>j DEF PartyInv, Logouts
<1>5. Sent(wh, e)
  BY <1>e DEF PartyInv, Sent, Stays, Takes
<1>6. Told(wh, e, r)
  <2>1. \A h \in Games, q \in Players : \A z : Away(wh, td[h], tg[h], q, h, z) /\ z # x =>
           Away(wh, e[h], r[h], q, h, z)
    BY <1>e, <1>r DEF Away, Takes, Gives
  <2>0. \A h \in Games, q \in Players : \A z : Away(wh, td[h], tg[h], q, h, z) /\ h = g =>
           Away(wh, e[h], r[h], q, h, z)
    BY <1>e, <1>n DEF Away, Takes
  <2>2. \A h \in Games : h # g => Away(wh, e[h], r[h], y, h, x)
    <3> SUFFICES ASSUME NEW h \in Games, h # g
                 PROVE  Away(wh, e[h], r[h], y, h, x)
      OBVIOUS
    <3>1. ~Has(r[h], {Loaded(y)})
      BY <1>s, <1>i
    <3>2. Unled(r[h], Loaded(y), x)
      BY <3>1, Absent1
    <3>3. wh[y] # h /\ ~Has(e[h], {LoggedOut(y)})
      BY <1>s, <1>e DEF Takes
    <3> QED  BY <3>2, <3>3 DEF Away
  <2>4. Told(wh, td, tg)
    BY DEF PartyInv
  <2> SUFFICES ASSUME NEW h \in Games, NEW l \in Players, NEW p \in Players
      PROVE  /\ Has(r[h], {Start(l, p)}) =>
                   /\ Away(wh, e[h], r[h], l, h, Start(l, p))
                   /\ Away(wh, e[h], r[h], p, h, Start(l, p))
             /\ Has(r[h], {Removed(l, p)}) =>
                   \/ Away(wh, e[h], r[h], l, h, Removed(l, p))
                   \/ Away(wh, e[h], r[h], p, h, Removed(l, p))
    BY DEF Told
  <2>5. Start(l, p) # x /\ (Has(r[h], {Start(l, p)}) => Has(tg[h], {Start(l, p)}))
    BY <1>x, <1>r DEF Gives
  <2>6. Has(r[h], {Start(l, p)}) => /\ Away(wh, e[h], r[h], l, h, Start(l, p))
                                    /\ Away(wh, e[h], r[h], p, h, Start(l, p))
    BY <2>1, <2>4, <2>5 DEF Told
  <2>7. ASSUME Has(tg[h], {Removed(l, p)}), Removed(l, p) # x \/ h = g
        PROVE  \/ Away(wh, e[h], r[h], l, h, Removed(l, p))
               \/ Away(wh, e[h], r[h], p, h, Removed(l, p))
    <3>3. Away(wh, td[h], tg[h], l, h, Removed(l, p)) \/ Away(wh, td[h], tg[h], p, h, Removed(l, p))
      BY <2>4, <2>7 DEF Told
    <3> QED  BY <2>0, <2>1, <2>7, <3>3
  <2>8. CASE Removed(l, p) # x \/ h = g
    <3>1. Has(r[h], {Removed(l, p)}) => Has(tg[h], {Removed(l, p)})
      BY <2>8, <1>r, <1>n DEF Gives
    <3> QED  BY <2>6, <2>7, <2>8, <3>1
  <2>9. CASE Removed(l, p) = x /\ h # g
    <3>1. l = l0 /\ p = p0
      BY <1>x, <2>9
    <3> QED  BY <2>2, <2>6, <2>9, <3>1
  <2> QED  BY <2>8, <2>9
<1>7. Founded(pt, db2, e, r)
  <2>1. \A l \in Players : l # l0 => x \notin Named(l)
    BY <1>x
  <2> SUFFICES ASSUME NEW k \in Games, NEW l \in Players, Has(td[k], {Created(l)})
      PROVE  /\ l \notin DOMAIN db2 /\ First(e[k], Created(l), Named(l))
             /\ \A h \in Games : ~Has(r[h], Named(l))
             /\ \A h \in Games \ {k} : ~Has(e[h], Named(l)) /\ pt[h][l] # l
    BY <1>e DEF Founded, Takes
  <2>2. l # l0
    BY <1>c
  <2>3. /\ l \notin DOMAIN db /\ First(td[k], Created(l), Named(l))
        /\ \A h \in Games : ~Has(tg[h], Named(l))
        /\ \A h \in Games \ {k} : ~Has(td[h], Named(l)) /\ pt[h][l] # l
    BY DEF PartyInv, Founded
  <2> QED  BY <1>e, <1>r, <2>1, <2>2, <2>3 DEF Takes, Gives
<1>8. Over(pt, db2, e, r)
  BY <1>e, <1>r, <1>x DEF PartyInv, Over, Doomed, Takes, Gives
<1>9. Rejoined(pt, e)
  BY <1>e DEF PartyInv, Rejoined, Takes
<1>10. OneInDb(db2)
  BY DEF PartyInv, OneInDb
<1>11. Ordered(db2, e)
  <2> SUFFICES ASSUME NEW h \in Games, NEW l \in Players, NEW m \in Players, NEW p \in Players, l # m
      PROVE  /\ InDb(db2, l, p) => Led(e[h], Ends(l, p), Start(m, p))
             /\ Dead(db2, e, l) \/ Sep(e[h], Start(l, p), Ends(l, p), Start(m, p))
    BY DEF Ordered
  <2>1. /\ InDb(db, l, p) => Led(td[h], Ends(l, p), Start(m, p))
        /\ Dead(db, td, l) \/ Sep(td[h], Start(l, p), Ends(l, p), Start(m, p))
    BY DEF PartyInv, Ordered
  <2>2. Dead(db2, e, l) \/ Sep(e[h], Start(l, p), Ends(l, p), Start(m, p))
    BY <2>1, <1>d, <1>e DEF Takes
  <2>3. InDb(db2, l, p) => x \notin Ends(l, p)
    BY <1>x
  <2> QED  BY <2>1, <2>2, <2>3, <1>e DEF Takes
<1>12. Known(pt, db2, e, r)
  <2> SUFFICES ASSUME NEW h \in Games, NEW l \in Players, NEW p \in Players, InDb(db2, l, p)
      PROVE  \/ Stands(r[h], Start(l, p), Ends(l, p))
             \/ pt[h][p] = l /\ ~Has(r[h], Ends(l, p))
             \/ Has(e[h], Ends(l, p))
    BY DEF Known
  <2>0. x \notin Ends(l, p)
    BY <1>x
  <2>1. \/ Stands(tg[h], Start(l, p), Ends(l, p))
        \/ pt[h][p] = l /\ ~Has(tg[h], Ends(l, p))
        \/ Has(td[h], Ends(l, p))
    BY DEF PartyInv, Known
  <2> QED  BY <2>0, <2>1, <1>e, <1>r DEF Takes, Gives
<1>13. Own(pt, db2, e, r)
  <2> SUFFICES ASSUME NEW h \in Games, NEW l \in Players, NEW p \in Players, ~Dead(db, td, l)
      PROVE  \/ pt[h][p] = l /\ ~Has(r[h], Ends(l, p))
             \/ Followed(e[h], Start(l, p), Ends(l, p))
    BY <1>d DEF Own
  <2>1. \/ pt[h][p] = l /\ ~Has(tg[h], Ends(l, p))
        \/ Followed(td[h], Start(l, p), Ends(l, p))
    BY DEF PartyInv, Own
  <2>2. ASSUME h # g, l = l0, p = p0 PROVE Followed(td[h], Start(l, p), Ends(l, p))
    BY <1>o, <2>2, Absent1
  <2>3. ASSUME h = g \/ ~(l = l0 /\ p = p0) PROVE Has(r[h], Ends(l, p)) => Has(tg[h], Ends(l, p))
    BY <1>n, <1>r, <1>x, <2>3 DEF Gives
  <2>4. Followed(td[h], Start(l, p), Ends(l, p)) => Followed(e[h], Start(l, p), Ends(l, p))
    BY <1>e DEF Takes
  <2> QED  BY <2>1, <2>2, <2>3, <2>4
<1>14. Right(pt, db2, e, r)
  <2> SUFFICES ASSUME NEW h \in Games, NEW l \in Players, NEW p \in Players, pt[h][p] = l
      PROVE  InDb(db2, l, p) \/ Has(r[h], Ends(l, p)) \/ Has(e[h], {Start(l, p)})
    BY DEF Right
  <2>1. InDb(db, l, p) \/ Has(tg[h], Ends(l, p)) \/ Has(td[h], {Start(l, p)})
    BY DEF PartyInv, Right
  <2>2. Has(tg[h], Ends(l, p)) => Has(r[h], Ends(l, p))
    BY <1>r DEF Gives
  <2>3. Has(td[h], {Start(l, p)}) => Has(e[h], {Start(l, p)})
    BY <1>e, <1>x DEF Takes
  <2>4. CASE l = l0 /\ p = p0
    <3>1. CASE h = g
      <4>1. Followed(td[g], x, {Start(l, p)})
        BY <2>4, <3>1 DEF PartyInv, Rejoined, x
      <4> QED  BY <4>1, <1>e, <3>1 DEF Took
    <3>2. CASE h # g
      BY <1>r, <1>x, <2>4, <3>2 DEF Gives
    <3> QED  BY <3>1, <3>2
  <2> QED  BY <2>1, <2>2, <2>3, <2>4
<1>15. Rightly(pt, db2, r)
  <2> SUFFICES ASSUME NEW h \in Games, NEW l \in Players, NEW p \in Players, ~InDb(db2, l, p)
      PROVE  Doomed(pt[h], r[h], l) \/ Followed(r[h], Start(l, p), Ends(l, p))
    BY DEF Rightly
  <2>1. InDb(db, l, p) \/ Doomed(pt[h], tg[h], l) \/ Followed(tg[h], Start(l, p), Ends(l, p))
    BY DEF PartyInv, Rightly
  <2>2. Doomed(pt[h], tg[h], l) => Doomed(pt[h], r[h], l)
    BY <1>r, <1>x DEF Doomed, Gives
  <2>3. Followed(tg[h], Start(l, p), Ends(l, p)) => Followed(r[h], Start(l, p), Ends(l, p))
    BY <1>r, <1>x DEF Gives
  <2>4. CASE l = l0 /\ p = p0
    <3>1. CASE h = g
      BY <1>w, <2>3, <2>4, <3>1, Absent1
    <3>2. CASE h # g
      BY <1>r, <1>x, <2>4, <3>2 DEF Gives
    <3> QED  BY <3>1, <3>2
  <2> QED  BY <2>1, <2>2, <2>3, <2>4
<1>16. NoClash(pt, r)
  <2> SUFFICES ASSUME NEW h \in Games, NEW l \in Players, NEW m \in Players, NEW p \in Players, l # m
      PROVE  /\ pt[h][p] = l => Led(r[h], Ends(l, p), Start(m, p))
             /\ Doomed(pt[h], r[h], l) \/ Sep(r[h], Start(l, p), Ends(l, p), Start(m, p))
    BY DEF NoClash
  <2>1. /\ pt[h][p] = l => Led(tg[h], Ends(l, p), Start(m, p))
        /\ Doomed(pt[h], tg[h], l) \/ Sep(tg[h], Start(l, p), Ends(l, p), Start(m, p))
    BY DEF PartyInv, NoClash
  <2>2. Doomed(pt[h], tg[h], l) => Doomed(pt[h], r[h], l)
    BY <1>r, <1>x DEF Doomed, Gives
  <2> QED  BY <2>1, <2>2, <1>r, <1>x DEF Gives
<1>17. Heard(pt, r)
  <2>1. \A h \in Games, l \in Players : First(tg[h], Created(l), Named(l)) => First(r[h], Created(l), Named(l))
    BY <1>r, <1>x DEF Gives
  <2> QED  BY <1>i, <2>1 DEF PartyInv, Heard
<1> QED
  BY <1>1, <1>2, <1>3, <1>4, <1>5, <1>6, <1>7, <1>8, <1>9, <1>10, <1>11, <1>12, <1>13, <1>14, <1>15, <1>16, <1>17
     DEF PartyInv

(* The db deletes l's party, and the other games are told.                 *)
LEMMA DeletionKeeps ==
    ASSUME PartyAssumption,
           NEW pt, NEW wh, NEW ln, NEW db, NEW td, NEW tg, PartyInv(pt, wh, ln, db, td, tg),
           NEW g \in Games, NEW l0 \in Players, l0 \in DOMAIN db,
           NEW e, Pops(ToDbPackets, e, td, g, Deleted(l0)),
           NEW r, Puts(ToGamePackets, r, tg, Games \ {g}, Deleted(l0)),
           NEW db2, \A l : l \in DOMAIN db2 <=> l \in DOMAIN db /\ l # l0,
           \A l, p \in Players : InDb(db2, l, p) <=> InDb(db, l, p) /\ l # l0
    PROVE  PartyInv(pt, wh, ln, db2, e, r)
<1> DEFINE x == Deleted(l0)
<1>x. /\ \A m, o \in Players : x # Start(m, o) /\ x # Removed(m, o)
      /\ \A m, o \in Players : x \in Ends(m, o) <=> m = l0
      /\ \A m \in Players : x = Deleted(m) <=> m = l0
      /\ \A m \in Players : x # LoggedOut(m) /\ x # Loaded(m) /\ x # Created(m)
      /\ \A m \in Players : x \in Named(m) <=> m = l0
  BY DeletedIs
<1>p. Pops(ToDbPackets, e, td, g, x) /\ Puts(ToGamePackets, r, tg, Games \ {g}, x)
  OBVIOUS
<1>y. x = Deleted(l0)
  OBVIOUS
<1> HIDE DEF x
<1>e. e \in [Games -> Seq(ToDbPackets)] /\ Takes(e, td, g, x) /\ Took(e[g], td[g], x)
  BY <1>p, OneTaken
<1>r. r \in [Games -> Seq(ToGamePackets)] /\ Gives(r, tg, Games \ {g}, x)
  BY <1>p, OneGiven
<1>i. \A h \in Games, p \in Players :
         /\ Has(r[h], {Loaded(p)}) => Has(tg[h], {Loaded(p)})
         /\ Has(r[h], {Created(p)}) => Has(tg[h], {Created(p)})
         /\ p # l0 /\ Has(r[h], {Deleted(p)}) => Has(tg[h], {Deleted(p)})
         /\ p # l0 /\ Has(r[h], Named(p)) => Has(tg[h], Named(p))
         /\ \A o \in Players : /\ Has(r[h], {Start(p, o)}) => Has(tg[h], {Start(p, o)})
                               /\ Has(r[h], {Removed(p, o)}) => Has(tg[h], {Removed(p, o)})
                               /\ p # l0 /\ Has(r[h], Ends(p, o)) => Has(tg[h], Ends(p, o))
  <2>1. \A h \in Games : \A S : Has(r[h], S) => Has(tg[h], S) \/ x \in S
    BY <1>r DEF Gives
  <2> QED  BY <2>1, <1>x
<1>j. \A h \in Games : \A S : Has(e[h], S) => Has(td[h], S)
  BY <1>e DEF Takes
<1>t. Types(pt, wh, db, td, tg)
  BY DEF PartyInv
<1>k. Has(td[g], {x})
  BY <1>e DEF Took
<1>c. \A h \in Games : ~Has(td[h], {Created(l0)})
  BY DEF PartyInv, Founded
<1>d. \A l \in Players : Dead(db, td, l) \/ l = l0 => Dead(db2, e, l)
  BY <1>j, <1>c DEF Dead
<1>o. Doomed(pt[g], tg[g], l0)
  BY <1>k, <1>y DEF PartyInv, Over
<1>b. \A h \in Games, l \in Players : Doomed(pt[h], tg[h], l) => Doomed(pt[h], r[h], l)
  BY <1>i DEF Doomed
<1>1. Types(pt, wh, db2, e, r)
  BY <1>t, <1>e, <1>r DEF Types
<1>2. Loads(wh, r) /\ Lead(pt) /\ Links(pt, wh, ln)
  BY <1>i DEF PartyInv, Loads
<1>3. Kinds(e, r)
  BY <1>j, <1>i DEF PartyInv, Kinds
<1>4. Logouts(wh, e, r)
  BY <1>j, <1>i DEF PartyInv, Logouts
<1>5. Sent(wh, e)
  BY <1>e DEF PartyInv, Sent, Stays, Takes
<1>6. Told(wh, e, r)
  <2>1. \A h \in Games, q \in Players : \A z : Away(wh, td[h], tg[h], q, h, z) /\ z # x =>
           Away(wh, e[h], r[h], q, h, z)
    BY <1>e, <1>r DEF Away, Takes, Gives
  <2> QED  BY <1>i, <1>x, <2>1 DEF PartyInv, Told
<1>7. Founded(pt, db2, e, r)
  <2> SUFFICES ASSUME NEW k \in Games, NEW l \in Players, Has(td[k], {Created(l)})
      PROVE  /\ l \notin DOMAIN db2 /\ First(e[k], Created(l), Named(l))
             /\ \A h \in Games : ~Has(r[h], Named(l))
             /\ \A h \in Games \ {k} : ~Has(e[h], Named(l)) /\ pt[h][l] # l
    BY <1>j DEF Founded
  <2>2. l # l0
    BY <1>c
  <2>3. /\ l \notin DOMAIN db /\ First(td[k], Created(l), Named(l))
        /\ \A h \in Games : ~Has(tg[h], Named(l))
        /\ \A h \in Games \ {k} : ~Has(td[h], Named(l)) /\ pt[h][l] # l
    BY DEF PartyInv, Founded
  <2>4. First(e[k], Created(l), Named(l))
    BY <1>e, <2>3 DEF Takes
  <2> QED  BY <1>i, <1>j, <2>2, <2>3, <2>4
<1>8. Over(pt, db2, e, r)
  BY <1>i, <1>j, <1>b DEF PartyInv, Over
<1>9. Rejoined(pt, e)
  BY <1>e DEF PartyInv, Rejoined, Takes
<1>10. OneInDb(db2)
  BY DEF PartyInv, OneInDb
<1>11. Ordered(db2, e)
  <2> SUFFICES ASSUME NEW h \in Games, NEW l \in Players, NEW m \in Players, NEW p \in Players, l # m
      PROVE  /\ InDb(db2, l, p) => Led(e[h], Ends(l, p), Start(m, p))
             /\ Dead(db2, e, l) \/ Sep(e[h], Start(l, p), Ends(l, p), Start(m, p))
    BY DEF Ordered
  <2>1. /\ InDb(db, l, p) => Led(td[h], Ends(l, p), Start(m, p))
        /\ Dead(db, td, l) \/ Sep(td[h], Start(l, p), Ends(l, p), Start(m, p))
    BY DEF PartyInv, Ordered
  <2>2. Dead(db2, e, l) \/ Sep(e[h], Start(l, p), Ends(l, p), Start(m, p))
    BY <2>1, <1>d, <1>e DEF Takes
  <2>3. InDb(db2, l, p) => x \notin Ends(l, p)
    BY <1>x
  <2> QED  BY <2>1, <2>2, <2>3, <1>e DEF Takes
<1>12. Known(pt, db2, e, r)
  <2> SUFFICES ASSUME NEW h \in Games, NEW l \in Players, NEW p \in Players, InDb(db2, l, p)
      PROVE  \/ Stands(r[h], Start(l, p), Ends(l, p))
             \/ pt[h][p] = l /\ ~Has(r[h], Ends(l, p))
             \/ Has(e[h], Ends(l, p))
    BY DEF Known
  <2>0. x \notin Ends(l, p)
    BY <1>x
  <2>1. \/ Stands(tg[h], Start(l, p), Ends(l, p))
        \/ pt[h][p] = l /\ ~Has(tg[h], Ends(l, p))
        \/ Has(td[h], Ends(l, p))
    BY DEF PartyInv, Known
  <2> QED  BY <2>0, <2>1, <1>e, <1>r DEF Takes, Gives
<1>13. Own(pt, db2, e, r)
  <2> SUFFICES ASSUME NEW h \in Games, NEW l \in Players, NEW p \in Players, ~Dead(db, td, l), l # l0
      PROVE  \/ pt[h][p] = l /\ ~Has(r[h], Ends(l, p))
             \/ Followed(e[h], Start(l, p), Ends(l, p))
    BY <1>d DEF Own
  <2>1. \/ pt[h][p] = l /\ ~Has(tg[h], Ends(l, p))
        \/ Followed(td[h], Start(l, p), Ends(l, p))
    BY DEF PartyInv, Own
  <2>4. Followed(td[h], Start(l, p), Ends(l, p)) => Followed(e[h], Start(l, p), Ends(l, p))
    BY <1>e DEF Takes
  <2> QED  BY <2>1, <2>4, <1>i
<1>14. Right(pt, db2, e, r)
  <2> SUFFICES ASSUME NEW h \in Games, NEW l \in Players, NEW p \in Players, pt[h][p] = l
      PROVE  InDb(db2, l, p) \/ Has(r[h], Ends(l, p)) \/ Has(e[h], {Start(l, p)})
    BY DEF Right
  <2>1. InDb(db, l, p) \/ Has(tg[h], Ends(l, p)) \/ Has(td[h], {Start(l, p)})
    BY DEF PartyInv, Right
  <2>2. Has(tg[h], Ends(l, p)) => Has(r[h], Ends(l, p))
    BY <1>r DEF Gives
  <2>3. Has(td[h], {Start(l, p)}) => Has(e[h], {Start(l, p)})
    BY <1>e, <1>x DEF Takes
  <2>4. CASE l = l0
    <3>1. h # g
      BY <1>o, <2>4 DEF PartyInv, Lead, Doomed
    <3> QED  BY <1>r, <1>x, <2>4, <3>1 DEF Gives
  <2> QED  BY <2>1, <2>2, <2>3, <2>4
<1>15. Rightly(pt, db2, r)
  <2> SUFFICES ASSUME NEW h \in Games, NEW l \in Players, NEW p \in Players, ~InDb(db2, l, p)
      PROVE  Doomed(pt[h], r[h], l) \/ Followed(r[h], Start(l, p), Ends(l, p))
    BY DEF Rightly
  <2>1. InDb(db, l, p) \/ Doomed(pt[h], tg[h], l) \/ Followed(tg[h], Start(l, p), Ends(l, p))
    BY DEF PartyInv, Rightly
  <2>3. Followed(tg[h], Start(l, p), Ends(l, p)) => Followed(r[h], Start(l, p), Ends(l, p))
    BY <1>r, <1>x DEF Gives
  <2>4. CASE l = l0
    <3>1. CASE h = g
      BY <1>o, <1>b, <2>4, <3>1
    <3>2. CASE h # g
      BY <1>r, <1>x, <2>4, <3>2 DEF Gives
    <3> QED  BY <3>1, <3>2
  <2> QED  BY <2>1, <1>b, <2>3, <2>4
<1>16. NoClash(pt, r)
  <2> SUFFICES ASSUME NEW h \in Games, NEW l \in Players, NEW m \in Players, NEW p \in Players, l # m
      PROVE  /\ pt[h][p] = l => Led(r[h], Ends(l, p), Start(m, p))
             /\ Doomed(pt[h], r[h], l) \/ Sep(r[h], Start(l, p), Ends(l, p), Start(m, p))
    BY DEF NoClash
  <2>1. /\ pt[h][p] = l => Led(tg[h], Ends(l, p), Start(m, p))
        /\ Doomed(pt[h], tg[h], l) \/ Sep(tg[h], Start(l, p), Ends(l, p), Start(m, p))
    BY DEF PartyInv, NoClash
  <2> QED  BY <2>1, <1>b, <1>r, <1>x DEF Gives
<1>17. Heard(pt, r)
  <2>1. \A h \in Games, l \in Players : First(tg[h], Created(l), Named(l)) => First(r[h], Created(l), Named(l))
    BY <1>r, <1>x DEF Gives
  <2> QED  BY <1>i, <2>1 DEF PartyInv, Heard
<1> QED
  BY <1>1, <1>2, <1>3, <1>4, <1>5, <1>6, <1>7, <1>8, <1>9, <1>10, <1>11, <1>12, <1>13, <1>14, <1>15, <1>16, <1>17
     DEF PartyInv

(* The db tells games what changes nothing for them: the level of a member *)
(* of a party it has, or to load a player.                                 *)
LEMMA IdleKeeps ==
    ASSUME NEW pt, NEW wh, NEW ln, NEW db, NEW td, NEW tg, PartyInv(pt, wh, ln, db, td, tg),
           NEW B, NEW x, NEW r, Puts(ToGamePackets, r, tg, B, x),
           \A m, o \in Players : x # Start(m, o) /\ x \notin Ends(m, o) /\ x # Removed(m, o),
           \A m \in Players : x # LoggedOut(m) /\ x # Created(m) /\ x # Deleted(m),
           \A m \in Players : x \in Named(m) => m \in DOMAIN db,
           \A m \in Players : x = Loaded(m) =>
               wh[m] = None /\ \A h \in Games : ~Has(td[h], {LoggedOut(m)})
    PROVE  PartyInv(pt, wh, ln, db, td, r)
<1>r. r \in [Games -> Seq(ToGamePackets)] /\ Gives(r, tg, B, x)
  BY OneGiven
<1>u. \A h \in Games : \A S : Has(r[h], S) => Has(tg[h], S) \/ x \in S
  BY <1>r DEF Gives
<1>i. \A h \in Games, p \in Players :
         /\ Has(r[h], {Loaded(p)}) => Has(tg[h], {Loaded(p)}) \/ x = Loaded(p)
         /\ Has(r[h], {Created(p)}) => Has(tg[h], {Created(p)})
         /\ Has(r[h], {Deleted(p)}) => Has(tg[h], {Deleted(p)})
         /\ p \notin DOMAIN db /\ Has(r[h], Named(p)) => Has(tg[h], Named(p))
         /\ \A o \in Players : /\ Has(r[h], {Start(p, o)}) => Has(tg[h], {Start(p, o)})
                               /\ Has(r[h], {Removed(p, o)}) => Has(tg[h], {Removed(p, o)})
                               /\ Has(r[h], Ends(p, o)) => Has(tg[h], Ends(p, o))
  BY <1>u
<1>t. Types(pt, wh, db, td, tg)
  BY DEF PartyInv
<1>b. \A h \in Games, l \in Players : Doomed(pt[h], tg[h], l) => Doomed(pt[h], r[h], l)
  BY <1>i DEF Doomed
<1>1. Types(pt, wh, db, td, r)
  BY <1>t, <1>r DEF Types
<1>2. Loads(wh, r) /\ Lead(pt) /\ Links(pt, wh, ln) /\ Sent(wh, td) /\ Rejoined(pt, td) /\ OneInDb(db)
      /\ Ordered(db, td)
  BY <1>i DEF PartyInv, Loads
<1>3. Kinds(td, r)
  BY <1>i DEF PartyInv, Kinds
<1>4. Logouts(wh, td, r)
  BY <1>i DEF PartyInv, Logouts
<1>6. Told(wh, td, r)
  <2>1. \A h \in Games, q \in Players : \A z : Away(wh, td[h], tg[h], q, h, z) /\ z # x =>
           Away(wh, td[h], r[h], q, h, z)
    BY <1>r DEF Away, Gives
  <2> QED  BY <1>i, <2>1 DEF PartyInv, Told
<1>7. Founded(pt, db, td, r)
  BY <1>i DEF PartyInv, Founded
<1>8. Over(pt, db, td, r)
  BY <1>i, <1>b DEF PartyInv, Over
<1>12. Known(pt, db, td, r)
  <2> SUFFICES ASSUME NEW h \in Games, NEW l \in Players, NEW p \in Players, InDb(db, l, p)
      PROVE  \/ Stands(r[h], Start(l, p), Ends(l, p))
             \/ pt[h][p] = l /\ ~Has(r[h], Ends(l, p))
             \/ Has(td[h], Ends(l, p))
    BY DEF Known
  <2>1. \/ Stands(tg[h], Start(l, p), Ends(l, p))
        \/ pt[h][p] = l /\ ~Has(tg[h], Ends(l, p))
        \/ Has(td[h], Ends(l, p))
    BY DEF PartyInv, Known
  <2> QED  BY <2>1, <1>r DEF Gives
<1>13. Own(pt, db, td, r)
  BY <1>i DEF PartyInv, Own
<1>14. Right(pt, db, td, r)
  <2>2. \A h \in Games : \A S : Has(tg[h], S) => Has(r[h], S)
    BY <1>r DEF Gives
  <2> QED  BY <2>2 DEF PartyInv, Right
<1>15. Rightly(pt, db, r)
  <2>3. \A h \in Games, l, p \in Players :
           Followed(tg[h], Start(l, p), Ends(l, p)) => Followed(r[h], Start(l, p), Ends(l, p))
    BY <1>r DEF Gives
  <2> QED  BY <1>b, <2>3 DEF PartyInv, Rightly
<1>16. NoClash(pt, r)
  <2> SUFFICES ASSUME NEW h \in Games, NEW l \in Players, NEW m \in Players, NEW p \in Players, l # m
      PROVE  /\ pt[h][p] = l => Led(r[h], Ends(l, p), Start(m, p))
             /\ Doomed(pt[h], r[h], l) \/ Sep(r[h], Start(l, p), Ends(l, p), Start(m, p))
    BY DEF NoClash
  <2>1. /\ pt[h][p] = l => Led(tg[h], Ends(l, p), Start(m, p))
        /\ Doomed(pt[h], tg[h], l) \/ Sep(tg[h], Start(l, p), Ends(l, p), Start(m, p))
    BY DEF PartyInv, NoClash
  <2> QED  BY <2>1, <1>b, <1>r DEF Gives
<1>17. Heard(pt, r)
  <2>1. \A h \in Games, l \in Players : First(tg[h], Created(l), Named(l)) => First(r[h], Created(l), Named(l))
    BY <1>r DEF Gives
  <2> QED  BY <1>i, <2>1 DEF PartyInv, Heard
<1> QED
  BY <1>1, <1>2, <1>3, <1>4, <1>6, <1>7, <1>8, <1>12, <1>13, <1>14, <1>15, <1>16, <1>17
     DEF PartyInv

-----------------------------------------------------------------------------
(* A game is told.                                                         *)

(* A game is told what it has already, or what changes nothing.            *)
LEMMA ToldIdleKeeps ==
    ASSUME NEW pt, NEW wh, NEW ln, NEW db, NEW td, NEW tg, PartyInv(pt, wh, ln, db, td, tg),
           NEW g \in Games, NEW x, NEW r, Pops(ToGamePackets, r, tg, g, x),
           \A m, o \in Players : x \notin Ends(m, o),
           \A m, o \in Players : x = Start(m, o) => pt[g][o] = m
    PROVE  PartyInv(pt, wh, ln, db, td, r)
<1>r. r \in [Games -> Seq(ToGamePackets)] /\ Takes(r, tg, g, x) /\ Took(r[g], tg[g], x)
  BY OneTaken
<1>u. \A h \in Games : \A S : Has(r[h], S) => Has(tg[h], S)
  BY <1>r DEF Takes
<1>i. \A h \in Games, l, p \in Players : Has(tg[h], Ends(l, p)) => Has(r[h], Ends(l, p))
  BY <1>r DEF Takes
<1>t. Types(pt, wh, db, td, tg)
  BY DEF PartyInv
<1>b. \A h \in Games, l \in Players : Doomed(pt[h], tg[h], l) => Doomed(pt[h], r[h], l)
  BY <1>u DEF Doomed
<1>f. \A h \in Games : \A y, S : Followed(tg[h], y, S) => Followed(r[h], y, S)
  BY <1>r DEF Takes
<1>1. Types(pt, wh, db, td, r)
  BY <1>t, <1>r DEF Types
<1>2. Loads(wh, r) /\ Lead(pt) /\ Links(pt, wh, ln) /\ Sent(wh, td) /\ Rejoined(pt, td) /\ OneInDb(db)
      /\ Ordered(db, td)
  BY <1>u DEF PartyInv, Loads
<1>3. Kinds(td, r)
  BY <1>u DEF PartyInv, Kinds
<1>4. Logouts(wh, td, r)
  BY <1>u DEF PartyInv, Logouts
<1>6. Told(wh, td, r)
  <2>1. \A h \in Games, q \in Players : \A z : Away(wh, td[h], tg[h], q, h, z) =>
           Away(wh, td[h], r[h], q, h, z)
    BY <1>r DEF Away, Takes
  <2> QED  BY <1>u, <2>1 DEF PartyInv, Told
<1>7. Founded(pt, db, td, r)
  BY <1>u DEF PartyInv, Founded
<1>8. Over(pt, db, td, r)
  BY <1>u, <1>b DEF PartyInv, Over
<1>12. Known(pt, db, td, r)
  <2> SUFFICES ASSUME NEW h \in Games, NEW l \in Players, NEW p \in Players, InDb(db, l, p)
      PROVE  \/ Stands(r[h], Start(l, p), Ends(l, p))
             \/ pt[h][p] = l /\ ~Has(r[h], Ends(l, p))
             \/ Has(td[h], Ends(l, p))
    BY DEF Known
  <2>1. \/ Stands(tg[h], Start(l, p), Ends(l, p))
        \/ pt[h][p] = l /\ ~Has(tg[h], Ends(l, p))
        \/ Has(td[h], Ends(l, p))
    BY DEF PartyInv, Known
  <2>2. ASSUME Stands(tg[h], Start(l, p), Ends(l, p))
        PROVE  \/ Stands(r[h], Start(l, p), Ends(l, p))
               \/ pt[h][p] = l /\ ~Has(r[h], Ends(l, p))
    <3>1. CASE h = g /\ x = Start(l, p)
      BY <2>2, <3>1, <1>r DEF Took
    <3>2. CASE h # g
      BY <2>2, <3>2, <1>r DEF Takes
    <3>3. CASE x # Start(l, p)
      BY <2>2, <3>3, <1>r DEF Takes
    <3> QED  BY <3>1, <3>2, <3>3
  <2> QED  BY <2>1, <2>2, <1>u
<1>13. Own(pt, db, td, r)
  BY <1>u DEF PartyInv, Own
<1>14. Right(pt, db, td, r)
  BY <1>i DEF PartyInv, Right
<1>15. Rightly(pt, db, r)
  BY <1>b, <1>f DEF PartyInv, Rightly
<1>16. NoClash(pt, r)
  <2> SUFFICES ASSUME NEW h \in Games, NEW l \in Players, NEW m \in Players, NEW p \in Players, l # m
      PROVE  /\ pt[h][p] = l => Led(r[h], Ends(l, p), Start(m, p))
             /\ Doomed(pt[h], r[h], l) \/ Sep(r[h], Start(l, p), Ends(l, p), Start(m, p))
    BY DEF NoClash
  <2>1. /\ pt[h][p] = l => Led(tg[h], Ends(l, p), Start(m, p))
        /\ Doomed(pt[h], tg[h], l) \/ Sep(tg[h], Start(l, p), Ends(l, p), Start(m, p))
    BY DEF PartyInv, NoClash
  <2> QED  BY <2>1, <1>b, <1>r DEF Takes
<1>17. Heard(pt, r)
  <2>1. \A h \in Games, l \in Players : First(tg[h], Created(l), Named(l)) => First(r[h], Created(l), Named(l))
    BY <1>r DEF Takes
  <2> QED  BY <1>u, <2>1 DEF PartyInv, Heard
<1> QED
  BY <1>1, <1>2, <1>3, <1>4, <1>6, <1>7, <1>8, <1>12, <1>13, <1>14, <1>15, <1>16, <1>17
     DEF PartyInv

(* A game is told that p is a member of l's party.                         *)
LEMMA ToldStartKeeps ==
    ASSUME PartyAssumption,
           NEW pt, NEW wh, NEW ln, NEW db, NEW td, NEW tg, PartyInv(pt, wh, ln, db, td, tg),
           NEW g \in Games, NEW l0 \in Players, NEW p0 \in Players,
           NEW r, Pops(ToGamePackets, r, tg, g, Start(l0, p0)),
           pt[g][p0] = None, p0 # l0 => pt[g][l0] = l0,
           NEW pt2, pt2 = With(pt, g, With(pt[g], p0, l0)),
           NEW ln2, ln2 = Knowing(ln, wh, g, pt2, pt)
    PROVE  PartyInv(pt2, wh, ln2, db, td, r)
<1> USE DEF With, Knowing
<1> DEFINE x == Start(l0, p0)
<1>x. /\ \A m, o \in Players : x = Start(m, o) <=> m = l0 /\ o = p0
      /\ \A m, o \in Players : x \notin Ends(m, o) /\ x # Deleted(m) /\ x # Removed(m, o)
      /\ \A m \in Players : x # LoggedOut(m) /\ x # Loaded(m)
      /\ \A m \in Players : x \in Named(m) <=> m = l0
      /\ \A m \in Players : x = Created(m) <=> m = l0 /\ m = p0
  BY StartIs
<1>p. Pops(ToGamePackets, r, tg, g, x)
  OBVIOUS
<1>y. x = Start(l0, p0)
  OBVIOUS
<1> HIDE DEF x
<1>r. r \in [Games -> Seq(ToGamePackets)] /\ Takes(r, tg, g, x) /\ Took(r[g], tg[g], x)
  BY <1>p, OneTaken
<1>u. \A h \in Games : \A S : Has(r[h], S) => Has(tg[h], S)
  BY <1>r DEF Takes
<1>i. \A h \in Games, l, p \in Players : Has(tg[h], Ends(l, p)) => Has(r[h], Ends(l, p))
  BY <1>r, <1>x DEF Takes
<1>f. \A h \in Games : \A y, S : Followed(tg[h], y, S) => Followed(r[h], y, S)
  BY <1>r DEF Takes
<1>t. Types(pt, wh, db, td, tg) /\ None \notin Players
  BY DEF PartyInv, PartyAssumption
<1>k. Has(tg[g], {x})
  BY <1>r DEF Took
<1>q. /\ pt2[g][p0] = l0
      /\ \A h \in Games, p \in Players : h # g \/ p # p0 => pt2[h][p] = pt[h][p]
  BY <1>t DEF Types
<1>s. \A h \in Games, p \in Players : pt[h][p] # None => pt2[h][p] = pt[h][p]
  BY <1>q, <1>t
<1>a. Away(wh, td[g], tg[g], l0, g, x) /\ Away(wh, td[g], tg[g], p0, g, x)
  BY <1>k, <1>y DEF PartyInv, Told
<1>d. ~Doomed(pt[g], tg[g], l0)
  BY <1>k, <1>x DEF Doomed
<1>c. p0 = l0 => /\ First(tg[g], x, Named(l0)) /\ ~Has(r[g], {x})
                 /\ \A h \in Games : ~Has(td[h], {Created(l0)})
  <2>1. p0 = l0 => x = Created(l0)
    BY <1>x
  <2>2. p0 = l0 => First(tg[g], x, Named(l0))
    BY <2>1, <1>k DEF PartyInv, Heard
  <2>3. p0 = l0 => ~Has(r[g], {x})
    BY <2>2, <1>r, <1>x DEF Took
  <2>4. p0 = l0 => Has(tg[g], Named(l0))
    BY <1>k, <1>x, Absent1
  <2>5. p0 = l0 => \A h \in Games : ~Has(td[h], {Created(l0)})
    BY <2>4 DEF PartyInv, Founded
  <2> QED  BY <2>2, <2>3, <2>5
<1>b. \A h \in Games, l \in Players : Doomed(pt[h], tg[h], l) => Doomed(pt2[h], r[h], l)
  <2> SUFFICES ASSUME NEW h \in Games, NEW l \in Players, Doomed(pt[h], tg[h], l)
               PROVE  Doomed(pt2[h], r[h], l)
    OBVIOUS
  <2>1. ~Has(r[h], {Created(l)})
    BY <1>u DEF Doomed
  <2>2. pt2[h][l] # l
    <3>1. CASE h = g /\ l = p0
      <4>1. l # l0
        BY <1>d, <3>1
      <4> QED  BY <4>1, <1>q, <3>1
    <3>2. CASE ~(h = g /\ l = p0)
      BY <1>q, <3>2 DEF Doomed
    <3> QED  BY <3>1, <3>2
  <2> QED  BY <2>1, <2>2 DEF Doomed
<1>1. Types(pt2, wh, db, td, r)
  BY <1>t, <1>r DEF Types
<1>2. Loads(wh, r) /\ Sent(wh, td) /\ OneInDb(db) /\ Ordered(db, td)
  BY <1>u DEF PartyInv, Loads
<1>3. Kinds(td, r)
  BY <1>u DEF PartyInv, Kinds
<1>4. Logouts(wh, td, r)
  BY <1>u DEF PartyInv, Logouts
<1>5. Lead(pt2)
  <2> SUFFICES ASSUME NEW h \in Games, NEW l \in Players, NEW p \in Players, pt2[h][p] = l
               PROVE  pt2[h][l] = l
    BY DEF Lead
  <2>1. CASE h = g /\ p = p0
    <3>1. l = l0
      BY <2>1, <1>q
    <3>2. CASE p0 = l0
      BY <2>1, <3>1, <3>2, <1>q
    <3>3. CASE p0 # l0
      BY <2>1, <3>1, <3>3, <1>q
    <3> QED  BY <3>2, <3>3
  <2>2. CASE ~(h = g /\ p = p0)
    <3>1. pt[h][l] = l
      BY <2>2, <1>q DEF PartyInv, Lead
    <3> QED  BY <3>1, <1>s, <1>t
  <2> QED  BY <2>1, <2>2
<1>9. Links(pt2, wh, ln2)
  <2>1. wh[p0] # g
    BY <1>a DEF Away
  <2> QED  BY <2>1, <1>q DEF PartyInv, Links
<1>10. Rejoined(pt2, td)
  <2>1. ~Has(td[g], {Removed(l0, p0)})
    <3> SUFFICES ASSUME Has(td[g], {Removed(l0, p0)}) PROVE FALSE
      OBVIOUS
    <3>1. PICK y \in {l0, p0} : Stays(wh, td[g], y, g, Removed(l0, p0))
      BY DEF PartyInv, Sent
    <3>2. y \in Players /\ Loads(wh, tg) /\ Logouts(wh, td, tg)
      BY DEF PartyInv
    <3>3. ~Away(wh, td[g], tg[g], y, g, x)
      BY <3>1, <3>2, StaysPut
    <3> QED  BY <3>3, <1>a
  <2>2. Followed(td[g], Removed(l0, p0), {Start(l0, p0)})
    BY <2>1, Absent1
  <2> QED  BY <2>2, <1>q DEF PartyInv, Rejoined
<1>6. Told(wh, td, r)
  <2>1. \A h \in Games, q \in Players : \A z : Away(wh, td[h], tg[h], q, h, z) =>
           Away(wh, td[h], r[h], q, h, z)
    BY <1>r DEF Away, Takes
  <2> QED  BY <1>u, <2>1 DEF PartyInv, Told
<1>7. Founded(pt2, db, td, r)
  <2> SUFFICES ASSUME NEW k \in Games, NEW l \in Players, Has(td[k], {Created(l)})
      PROVE  /\ l \notin DOMAIN db /\ First(td[k], Created(l), Named(l))
             /\ \A h \in Games : ~Has(r[h], Named(l))
             /\ \A h \in Games \ {k} : ~Has(td[h], Named(l)) /\ pt2[h][l] # l
    BY DEF Founded
  <2>3. /\ l \notin DOMAIN db /\ First(td[k], Created(l), Named(l))
        /\ \A h \in Games : ~Has(tg[h], Named(l))
        /\ \A h \in Games \ {k} : ~Has(td[h], Named(l)) /\ pt[h][l] # l
    BY DEF PartyInv, Founded
  <2>4. ~(l = p0 /\ p0 = l0)
    BY <1>c
  <2> QED  BY <2>3, <2>4, <1>u, <1>q
<1>8. Over(pt2, db, td, r)
  BY <1>u, <1>b DEF PartyInv, Over
<1>12. Known(pt2, db, td, r)
  <2> SUFFICES ASSUME NEW h \in Games, NEW l \in Players, NEW p \in Players, InDb(db, l, p)
      PROVE  \/ Stands(r[h], Start(l, p), Ends(l, p))
             \/ pt2[h][p] = l /\ ~Has(r[h], Ends(l, p))
             \/ Has(td[h], Ends(l, p))
    BY DEF Known
  <2>1. \/ Stands(tg[h], Start(l, p), Ends(l, p))
        \/ pt[h][p] = l /\ ~Has(tg[h], Ends(l, p))
        \/ Has(td[h], Ends(l, p))
    BY DEF PartyInv, Known
  <2>2. ASSUME Stands(tg[h], Start(l, p), Ends(l, p))
        PROVE  \/ Stands(r[h], Start(l, p), Ends(l, p))
               \/ pt2[h][p] = l /\ ~Has(r[h], Ends(l, p))
    <3>1. CASE h = g /\ x = Start(l, p)
      <4>1. l = l0 /\ p = p0
        BY <3>1, <1>x
      <4> QED  BY <2>2, <3>1, <4>1, <1>q, <1>r DEF Took
    <3>2. CASE h # g
      BY <2>2, <3>2, <1>r DEF Takes
    <3>3. CASE x # Start(l, p)
      BY <2>2, <3>3, <1>r DEF Takes
    <3> QED  BY <3>1, <3>2, <3>3
  <2> QED  BY <2>1, <2>2, <1>u, <1>s, <1>t
<1>13. Own(pt2, db, td, r)
  BY <1>u, <1>s, <1>t DEF PartyInv, Own
<1>14. Right(pt2, db, td, r)
  <2> SUFFICES ASSUME NEW h \in Games, NEW l \in Players, NEW p \in Players, pt2[h][p] = l
      PROVE  InDb(db, l, p) \/ Has(r[h], Ends(l, p)) \/ Has(td[h], {Start(l, p)})
    BY DEF Right
  <2>1. CASE h = g /\ p = p0
    <3>1. l = l0
      BY <2>1, <1>q
    <3>2. InDb(db, l, p) \/ Followed(tg[g], x, Ends(l, p))
      BY <2>1, <3>1, <1>d, <1>y DEF PartyInv, Rightly
    <3> QED  BY <2>1, <3>2, <1>r DEF Took
  <2>2. CASE ~(h = g /\ p = p0)
    <3>1. InDb(db, l, p) \/ Has(tg[h], Ends(l, p)) \/ Has(td[h], {Start(l, p)})
      BY <2>2, <1>q DEF PartyInv, Right
    <3> QED  BY <3>1, <1>i
  <2> QED  BY <2>1, <2>2
<1>15. Rightly(pt2, db, r)
  BY <1>b, <1>f DEF PartyInv, Rightly
<1>16. NoClash(pt2, r)
  <2> SUFFICES ASSUME NEW h \in Games, NEW l \in Players, NEW m \in Players, NEW p \in Players, l # m
      PROVE  /\ pt2[h][p] = l => Led(r[h], Ends(l, p), Start(m, p))
             /\ Doomed(pt2[h], r[h], l) \/ Sep(r[h], Start(l, p), Ends(l, p), Start(m, p))
    BY DEF NoClash
  <2>1. /\ pt[h][p] = l => Led(tg[h], Ends(l, p), Start(m, p))
        /\ Doomed(pt[h], tg[h], l) \/ Sep(tg[h], Start(l, p), Ends(l, p), Start(m, p))
    BY DEF PartyInv, NoClash
  <2>2. Doomed(pt2[h], r[h], l) \/ Sep(r[h], Start(l, p), Ends(l, p), Start(m, p))
    BY <2>1, <1>b, <1>r DEF Takes
  <2>3. ASSUME pt2[h][p] = l PROVE Led(r[h], Ends(l, p), Start(m, p))
    <3>1. CASE h = g /\ p = p0
      <4>1. l = l0
        BY <2>3, <3>1, <1>q
      <4>2. Sep(tg[g], x, Ends(l, p), Start(m, p))
        BY <2>1, <3>1, <4>1, <1>d, <1>y
      <4> QED  BY <3>1, <4>2, <1>r DEF Took
    <3>2. CASE ~(h = g /\ p = p0)
      <4>1. Led(tg[h], Ends(l, p), Start(m, p)) /\ x \notin Ends(l, p)
        BY <2>1, <2>3, <3>2, <1>q, <1>x
      <4> QED  BY <4>1, <1>r DEF Takes
    <3> QED  BY <3>1, <3>2
  <2> QED  BY <2>2, <2>3
<1>17. Heard(pt2, r)
  <2> SUFFICES ASSUME NEW h \in Games, NEW l \in Players, Has(r[h], {Created(l)})
      PROVE  pt2[h][l] # l /\ First(r[h], Created(l), Named(l))
    BY DEF Heard
  <2>1. pt[h][l] # l /\ First(tg[h], Created(l), Named(l))
    BY <1>u DEF PartyInv, Heard
  <2>2. First(r[h], Created(l), Named(l))
    BY <2>1, <1>r DEF Takes
  <2>3. ~(h = g /\ l = l0 /\ p0 = l0)
    BY <1>c, <1>x
  <2> QED  BY <2>1, <2>2, <2>3, <1>q
<1> QED
  BY <1>1, <1>2, <1>3, <1>4, <1>5, <1>6, <1>7, <1>8, <1>9, <1>10, <1>12, <1>13, <1>14, <1>15, <1>16, <1>17
     DEF PartyInv

(* The replica m without those for whom x ends their party.                *)
Dropped(m, x) == [p \in Players |-> IF m[p] # None /\ x \in Ends(m[p], p) THEN None ELSE m[p]]

(* A game is told that a party is no more, or that a player has left it.   *)
LEMMA ToldEndKeeps ==
    ASSUME PartyAssumption,
           NEW pt, NEW wh, NEW ln, NEW db, NEW td, NEW tg, PartyInv(pt, wh, ln, db, td, tg),
           NEW g \in Games, NEW l0 \in Players, NEW p0 \in Players, NEW x \in Ends(l0, p0),
           NEW r, Pops(ToGamePackets, r, tg, g, x),
           NEW pt2, pt2 = With(pt, g, Dropped(pt[g], x)),
           NEW ln2, ln2 = Knowing(ln, wh, g, pt2, pt)
    PROVE  PartyInv(pt2, wh, ln2, db, td, r)
<1> USE DEF With, Knowing
<1>y. x = Deleted(l0) \/ x = Removed(l0, p0)
  BY DEF Ends
<1>x. /\ \A m, o \in Players : x # Start(m, o)
      /\ \A m \in Players : x # LoggedOut(m) /\ x # Loaded(m) /\ x # Created(m)
      /\ \A m, o \in Players : x \in Ends(m, o) => m = l0
      /\ x = Deleted(l0) => \A o \in Players : x \in Ends(l0, o)
  BY <1>y, DeletedIs, RemovedIs
<1>r. r \in [Games -> Seq(ToGamePackets)] /\ Takes(r, tg, g, x) /\ Took(r[g], tg[g], x)
  BY OneTaken
<1>u. \A h \in Games : \A S : Has(r[h], S) => Has(tg[h], S)
  BY <1>r DEF Takes
<1>f. \A h \in Games : \A y, S : Followed(tg[h], y, S) => Followed(r[h], y, S)
  BY <1>r DEF Takes
<1>t. Types(pt, wh, db, td, tg) /\ None \notin Players
  BY DEF PartyInv, PartyAssumption
<1>k. Has(tg[g], {x})
  BY <1>r DEF Took
<1>q. /\ \A h \in Games, p \in Players : h # g => pt2[h][p] = pt[h][p]
      /\ \A p \in Players : pt2[g][p] = IF pt[g][p] # None /\ x \in Ends(pt[g][p], p) THEN None ELSE pt[g][p]
  BY <1>t DEF Types, Dropped
<1>s. /\ \A h \in Games, l, p \in Players : pt2[h][p] = l => pt[h][p] = l /\ (h = g => x \notin Ends(l, p))
      /\ \A h \in Games, l, p \in Players : pt[h][p] = l /\ (h = g => x \notin Ends(l, p)) => pt2[h][p] = l
  BY <1>q, <1>t
<1>b. \A h \in Games, l \in Players : Doomed(pt[h], tg[h], l) => Doomed(pt2[h], r[h], l)
  BY <1>u, <1>s DEF Doomed
<1>n. \A h \in Games, l, p \in Players : pt[h][p] = l /\ ~Has(tg[h], Ends(l, p)) =>
          pt2[h][p] = l /\ ~Has(r[h], Ends(l, p))
  <2> SUFFICES ASSUME NEW h \in Games, NEW l \in Players, NEW p \in Players,
                      pt[h][p] = l, ~Has(tg[h], Ends(l, p))
               PROVE  pt2[h][p] = l /\ ~Has(r[h], Ends(l, p))
    OBVIOUS
  <2>1. h = g => x \notin Ends(l, p)
    BY <1>k, Absent1
  <2> QED  BY <2>1, <1>s, <1>u
<1>1. Types(pt2, wh, db, td, r)
  <2>1. Dropped(pt[g], x) \in [Players -> Players \cup {None}]
    BY <1>t DEF Types, Dropped
  <2> QED  BY <1>t, <1>r, <2>1 DEF Types
<1>2. Loads(wh, r) /\ Sent(wh, td) /\ OneInDb(db) /\ Ordered(db, td)
  BY <1>u DEF PartyInv, Loads
<1>3. Kinds(td, r)
  BY <1>u DEF PartyInv, Kinds
<1>4. Logouts(wh, td, r)
  BY <1>u DEF PartyInv, Logouts
<1>5. Lead(pt2)
  <2> SUFFICES ASSUME NEW h \in Games, NEW l \in Players, NEW p \in Players, pt2[h][p] = l
               PROVE  pt2[h][l] = l
    BY DEF Lead
  <2>1. pt[h][p] = l /\ pt[h][l] = l
    BY <1>s DEF PartyInv, Lead
  <2>2. CASE h # g
    BY <2>1, <2>2, <1>s
  <2>3. CASE h = g
    <3>1. x \notin Ends(l, p)
      BY <2>3, <1>s
    <3>2. x # Deleted(l)
      BY <3>1 DEF Ends
    <3>3. x # Removed(l, l)
      BY <1>k DEF PartyInv, Kinds
    <3> QED  BY <2>1, <2>3, <3>2, <3>3, <1>s DEF Ends
  <2> QED  BY <2>2, <2>3
<1>9. Links(pt2, wh, ln2)
  <2> SUFFICES ASSUME NEW h \in Games, NEW p \in Players, wh[p] = h, pt2[h][p] # None
               PROVE  p \in ln2
    BY DEF Links
  <2>1. pt2[h][p] = pt[h][p]
    BY <1>q
  <2> QED  BY <2>1 DEF PartyInv, Links
<1>10. Rejoined(pt2, td)
  <2>1. \A h \in Games, l, p \in Players : pt2[h][p] = l => pt[h][p] = l
    BY <1>s
  <2> QED  BY <2>1 DEF PartyInv, Rejoined
<1>6. Told(wh, td, r)
  <2>1. \A h \in Games, q \in Players : \A z : Away(wh, td[h], tg[h], q, h, z) =>
           Away(wh, td[h], r[h], q, h, z)
    BY <1>r DEF Away, Takes
  <2> QED  BY <1>u, <2>1 DEF PartyInv, Told
<1>7. Founded(pt2, db, td, r)
  <2>1. \A h \in Games, l \in Players : pt2[h][l] = l => pt[h][l] = l
    BY <1>s
  <2> QED  BY <1>u, <2>1 DEF PartyInv, Founded
<1>8. Over(pt2, db, td, r)
  BY <1>u, <1>b DEF PartyInv, Over
<1>12. Known(pt2, db, td, r)
  <2> SUFFICES ASSUME NEW h \in Games, NEW l \in Players, NEW p \in Players, InDb(db, l, p)
      PROVE  \/ Stands(r[h], Start(l, p), Ends(l, p))
             \/ pt2[h][p] = l /\ ~Has(r[h], Ends(l, p))
             \/ Has(td[h], Ends(l, p))
    BY DEF Known
  <2>1. \/ Stands(tg[h], Start(l, p), Ends(l, p))
        \/ pt[h][p] = l /\ ~Has(tg[h], Ends(l, p))
        \/ Has(td[h], Ends(l, p))
    BY DEF PartyInv, Known
  <2>2. Stands(tg[h], Start(l, p), Ends(l, p)) => Stands(r[h], Start(l, p), Ends(l, p))
    BY <1>r, <1>x DEF Takes
  <2> QED  BY <2>1, <2>2, <1>n
<1>13. Own(pt2, db, td, r)
  BY <1>n DEF PartyInv, Own
<1>14. Right(pt2, db, td, r)
  <2> SUFFICES ASSUME NEW h \in Games, NEW l \in Players, NEW p \in Players, pt2[h][p] = l
      PROVE  InDb(db, l, p) \/ Has(r[h], Ends(l, p)) \/ Has(td[h], {Start(l, p)})
    BY DEF Right
  <2>1. pt[h][p] = l /\ (h = g => x \notin Ends(l, p))
    BY <1>s
  <2>2. InDb(db, l, p) \/ Has(tg[h], Ends(l, p)) \/ Has(td[h], {Start(l, p)})
    BY <2>1 DEF PartyInv, Right
  <2>3. Has(tg[h], Ends(l, p)) => Has(r[h], Ends(l, p))
    BY <2>1, <1>r DEF Takes
  <2> QED  BY <2>2, <2>3
<1>15. Rightly(pt2, db, r)
  BY <1>b, <1>f DEF PartyInv, Rightly
<1>16. NoClash(pt2, r)
  <2> SUFFICES ASSUME NEW h \in Games, NEW l \in Players, NEW m \in Players, NEW p \in Players, l # m
      PROVE  /\ pt2[h][p] = l => Led(r[h], Ends(l, p), Start(m, p))
             /\ Doomed(pt2[h], r[h], l) \/ Sep(r[h], Start(l, p), Ends(l, p), Start(m, p))
    BY DEF NoClash
  <2>1. /\ pt[h][p] = l => Led(tg[h], Ends(l, p), Start(m, p))
        /\ Doomed(pt[h], tg[h], l) \/ Sep(tg[h], Start(l, p), Ends(l, p), Start(m, p))
    BY DEF PartyInv, NoClash
  <2>2. Doomed(pt2[h], r[h], l) \/ Sep(r[h], Start(l, p), Ends(l, p), Start(m, p))
    BY <2>1, <1>b, <1>r DEF Takes
  <2>3. pt2[h][p] = l => Led(r[h], Ends(l, p), Start(m, p))
    BY <2>1, <1>s, <1>r DEF Takes
  <2> QED  BY <2>2, <2>3
<1>17. Heard(pt2, r)
  <2> SUFFICES ASSUME NEW h \in Games, NEW l \in Players, Has(r[h], {Created(l)})
      PROVE  pt2[h][l] # l /\ First(r[h], Created(l), Named(l))
    BY DEF Heard
  <2>1. pt[h][l] # l /\ First(tg[h], Created(l), Named(l))
    BY <1>u DEF PartyInv, Heard
  <2>2. First(r[h], Created(l), Named(l))
    BY <2>1, <1>r DEF Takes
  <2> QED  BY <2>1, <2>2, <1>s
<1> QED
  BY <1>1, <1>2, <1>3, <1>4, <1>5, <1>6, <1>7, <1>8, <1>9, <1>10, <1>12, <1>13, <1>14, <1>15, <1>16, <1>17
     DEF PartyInv

-----------------------------------------------------------------------------
(* Players enter and leave; parties are made and left.                     *)

(* A player enters the game at g.                                          *)
LEMMA EnterKeeps ==
    ASSUME PartyAssumption,
           NEW pt, NEW wh, NEW ln, NEW db, NEW td, NEW tg, PartyInv(pt, wh, ln, db, td, tg),
           NEW g \in Games, NEW p0 \in Players,
           NEW r, Pops(ToGamePackets, r, tg, g, Loaded(p0)),
           NEW wh2, wh2 = With(wh, p0, g), Loads(wh2, r),
           NEW ln2, ln \subseteq ln2, pt[g][p0] # None => p0 \in ln2
    PROVE  PartyInv(pt, wh2, ln2, db, td, r)
<1> USE DEF With, Knowing
<1> DEFINE x == Loaded(p0)
<1>x. /\ \A m, o \in Players : x # Start(m, o) /\ x \notin Ends(m, o) /\ x # Removed(m, o)
      /\ \A m \in Players : x # Created(m) /\ x # Deleted(m) /\ x \notin Named(m)
  BY LogPacketsAre
<1>p. Pops(ToGamePackets, r, tg, g, x)
  OBVIOUS
<1>y. x = Loaded(p0)
  OBVIOUS
<1> HIDE DEF x
<1>r. r \in [Games -> Seq(ToGamePackets)] /\ Takes(r, tg, g, x) /\ Took(r[g], tg[g], x)
  BY <1>p, OneTaken
<1>u. \A h \in Games : \A S : Has(r[h], S) => Has(tg[h], S)
  BY <1>r DEF Takes
<1>t. Types(pt, wh, db, td, tg) /\ None \notin Games
  BY DEF PartyInv, PartyAssumption
<1>k. Has(tg[g], {Loaded(p0)})
  BY <1>r, <1>y DEF Took
<1>q. /\ wh[p0] = None /\ wh2[p0] = g /\ \A q \in Players : q # p0 => wh2[q] = wh[q]
      /\ \A h \in Games : ~Has(td[h], {LoggedOut(p0)})
  BY <1>t, <1>k DEF Types, PartyInv, Loads, Logouts
<1>i. PartyInv(pt, wh, ln, db, td, r)
  BY <1>p, <1>x, ToldIdleKeeps
<1>1. Types(pt, wh2, db, td, r)
  BY <1>t, <1>r DEF Types
<1>2. Links(pt, wh2, ln2)
  BY <1>q, <1>t DEF PartyInv, Links
<1>3. Logouts(wh2, td, r)
  BY <1>q, <1>i DEF PartyInv, Logouts
<1>4. Sent(wh2, td)
  <2>1. \A h \in Games, q \in Players : \A z : Stays(wh, td[h], q, h, z) => Stays(wh2, td[h], q, h, z)
    BY <1>q, <1>t DEF Stays
  <2> QED  BY <2>1 DEF PartyInv, Sent
<1>5. Told(wh2, td, r)
  <2>1. \A h \in Games, q \in Players : \A z :
           Has(r[h], {z}) /\ Away(wh, td[h], tg[h], q, h, z) => Away(wh2, td[h], r[h], q, h, z)
    <3> SUFFICES ASSUME NEW h \in Games, NEW q \in Players, NEW z,
                        Has(r[h], {z}), Away(wh, td[h], tg[h], q, h, z)
                 PROVE  Away(wh2, td[h], r[h], q, h, z)
      OBVIOUS
    <3>1. ~(q = p0 /\ h = g)
      BY <1>r, <1>y DEF Away, Took
    <3>2. wh2[q] # h
      BY <3>1, <1>q DEF Away
    <3>3. Unled(r[h], Loaded(q), z)
      BY <1>r DEF Away, Takes
    <3> QED  BY <3>2, <3>3 DEF Away
  <2> QED  BY <1>u, <2>1 DEF PartyInv, Told
<1> QED  BY <1>i, <1>1, <1>2, <1>3, <1>4, <1>5 DEF PartyInv

(* A game sends the level of a member, or makes a leader member of his own *)
(* party.                                                                  *)
LEMMA LevelKeeps ==
    ASSUME NEW pt, NEW wh, NEW ln, NEW db, NEW td, NEW tg, PartyInv(pt, wh, ln, db, td, tg),
           NEW g \in Games, NEW l0 \in Players, pt[g][l0] = l0,
           NEW x, Neutral(x, l0), NEW e, Puts(ToDbPackets, e, td, {g}, x)
    PROVE  PartyInv(pt, wh, ln, db, e, tg)
<1>e. e \in [Games -> Seq(ToDbPackets)] /\ Gives(e, td, {g}, x)
  BY OneGiven
<1>x. /\ \A m, o \in Players : x # Start(m, o) /\ x \notin Ends(m, o) /\ x # Removed(m, o)
      /\ \A m \in Players : x # LoggedOut(m) /\ x # Loaded(m) /\ x # Created(m) /\ x # Deleted(m)
      /\ \A m \in Players : x \in Named(m) <=> m = l0
  BY DEF Neutral
<1>u. \A h \in Games : \A S : Has(e[h], S) => Has(td[h], S) \/ (h = g /\ x \in S)
  BY <1>e DEF Gives
<1>v. \A h \in Games : \A S : Has(td[h], S) => Has(e[h], S)
  BY <1>e DEF Gives
<1>i. \A h \in Games, p \in Players :
         /\ Has(e[h], {LoggedOut(p)}) => Has(td[h], {LoggedOut(p)})
         /\ Has(e[h], {Created(p)}) => Has(td[h], {Created(p)})
         /\ Has(e[h], {Deleted(p)}) => Has(td[h], {Deleted(p)})
         /\ Has(e[h], Named(p)) => Has(td[h], Named(p)) \/ (h = g /\ p = l0)
         /\ \A o \in Players : /\ Has(e[h], {Start(p, o)}) => Has(td[h], {Start(p, o)})
                               /\ Has(e[h], {Removed(p, o)}) => Has(td[h], {Removed(p, o)})
  BY <1>u, <1>x
<1>f. /\ \A h \in Games, l, p \in Players : \A S :
            /\ Followed(td[h], Start(l, p), S) => Followed(e[h], Start(l, p), S)
            /\ Followed(td[h], Removed(l, p), S) => Followed(e[h], Removed(l, p), S)
      /\ \A h \in Games, l, p \in Players : \A S : Led(td[h], S, Start(l, p)) => Led(e[h], S, Start(l, p))
  BY <1>e, <1>x DEF Gives
<1>t. Types(pt, wh, db, td, tg)
  BY DEF PartyInv
<1>d. \A l \in Players : Dead(db, td, l) => Dead(db, e, l)
  BY <1>i DEF Dead
<1>1. Types(pt, wh, db, e, tg)
  BY <1>t, <1>e DEF Types
<1>2. /\ Loads(wh, tg) /\ Lead(pt) /\ Links(pt, wh, ln) /\ OneInDb(db) /\ Heard(pt, tg)
      /\ Rightly(pt, db, tg) /\ NoClash(pt, tg)
  BY DEF PartyInv
<1>3. Kinds(e, tg)
  BY <1>i DEF PartyInv, Kinds
<1>4. Logouts(wh, e, tg)
  BY <1>i DEF PartyInv, Logouts
<1>5. Sent(wh, e)
  BY <1>f DEF PartyInv, Sent, Stays
<1>6. Told(wh, e, tg)
  <2>1. \A h \in Games, q \in Players : \A z : Away(wh, td[h], tg[h], q, h, z) =>
           Away(wh, e[h], tg[h], q, h, z)
    BY <1>i DEF Away
  <2> QED  BY <2>1 DEF PartyInv, Told
<1>7. Founded(pt, db, e, tg)
  <2> SUFFICES ASSUME NEW k \in Games, NEW l \in Players, Has(td[k], {Created(l)})
      PROVE  /\ l \notin DOMAIN db /\ First(e[k], Created(l), Named(l))
             /\ \A h \in Games : ~Has(tg[h], Named(l))
             /\ \A h \in Games \ {k} : ~Has(e[h], Named(l)) /\ pt[h][l] # l
    BY <1>i DEF Founded
  <2>3. /\ l \notin DOMAIN db /\ First(td[k], Created(l), Named(l))
        /\ \A h \in Games : ~Has(tg[h], Named(l))
        /\ \A h \in Games \ {k} : ~Has(td[h], Named(l)) /\ pt[h][l] # l
    BY DEF PartyInv, Founded
  <2>4. First(e[k], Created(l), Named(l))
    BY <2>3, <1>e, <1>x DEF Gives
  <2>5. g = k \/ l # l0
    BY <2>3
  <2> QED  BY <2>3, <2>4, <2>5, <1>i
<1>8. Over(pt, db, e, tg)
  BY <1>i DEF PartyInv, Over
<1>9. Rejoined(pt, e)
  BY <1>f DEF PartyInv, Rejoined
<1>11. Ordered(db, e)
  <2> SUFFICES ASSUME NEW h \in Games, NEW l \in Players, NEW m \in Players, NEW p \in Players, l # m
      PROVE  /\ InDb(db, l, p) => Led(e[h], Ends(l, p), Start(m, p))
             /\ Dead(db, e, l) \/ Sep(e[h], Start(l, p), Ends(l, p), Start(m, p))
    BY DEF Ordered
  <2>1. /\ InDb(db, l, p) => Led(td[h], Ends(l, p), Start(m, p))
        /\ Dead(db, td, l) \/ Sep(td[h], Start(l, p), Ends(l, p), Start(m, p))
    BY DEF PartyInv, Ordered
  <2>2. Sep(td[h], Start(l, p), Ends(l, p), Start(m, p)) => Sep(e[h], Start(l, p), Ends(l, p), Start(m, p))
    BY <1>e, <1>x DEF Gives
  <2> QED  BY <2>1, <2>2, <1>d, <1>f
<1>12. Known(pt, db, e, tg)
  BY <1>v DEF PartyInv, Known
<1>13. Own(pt, db, e, tg)
  BY <1>d, <1>f DEF PartyInv, Own
<1>14. Right(pt, db, e, tg)
  BY <1>v DEF PartyInv, Right
<1> QED
  BY <1>1, <1>2, <1>3, <1>4, <1>5, <1>6, <1>7, <1>8, <1>9, <1>11, <1>12, <1>13, <1>14 DEF PartyInv

(* A player leaves the game at g.                                          *)
LEMMA LogoutKeeps ==
    ASSUME PartyAssumption,
           NEW pt, NEW wh, NEW ln, NEW db, NEW td, NEW tg, PartyInv(pt, wh, ln, db, td, tg),
           NEW g \in Games, NEW p0 \in Players, wh[p0] = g,
           NEW e, Puts(ToDbPackets, e, td, {g}, LoggedOut(p0)),
           NEW wh2, wh2 = With(wh, p0, None),
           NEW ln2, \A p : p \in ln2 <=> p \in ln /\ p # p0
    PROVE  PartyInv(pt, wh2, ln2, db, e, tg)
<1> USE DEF With, Knowing
<1> DEFINE x == LoggedOut(p0)
<1>x. /\ \A m, o \in Players : x # Start(m, o) /\ x \notin Ends(m, o) /\ x # Removed(m, o)
      /\ \A m \in Players : x # Created(m) /\ x # Deleted(m) /\ x \notin Named(m)
      /\ \A m \in Players : x = LoggedOut(m) <=> m = p0
  BY LogPacketsAre
<1>p. Puts(ToDbPackets, e, td, {g}, x)
  OBVIOUS
<1>y. x = LoggedOut(p0)
  OBVIOUS
<1> HIDE DEF x
<1>e. e \in [Games -> Seq(ToDbPackets)] /\ Gives(e, td, {g}, x)
  BY <1>p, OneGiven
<1>u. \A h \in Games : \A S : Has(e[h], S) => Has(td[h], S) \/ (h = g /\ x \in S)
  BY <1>e DEF Gives
<1>v. \A h \in Games : \A S : Has(td[h], S) => Has(e[h], S)
  BY <1>e DEF Gives
<1>i. \A h \in Games, p \in Players :
         /\ Has(e[h], {LoggedOut(p)}) => Has(td[h], {LoggedOut(p)}) \/ (h = g /\ p = p0)
         /\ Has(e[h], {Created(p)}) => Has(td[h], {Created(p)})
         /\ Has(e[h], {Deleted(p)}) => Has(td[h], {Deleted(p)})
         /\ Has(e[h], Named(p)) => Has(td[h], Named(p))
         /\ \A o \in Players : /\ Has(e[h], {Start(p, o)}) => Has(td[h], {Start(p, o)})
                               /\ Has(e[h], {Removed(p, o)}) => Has(td[h], {Removed(p, o)})
  BY <1>u, <1>x
<1>f. /\ \A h \in Games, l, p \in Players : \A S :
            /\ Followed(td[h], Start(l, p), S) => Followed(e[h], Start(l, p), S)
            /\ Followed(td[h], Removed(l, p), S) => Followed(e[h], Removed(l, p), S)
      /\ \A h \in Games, l, p \in Players : \A S : Led(td[h], S, Start(l, p)) => Led(e[h], S, Start(l, p))
  BY <1>e, <1>x DEF Gives
<1>t. Types(pt, wh, db, td, tg) /\ None \notin Games
  BY DEF PartyInv, PartyAssumption
<1>q. wh2[p0] = None /\ \A q \in Players : q # p0 => wh2[q] = wh[q]
  BY <1>t DEF Types
<1>l. \A h \in Games : ~Has(tg[h], {Loaded(p0)}) /\ ~Has(td[h], {LoggedOut(p0)})
  BY <1>t DEF PartyInv, Loads, Logouts
<1>d. \A l \in Players : Dead(db, td, l) => Dead(db, e, l)
  BY <1>i DEF Dead
<1>1. Types(pt, wh2, db, e, tg)
  BY <1>t, <1>e DEF Types
<1>2. /\ Lead(pt) /\ OneInDb(db) /\ Heard(pt, tg)
      /\ Rightly(pt, db, tg) /\ NoClash(pt, tg)
  BY DEF PartyInv
<1>10. Loads(wh2, tg)
  BY <1>q DEF PartyInv, Loads
<1>15. Links(pt, wh2, ln2)
  BY <1>q, <1>t DEF PartyInv, Links
<1>3. Kinds(e, tg)
  BY <1>i DEF PartyInv, Kinds
<1>4. Logouts(wh2, e, tg)
  <2> SUFFICES ASSUME NEW k \in Games, NEW h \in Games, NEW p \in Players, Has(e[k], {LoggedOut(p)})
      PROVE  /\ wh2[p] = None /\ ~Has(tg[h], {Loaded(p)})
             /\ Has(e[h], {LoggedOut(p)}) => k = h
    BY DEF Logouts
  <2>1. CASE p = p0
    BY <2>1, <1>i, <1>q, <1>l
  <2>2. CASE p # p0
    BY <2>2, <1>i, <1>q DEF PartyInv, Logouts
  <2> QED  BY <2>1, <2>2
<1>5. Sent(wh2, e)
  <2> SUFFICES ASSUME NEW h \in Games, NEW l \in Players, NEW p \in Players
      PROVE  /\ Stays(wh2, e[h], l, h, Start(l, p)) /\ Stays(wh2, e[h], p, h, Start(l, p))
             /\ \/ Stays(wh2, e[h], l, h, Removed(l, p))
                \/ Stays(wh2, e[h], p, h, Removed(l, p))
    BY DEF Sent
  <2>1. \A q \in Players : \A y \in {Start(l, p), Removed(l, p)} :
            Stays(wh, td[h], q, h, y) => Stays(wh2, e[h], q, h, y)
    <3> SUFFICES ASSUME NEW q \in Players, NEW y \in {Start(l, p), Removed(l, p)}, Stays(wh, td[h], q, h, y)
                 PROVE  Stays(wh2, e[h], q, h, y)
      OBVIOUS
    <3>1. Followed(td[h], y, {LoggedOut(q)}) => Followed(e[h], y, {LoggedOut(q)})
      BY <1>f
    <3>2. CASE q = p0 /\ h = g
      <4>1. x # y
        BY <1>x
      <4>2. Followed(e[h], y, {LoggedOut(q)})
        BY <3>2, <4>1, <1>e, <1>y DEF Gives
      <4> QED  BY <4>2 DEF Stays
    <3>3. CASE ~(q = p0 /\ h = g)
      BY <3>1, <3>3, <1>q DEF Stays
    <3> QED  BY <3>2, <3>3
  <2> QED  BY <2>1 DEF PartyInv, Sent
<1>6. Told(wh2, e, tg)
  <2>1. \A h \in Games, q \in Players : \A z : Away(wh, td[h], tg[h], q, h, z) =>
           Away(wh2, e[h], tg[h], q, h, z)
    BY <1>i, <1>q, <1>t DEF Away
  <2> QED  BY <2>1 DEF PartyInv, Told
<1>7. Founded(pt, db, e, tg)
  <2>1. \A h \in Games, l \in Players : First(td[h], Created(l), Named(l)) => First(e[h], Created(l), Named(l))
    BY <1>e, <1>x DEF Gives
  <2> QED  BY <1>i, <2>1 DEF PartyInv, Founded
<1>8. Over(pt, db, e, tg)
  BY <1>i DEF PartyInv, Over
<1>9. Rejoined(pt, e)
  BY <1>f DEF PartyInv, Rejoined
<1>11. Ordered(db, e)
  <2> SUFFICES ASSUME NEW h \in Games, NEW l \in Players, NEW m \in Players, NEW p \in Players, l # m
      PROVE  /\ InDb(db, l, p) => Led(e[h], Ends(l, p), Start(m, p))
             /\ Dead(db, e, l) \/ Sep(e[h], Start(l, p), Ends(l, p), Start(m, p))
    BY DEF Ordered
  <2>1. /\ InDb(db, l, p) => Led(td[h], Ends(l, p), Start(m, p))
        /\ Dead(db, td, l) \/ Sep(td[h], Start(l, p), Ends(l, p), Start(m, p))
    BY DEF PartyInv, Ordered
  <2>2. Sep(td[h], Start(l, p), Ends(l, p), Start(m, p)) => Sep(e[h], Start(l, p), Ends(l, p), Start(m, p))
    BY <1>e, <1>x DEF Gives
  <2> QED  BY <2>1, <2>2, <1>d, <1>f
<1>12. Known(pt, db, e, tg)
  BY <1>v DEF PartyInv, Known
<1>13. Own(pt, db, e, tg)
  BY <1>d, <1>f DEF PartyInv, Own
<1>14. Right(pt, db, e, tg)
  BY <1>v DEF PartyInv, Right
<1> QED
  BY <1>1, <1>2, <1>3, <1>4, <1>5, <1>6, <1>7, <1>8, <1>9, <1>10, <1>11, <1>12, <1>13, <1>14, <1>15 DEF PartyInv

(* Nothing is left of an earlier party of l but at g: neither in the db,   *)
(* nor in a replica, nor on the way.                                       *)
Forgotten(pt, db, td, tg, g, l) ==
    /\ l \notin DOMAIN db
    /\ \A h \in Games : /\ ~Has(td[h], Named(l)) /\ ~Has(tg[h], Named(l))
                        /\ h # g => pt[h][l] # l

(* A player who is at g, as the leader is, joins a party; or its leader    *)
(* makes it.                                                               *)
LEMMA JoinKeeps ==
    ASSUME PartyAssumption,
           NEW pt, NEW wh, NEW ln, NEW db, NEW td, NEW tg, PartyInv(pt, wh, ln, db, td, tg),
           NEW g \in Games, NEW l0 \in Players, NEW p0 \in Players, wh[l0] = g, wh[p0] = g,
           pt[g][p0] = None, p0 # l0 => pt[g][l0] = l0,
           p0 = l0 => Forgotten(pt, db, td, tg, g, l0),
           NEW e, Puts(ToDbPackets, e, td, {g}, Start(l0, p0)),
           NEW pt2, pt2 = With(pt, g, With(pt[g], p0, l0)),
           NEW ln2, ln2 = Also(ln, p0)
    PROVE  PartyInv(pt2, wh, ln2, db, e, tg)
<1> USE DEF With, Also
<1> DEFINE x == Start(l0, p0)
<1>x. /\ \A m, o \in Players : x = Start(m, o) <=> m = l0 /\ o = p0
      /\ \A m, o \in Players : x \notin Ends(m, o) /\ x # Deleted(m) /\ x # Removed(m, o)
      /\ \A m \in Players : x # LoggedOut(m) /\ x # Loaded(m)
      /\ \A m \in Players : x \in Named(m) <=> m = l0
      /\ \A m \in Players : x = Created(m) <=> m = l0 /\ m = p0
  BY StartIs
<1>p. Puts(ToDbPackets, e, td, {g}, x)
  OBVIOUS
<1>y. x = Start(l0, p0)
  OBVIOUS
<1> HIDE DEF x
<1>e. e \in [Games -> Seq(ToDbPackets)] /\ Gives(e, td, {g}, x)
  BY <1>p, OneGiven
<1>u. \A h \in Games : \A S : Has(e[h], S) <=> Has(td[h], S) \/ (h = g /\ x \in S)
  BY <1>e DEF Gives
<1>v. \A h \in Games : \A S : Has(td[h], S) => Has(e[h], S)
  BY <1>u
<1>i. \A h \in Games, p \in Players :
         /\ Has(e[h], {LoggedOut(p)}) => Has(td[h], {LoggedOut(p)})
         /\ Has(e[h], {Created(p)}) => Has(td[h], {Created(p)}) \/ (h = g /\ p = l0 /\ p = p0)
         /\ Has(e[h], {Deleted(p)}) => Has(td[h], {Deleted(p)})
         /\ Has(e[h], Named(p)) => Has(td[h], Named(p)) \/ (h = g /\ p = l0)
         /\ \A o \in Players : Has(e[h], {Removed(p, o)}) => Has(td[h], {Removed(p, o)})
  BY <1>u, <1>x
<1>t. Types(pt, wh, db, td, tg) /\ None \notin Players
  BY DEF PartyInv, PartyAssumption
<1>q. /\ pt2[g][p0] = l0
      /\ \A h \in Games, p \in Players : h # g \/ p # p0 => pt2[h][p] = pt[h][p]
  BY <1>t DEF Types
<1>s. \A h \in Games, l, p \in Players : pt[h][p] = l => pt2[h][p] = l
  BY <1>q, <1>t
<1>c. p0 = l0 => /\ x = Created(l0) /\ l0 \notin DOMAIN db
                 /\ \A h \in Games : /\ ~Has(td[h], Named(l0)) /\ ~Has(tg[h], Named(l0))
                                     /\ h # g => pt[h][l0] # l0
                 /\ \A h \in Games, p \in Players : ~Has(td[h], {Start(l0, p)}) /\ ~Has(tg[h], {Start(l0, p)})
  <2>1. p0 = l0 => x = Created(l0)
    BY <1>x
  <2>2. p0 = l0 => /\ l0 \notin DOMAIN db
                   /\ \A h \in Games : /\ ~Has(td[h], Named(l0)) /\ ~Has(tg[h], Named(l0))
                                       /\ h # g => pt[h][l0] # l0
    BY DEF Forgotten
  <2>3. p0 = l0 => \A h \in Games, p \in Players : ~Has(td[h], {Start(l0, p)}) /\ ~Has(tg[h], {Start(l0, p)})
    BY <2>2, NoneNamed
  <2> QED  BY <2>1, <2>2, <2>3
<1>a. \A q \in {l0, p0} : \A z : ~Away(wh, td[g], tg[g], q, g, z)
  BY DEF Away
<1>d. \A l \in Players : Dead(db, td, l) => Dead(db, e, l) \/ (l = l0 /\ p0 = l0)
  BY <1>i DEF Dead
<1>b. \A h \in Games, l \in Players : Doomed(pt[h], tg[h], l) =>
         Doomed(pt2[h], tg[h], l) \/ (l = l0 /\ p0 = l0 /\ h = g)
  <2> SUFFICES ASSUME NEW h \in Games, NEW l \in Players, Doomed(pt[h], tg[h], l), ~(l = l0 /\ p0 = l0 /\ h = g)
               PROVE  pt2[h][l] # l
    BY DEF Doomed
  <2> QED  BY <1>q DEF Doomed
<1>f. /\ \A h \in Games, l, p \in Players : \A S : Followed(td[h], Removed(l, p), S) => Followed(e[h], Removed(l, p), S)
      /\ \A h \in Games : \A y, S : Followed(td[h], y, S) /\ (h = g => x # y) => Followed(e[h], y, S)
  BY <1>e, <1>x DEF Gives
<1>1. Types(pt2, wh, db, e, tg)
  BY <1>t, <1>e DEF Types
<1>2. Loads(wh, tg) /\ OneInDb(db)
  BY DEF PartyInv
<1>3. Kinds(e, tg)
  BY <1>i DEF PartyInv, Kinds
<1>4. Logouts(wh, e, tg)
  BY <1>i DEF PartyInv, Logouts
<1>5. Lead(pt2)
  <2> SUFFICES ASSUME NEW h \in Games, NEW l \in Players, NEW p \in Players, pt2[h][p] = l
               PROVE  pt2[h][l] = l
    BY DEF Lead
  <2>1. CASE h = g /\ p = p0
    <3>1. l = l0
      BY <2>1, <1>q
    <3>2. CASE p0 = l0
      BY <2>1, <3>1, <3>2, <1>q
    <3>3. CASE p0 # l0
      BY <2>1, <3>1, <3>3, <1>q
    <3> QED  BY <3>2, <3>3
  <2>2. CASE ~(h = g /\ p = p0)
    <3>1. pt[h][l] = l
      BY <2>2, <1>q DEF PartyInv, Lead
    <3> QED  BY <3>1, <1>s, <1>t
  <2> QED  BY <2>1, <2>2
<1>9. Links(pt2, wh, ln2)
  BY <1>q DEF PartyInv, Links
<1>10. Rejoined(pt2, e)
  <2> SUFFICES ASSUME NEW h \in Games, NEW l \in Players, NEW p \in Players, pt2[h][p] = l
               PROVE  Followed(e[h], Removed(l, p), {Start(l, p)})
    BY DEF Rejoined
  <2>1. CASE h = g /\ p = p0
    <3>1. x \in {Start(l, p)} /\ x # Removed(l, p)
      BY <2>1, <1>q, <1>x, <1>y
    <3> QED  BY <2>1, <3>1, <1>e DEF Gives
  <2>2. CASE ~(h = g /\ p = p0)
    BY <2>2, <1>q, <1>f DEF PartyInv, Rejoined
  <2> QED  BY <2>1, <2>2
<1>18. Sent(wh, e)
  <2> SUFFICES ASSUME NEW h \in Games, NEW l \in Players, NEW p \in Players
      PROVE  /\ Stays(wh, e[h], l, h, Start(l, p)) /\ Stays(wh, e[h], p, h, Start(l, p))
             /\ \/ Stays(wh, e[h], l, h, Removed(l, p))
                \/ Stays(wh, e[h], p, h, Removed(l, p))
    BY DEF Sent
  <2>1. /\ Stays(wh, td[h], l, h, Start(l, p)) /\ Stays(wh, td[h], p, h, Start(l, p))
        /\ Stays(wh, td[h], l, h, Removed(l, p)) \/ Stays(wh, td[h], p, h, Removed(l, p))
    BY DEF PartyInv, Sent
  <2>2. Stays(wh, e[h], l, h, Removed(l, p)) \/ Stays(wh, e[h], p, h, Removed(l, p))
    BY <2>1, <1>f DEF Stays
  <2>3. CASE h = g /\ x = Start(l, p)
    <3>1. l = l0 /\ p = p0
      BY <2>3, <1>x
    <3> QED  BY <2>2, <2>3, <3>1 DEF Stays
  <2>4. CASE ~(h = g /\ x = Start(l, p))
    BY <2>1, <2>2, <2>4, <1>f DEF Stays
  <2> QED  BY <2>3, <2>4
<1>6. Told(wh, e, tg)
  <2>1. \A h \in Games, q \in Players : \A z : Away(wh, td[h], tg[h], q, h, z) =>
           Away(wh, e[h], tg[h], q, h, z)
    BY <1>i DEF Away
  <2> QED  BY <2>1 DEF PartyInv, Told
<1>7. Founded(pt2, db, e, tg)
  <2> SUFFICES ASSUME NEW k \in Games, NEW l \in Players, Has(e[k], {Created(l)})
      PROVE  /\ l \notin DOMAIN db /\ First(e[k], Created(l), Named(l))
             /\ \A h \in Games : ~Has(tg[h], Named(l))
             /\ \A h \in Games \ {k} : ~Has(e[h], Named(l)) /\ pt2[h][l] # l
    BY DEF Founded
  <2>1. CASE l = l0 /\ p0 = l0
    <3>1. k = g
      <4>1. ~Has(td[k], {Created(l)})
        BY <2>1, <1>c, NoneNamed
      <4> QED  BY <4>1, <1>i
    <3>2. First(e[k], Created(l), Named(l))
      <4>1. First(td[g], Created(l), Named(l))
        <5>1. ~Has(td[g], {Created(l)})
          BY <2>1, <1>c, NoneNamed
        <5> QED  BY <5>1, Absent1
      <4>2. ~Has(td[g], Named(l)) /\ x = Created(l)
        BY <2>1, <1>c
      <4> QED  BY <3>1, <4>1, <4>2, <1>e DEF Gives
    <3>3. ASSUME NEW h \in Games, h # k PROVE ~Has(e[h], Named(l)) /\ pt2[h][l] # l
      <4>1. h # g /\ ~Has(td[h], Named(l)) /\ pt[h][l] # l
        BY <2>1, <3>1, <3>3, <1>c
      <4>2. ~Has(e[h], Named(l))
        BY <4>1, <1>i
      <4>3. pt2[h][l] # l
        BY <4>1, <1>q
      <4> QED  BY <4>2, <4>3
    <3>4. l \notin DOMAIN db /\ \A h \in Games : ~Has(tg[h], Named(l))
      BY <2>1, <1>c
    <3> QED  BY <3>2, <3>3, <3>4
  <2>2. CASE ~(l = l0 /\ p0 = l0)
    <3>1. Has(td[k], {Created(l)}) /\ x # Created(l)
      BY <2>2, <1>i, <1>x
    <3>3. /\ l \notin DOMAIN db /\ First(td[k], Created(l), Named(l))
          /\ \A h \in Games : ~Has(tg[h], Named(l))
          /\ \A h \in Games \ {k} : ~Has(td[h], Named(l)) /\ pt[h][l] # l
      BY <3>1 DEF PartyInv, Founded
    <3>4. First(e[k], Created(l), Named(l))
      BY <3>1, <3>3, <1>e DEF Gives
    <3>5. g = k \/ l # l0
      BY <2>2, <3>3
    <3>6. ASSUME NEW h \in Games, h # k PROVE ~Has(e[h], Named(l)) /\ pt2[h][l] # l
      <4>1. ~Has(td[h], Named(l)) /\ pt[h][l] # l
        BY <3>3, <3>6
      <4>2. ~Has(e[h], Named(l))
        BY <3>5, <3>6, <4>1, <1>i
      <4>3. pt2[h][l] # l
        BY <2>2, <4>1, <1>q
      <4> QED  BY <4>2, <4>3
    <3> QED  BY <3>3, <3>4, <3>6
  <2> QED  BY <2>1, <2>2
<1>17. Heard(pt2, tg)
  <2> SUFFICES ASSUME NEW h \in Games, NEW l \in Players, Has(tg[h], {Created(l)})
      PROVE  pt2[h][l] # l /\ First(tg[h], Created(l), Named(l))
    BY DEF Heard
  <2>1. pt[h][l] # l /\ First(tg[h], Created(l), Named(l))
    BY DEF PartyInv, Heard
  <2>3. ~(l = l0 /\ p0 = l0)
    BY <1>c, NoneNamed
  <2> QED  BY <2>1, <2>3, <1>q
<1>8. Over(pt2, db, e, tg)
  <2>1. \A h \in Games : p0 = l0 => ~Has(td[h], {Deleted(l0)})
    BY <1>c, NoneNamed
  <2> QED  BY <2>1, <1>i, <1>b DEF PartyInv, Over
<1>11. Ordered(db, e)
  <2> SUFFICES ASSUME NEW h \in Games, NEW l \in Players, NEW m \in Players, NEW p \in Players, l # m
      PROVE  /\ InDb(db, l, p) => Led(e[h], Ends(l, p), Start(m, p))
             /\ Dead(db, e, l) \/ Sep(e[h], Start(l, p), Ends(l, p), Start(m, p))
    BY DEF Ordered
  <2>1. /\ InDb(db, l, p) => Led(td[h], Ends(l, p), Start(m, p))
        /\ Dead(db, td, l) \/ Sep(td[h], Start(l, p), Ends(l, p), Start(m, p))
    BY DEF PartyInv, Ordered
  <2>2. ASSUME h = g, x = Start(m, p) PROVE m = l0 /\ p = p0 /\ l # l0 /\ pt[g][p] # l
    BY <2>2, <1>x, <1>t
  <2>3. ASSUME InDb(db, l, p), h = g, x = Start(m, p) PROVE Has(td[h], Ends(l, p))
    <3>1. ~Stands(tg[g], Start(l, p), Ends(l, p))
      <4> SUFFICES ASSUME Stands(tg[g], Start(l, p), Ends(l, p)) PROVE FALSE
        OBVIOUS
      <4>1. Has(tg[g], {Start(l, p)})
        BY Absent1
      <4> QED  BY <4>1, <2>2, <2>3, <1>a DEF PartyInv, Told
    <3> QED  BY <2>2, <2>3, <3>1 DEF PartyInv, Known
  <2>4. InDb(db, l, p) => Led(e[h], Ends(l, p), Start(m, p))
    BY <2>1, <2>3, <1>e DEF Gives
  <2>5. CASE l = l0 /\ p0 = l0
    <3>1. ~Has(td[h], {Start(l, p)})
      BY <1>c, <2>5
    <3>2. Sep(td[h], Start(l, p), Ends(l, p), Start(m, p))
      BY <3>1, Absent1
    <3>3. ~(h = g /\ x = Start(m, p))
      BY <2>2, <2>5
    <3> QED  BY <2>4, <3>2, <3>3, <1>e DEF Gives
  <2>6. CASE ~(l = l0 /\ p0 = l0)
    <3>1. ASSUME ~Dead(db, e, l) PROVE Sep(e[h], Start(l, p), Ends(l, p), Start(m, p))
      <4>1. ~Dead(db, td, l)
        BY <2>6, <3>1, <1>d
      <4>2. ASSUME h = g, x = Start(m, p) PROVE Followed(td[h], Start(l, p), Ends(l, p))
        BY <2>2, <4>1, <4>2 DEF PartyInv, Own
      <4> QED  BY <2>1, <4>1, <4>2, <1>e DEF Gives
    <3> QED  BY <2>4, <3>1
  <2> QED  BY <2>5, <2>6
<1>12. Known(pt2, db, e, tg)
  BY <1>v, <1>s DEF PartyInv, Known
<1>13. Own(pt2, db, e, tg)
  <2> SUFFICES ASSUME NEW h \in Games, NEW l \in Players, NEW p \in Players, ~Dead(db, e, l)
      PROVE  \/ pt2[h][p] = l /\ ~Has(tg[h], Ends(l, p))
             \/ Followed(e[h], Start(l, p), Ends(l, p))
    BY DEF Own
  <2>1. CASE h = g /\ x = Start(l, p)
    <3>1. l = l0 /\ p = p0
      BY <2>1, <1>x
    <3>2. pt2[h][p] = l
      BY <2>1, <3>1, <1>q
    <3>3. ~Has(tg[g], Ends(l0, p0))
      <4>1. CASE p0 = l0
        BY <4>1, <1>c, NoneNamed
      <4>2. CASE p0 # l0
        <5>1. ~Has(tg[g], {Removed(l0, p0)})
          BY <1>a DEF PartyInv, Told
        <5>2. ~Has(tg[g], {Deleted(l0)})
          <6> SUFFICES ASSUME Has(tg[g], {Deleted(l0)}) PROVE FALSE
            OBVIOUS
          <6>1. l0 \notin DOMAIN db
            BY DEF PartyInv, Over
          <6>2. Has(tg[g], Named(l0))
            BY NoneNamed
          <6>3. \A k \in Games : ~Has(td[k], {Created(l0)})
            BY <6>2 DEF PartyInv, Founded
          <6>4. Dead(db, e, l0)
            BY <4>2, <6>1, <6>3, <1>i DEF Dead
          <6> QED  BY <3>1, <6>4
        <5> QED  BY <5>1, <5>2, EndsAre
      <4> QED  BY <4>1, <4>2
    <3> QED  BY <2>1, <3>1, <3>2, <3>3
  <2>2. CASE ~(h = g /\ x = Start(l, p))
    <3>1. Followed(td[h], Start(l, p), Ends(l, p)) => Followed(e[h], Start(l, p), Ends(l, p))
      BY <2>2, <1>f
    <3>2. CASE l = l0 /\ p0 = l0
      <4>1. ~Has(td[h], {Start(l, p)})
        BY <1>c, <3>2
      <4> QED  BY <3>1, <4>1, Absent1
    <3>3. CASE ~(l = l0 /\ p0 = l0)
      <4>1. ~Dead(db, td, l)
        BY <3>3, <1>d
      <4> QED  BY <3>1, <4>1, <1>s DEF PartyInv, Own
    <3> QED  BY <3>2, <3>3
  <2> QED  BY <2>1, <2>2
<1>14. Right(pt2, db, e, tg)
  <2> SUFFICES ASSUME NEW h \in Games, NEW l \in Players, NEW p \in Players, pt2[h][p] = l
      PROVE  InDb(db, l, p) \/ Has(tg[h], Ends(l, p)) \/ Has(e[h], {Start(l, p)})
    BY DEF Right
  <2>1. CASE h = g /\ p = p0
    BY <2>1, <1>q, <1>u, <1>y
  <2>2. CASE ~(h = g /\ p = p0)
    BY <2>2, <1>q, <1>v DEF PartyInv, Right
  <2> QED  BY <2>1, <2>2
<1>15. Rightly(pt2, db, tg)
  <2> SUFFICES ASSUME NEW h \in Games, NEW l \in Players, NEW p \in Players
      PROVE  InDb(db, l, p) \/ Doomed(pt2[h], tg[h], l) \/ Followed(tg[h], Start(l, p), Ends(l, p))
    BY DEF Rightly
  <2>1. CASE l = l0 /\ p0 = l0
    <3>1. ~Has(tg[h], {Start(l, p)})
      BY <1>c, <2>1
    <3> QED  BY <3>1, Absent1
  <2>2. CASE ~(l = l0 /\ p0 = l0)
    BY <2>2, <1>b DEF PartyInv, Rightly
  <2> QED  BY <2>1, <2>2
<1>16. NoClash(pt2, tg)
  <2> SUFFICES ASSUME NEW h \in Games, NEW l \in Players, NEW m \in Players, NEW p \in Players, l # m
      PROVE  /\ pt2[h][p] = l => Led(tg[h], Ends(l, p), Start(m, p))
             /\ Doomed(pt2[h], tg[h], l) \/ Sep(tg[h], Start(l, p), Ends(l, p), Start(m, p))
    BY DEF NoClash
  <2>1. /\ pt[h][p] = l => Led(tg[h], Ends(l, p), Start(m, p))
        /\ Doomed(pt[h], tg[h], l) \/ Sep(tg[h], Start(l, p), Ends(l, p), Start(m, p))
    BY DEF PartyInv, NoClash
  <2>2. pt2[h][p] = l => Led(tg[h], Ends(l, p), Start(m, p))
    <3>1. CASE h = g /\ p = p0
      <4>1. ~Has(tg[g], {Start(m, p0)})
        BY <1>a DEF PartyInv, Told
      <4> QED  BY <3>1, <4>1, Absent1
    <3>2. CASE ~(h = g /\ p = p0)
      BY <2>1, <3>2, <1>q
    <3> QED  BY <3>1, <3>2
  <2>3. CASE l = l0 /\ p0 = l0
    <3>1. ~Has(tg[h], {Start(l, p)})
      BY <1>c, <2>3
    <3> QED  BY <2>2, <3>1, Absent1
  <2>4. CASE ~(l = l0 /\ p0 = l0)
    BY <2>1, <2>2, <2>4, <1>b
  <2> QED  BY <2>3, <2>4
<1> QED
  BY <1>1, <1>2, <1>3, <1>4, <1>5, <1>6, <1>7, <1>8, <1>9, <1>10, <1>11, <1>12, <1>13, <1>14, <1>15, <1>16,
     <1>17, <1>18
     DEF PartyInv

(* A player leaves a party of g, or its leader or one of the last two      *)
(* deletes it.                                                             *)
LEMMA LeaveKeeps ==
    ASSUME PartyAssumption,
           NEW pt, NEW wh, NEW ln, NEW db, NEW td, NEW tg, PartyInv(pt, wh, ln, db, td, tg),
           NEW g \in Games, NEW l0 \in Players, NEW p0 \in Players, NEW x \in Ends(l0, p0),
           pt[g][p0] = l0, wh[p0] = g \/ wh[l0] = g, x = Removed(l0, p0) => p0 # l0,
           NEW e, Puts(ToDbPackets, e, td, {g}, x),
           NEW pt2, pt2 = With(pt, g, Dropped(pt[g], x)),
           NEW ln2, ln2 = Knowing(ln, wh, g, pt2, pt)
    PROVE  PartyInv(pt2, wh, ln2, db, e, tg)
<1> USE DEF With, Knowing
<1>y. x = Deleted(l0) \/ x = Removed(l0, p0)
  BY DEF Ends
<1>x. /\ \A m, o \in Players : x # Start(m, o)
      /\ \A m \in Players : x # LoggedOut(m) /\ x # Loaded(m) /\ x # Created(m) /\ x # Removed(m, m)
      /\ \A m, o \in Players : x \in Ends(m, o) => m = l0
      /\ \A m, o \in Players : x = Removed(m, o) => m = l0 /\ o = p0
      /\ \A m \in Players : x \in Named(m) <=> m = l0
      /\ \A m \in Players : x = Deleted(m) => m = l0 /\ \A o \in Players : x \in Ends(l0, o)
  BY <1>y, DeletedIs, RemovedIs
<1>e. e \in [Games -> Seq(ToDbPackets)] /\ Gives(e, td, {g}, x)
  BY OneGiven
<1>u. \A h \in Games : \A S : Has(e[h], S) <=> Has(td[h], S) \/ (h = g /\ x \in S)
  BY <1>e DEF Gives
<1>v. \A h \in Games : \A S : Has(td[h], S) => Has(e[h], S)
  BY <1>u
<1>i. \A h \in Games, p \in Players :
         /\ Has(e[h], {LoggedOut(p)}) => Has(td[h], {LoggedOut(p)})
         /\ Has(e[h], {Created(p)}) => Has(td[h], {Created(p)})
         /\ Has(e[h], {Deleted(p)}) => Has(td[h], {Deleted(p)}) \/ (h = g /\ p = l0 /\ x = Deleted(l0))
         /\ Has(e[h], Named(p)) => Has(td[h], Named(p)) \/ (h = g /\ p = l0)
         /\ \A o \in Players : Has(e[h], {Start(p, o)}) => Has(td[h], {Start(p, o)})
         /\ Has(e[h], {Removed(p, p)}) => Has(td[h], {Removed(p, p)})
  BY <1>u, <1>x
<1>t. Types(pt, wh, db, td, tg) /\ None \notin Players
  BY DEF PartyInv, PartyAssumption
<1>q. /\ \A h \in Games, p \in Players : h # g => pt2[h][p] = pt[h][p]
      /\ \A p \in Players : pt2[g][p] = IF pt[g][p] # None /\ x \in Ends(pt[g][p], p) THEN None ELSE pt[g][p]
  BY <1>t DEF Types, Dropped
<1>s. /\ \A h \in Games, l, p \in Players : pt2[h][p] = l => pt[h][p] = l /\ (h = g => x \notin Ends(l, p))
      /\ \A h \in Games, l, p \in Players : pt[h][p] = l /\ (h = g => x \notin Ends(l, p)) => pt2[h][p] = l
  BY <1>q, <1>t
<1>w. \A h \in Games, l, p \in Players : pt2[h][p] = l => pt[h][p] = l
  BY <1>s
<1>o. pt[g][l0] = l0
  BY DEF PartyInv, Lead
<1>d. \A l \in Players : Dead(db, td, l) => Dead(db, e, l)
  BY <1>i DEF Dead
<1>b. \A h \in Games, l \in Players : Doomed(pt[h], tg[h], l) => Doomed(pt2[h], tg[h], l)
  BY <1>w DEF Doomed
<1>f. \A h \in Games, l, p \in Players : \A S :
         /\ Followed(td[h], Start(l, p), S) => Followed(e[h], Start(l, p), S)
         /\ Followed(td[h], Removed(l, p), S) /\ (h = g => x # Removed(l, p)) => Followed(e[h], Removed(l, p), S)
         /\ Led(td[h], S, Start(l, p)) => Led(e[h], S, Start(l, p))
  BY <1>e, <1>x DEF Gives
<1>1. Types(pt2, wh, db, e, tg)
  <2>1. Dropped(pt[g], x) \in [Players -> Players \cup {None}]
    BY <1>t DEF Types, Dropped
  <2> QED  BY <1>t, <1>e, <2>1 DEF Types
<1>2. Loads(wh, tg) /\ OneInDb(db)
  BY DEF PartyInv
<1>3. Kinds(e, tg)
  BY <1>i DEF PartyInv, Kinds
<1>4. Logouts(wh, e, tg)
  BY <1>i DEF PartyInv, Logouts
<1>5. Lead(pt2)
  <2> SUFFICES ASSUME NEW h \in Games, NEW l \in Players, NEW p \in Players, pt2[h][p] = l
               PROVE  pt2[h][l] = l
    BY DEF Lead
  <2>1. pt[h][p] = l /\ pt[h][l] = l
    BY <1>s DEF PartyInv, Lead
  <2>2. CASE h # g
    BY <2>1, <2>2, <1>s
  <2>3. CASE h = g
    <3>1. x \notin Ends(l, p)
      BY <2>3, <1>s
    <3>2. x # Deleted(l)
      BY <3>1 DEF Ends
    <3>3. x # Removed(l, l)
      BY <1>x
    <3> QED  BY <2>1, <2>3, <3>2, <3>3, <1>s DEF Ends
  <2> QED  BY <2>2, <2>3
<1>9. Links(pt2, wh, ln2)
  <2> SUFFICES ASSUME NEW h \in Games, NEW p \in Players, wh[p] = h, pt2[h][p] # None
               PROVE  p \in ln2
    BY DEF Links
  <2>1. pt2[h][p] = pt[h][p]
    BY <1>q
  <2> QED  BY <2>1 DEF PartyInv, Links
<1>10. Rejoined(pt2, e)
  <2> SUFFICES ASSUME NEW h \in Games, NEW l \in Players, NEW p \in Players, pt2[h][p] = l
               PROVE  Followed(e[h], Removed(l, p), {Start(l, p)})
    BY DEF Rejoined
  <2>1. h = g => x # Removed(l, p)
    BY <1>s DEF Ends
  <2>2. Followed(td[h], Removed(l, p), {Start(l, p)})
    BY <1>w DEF PartyInv, Rejoined
  <2> QED  BY <2>1, <2>2, <1>f
<1>18. Sent(wh, e)
  <2> SUFFICES ASSUME NEW h \in Games, NEW l \in Players, NEW p \in Players
      PROVE  /\ Stays(wh, e[h], l, h, Start(l, p)) /\ Stays(wh, e[h], p, h, Start(l, p))
             /\ \/ Stays(wh, e[h], l, h, Removed(l, p))
                \/ Stays(wh, e[h], p, h, Removed(l, p))
    BY DEF Sent
  <2>1. /\ Stays(wh, td[h], l, h, Start(l, p)) /\ Stays(wh, td[h], p, h, Start(l, p))
        /\ Stays(wh, td[h], l, h, Removed(l, p)) \/ Stays(wh, td[h], p, h, Removed(l, p))
    BY DEF PartyInv, Sent
  <2>2. Stays(wh, e[h], l, h, Start(l, p)) /\ Stays(wh, e[h], p, h, Start(l, p))
    BY <2>1, <1>f DEF Stays
  <2>3. CASE h = g /\ x = Removed(l, p)
    <3>1. l = l0 /\ p = p0
      BY <2>3, <1>x
    <3> QED  BY <2>2, <2>3, <3>1 DEF Stays
  <2>4. CASE ~(h = g /\ x = Removed(l, p))
    BY <2>1, <2>2, <2>4, <1>f DEF Stays
  <2> QED  BY <2>3, <2>4
<1>6. Told(wh, e, tg)
  <2>1. \A h \in Games, q \in Players : \A z : Away(wh, td[h], tg[h], q, h, z) =>
           Away(wh, e[h], tg[h], q, h, z)
    BY <1>i DEF Away
  <2> QED  BY <2>1 DEF PartyInv, Told
<1>7. Founded(pt2, db, e, tg)
  <2> SUFFICES ASSUME NEW k \in Games, NEW l \in Players, Has(td[k], {Created(l)})
      PROVE  /\ l \notin DOMAIN db /\ First(e[k], Created(l), Named(l))
             /\ \A h \in Games : ~Has(tg[h], Named(l))
             /\ \A h \in Games \ {k} : ~Has(e[h], Named(l)) /\ pt2[h][l] # l
    BY <1>i DEF Founded
  <2>3. /\ l \notin DOMAIN db /\ First(td[k], Created(l), Named(l))
        /\ \A h \in Games : ~Has(tg[h], Named(l))
        /\ \A h \in Games \ {k} : ~Has(td[h], Named(l)) /\ pt[h][l] # l
    BY DEF PartyInv, Founded
  <2>4. First(e[k], Created(l), Named(l))
    BY <2>3, <1>e, <1>x DEF Gives
  <2>5. g = k \/ l # l0
    BY <2>3, <1>o
  <2>6. ASSUME NEW h \in Games, h # k PROVE ~Has(e[h], Named(l)) /\ pt2[h][l] # l
    <3>1. ~Has(td[h], Named(l)) /\ pt[h][l] # l
      BY <2>3, <2>6
    <3>2. ~Has(e[h], Named(l))
      BY <2>5, <2>6, <3>1, <1>i
    <3>3. pt2[h][l] # l
      BY <3>1, <1>w
    <3> QED  BY <3>2, <3>3
  <2> QED  BY <2>3, <2>4, <2>6
<1>17. Heard(pt2, tg)
  <2> SUFFICES ASSUME NEW h \in Games, NEW l \in Players, Has(tg[h], {Created(l)})
      PROVE  pt2[h][l] # l /\ First(tg[h], Created(l), Named(l))
    BY DEF Heard
  <2>1. pt[h][l] # l /\ First(tg[h], Created(l), Named(l))
    BY DEF PartyInv, Heard
  <2> QED  BY <2>1, <1>w
<1>8. Over(pt2, db, e, tg)
  <2>1. x = Deleted(l0) => Doomed(pt2[g], tg[g], l0)
    <3>1. x = Deleted(l0) => pt2[g][l0] # l0
      BY <1>s, <1>x
    <3>2. ~Has(tg[g], {Created(l0)})
      BY <1>o DEF PartyInv, Heard
    <3> QED  BY <3>1, <3>2 DEF Doomed
  <2> QED  BY <2>1, <1>i, <1>b DEF PartyInv, Over
<1>11. Ordered(db, e)
  <2> SUFFICES ASSUME NEW h \in Games, NEW l \in Players, NEW m \in Players, NEW p \in Players, l # m
      PROVE  /\ InDb(db, l, p) => Led(e[h], Ends(l, p), Start(m, p))
             /\ Dead(db, e, l) \/ Sep(e[h], Start(l, p), Ends(l, p), Start(m, p))
    BY DEF Ordered
  <2>1. /\ InDb(db, l, p) => Led(td[h], Ends(l, p), Start(m, p))
        /\ Dead(db, td, l) \/ Sep(td[h], Start(l, p), Ends(l, p), Start(m, p))
    BY DEF PartyInv, Ordered
  <2>2. Sep(td[h], Start(l, p), Ends(l, p), Start(m, p)) => Sep(e[h], Start(l, p), Ends(l, p), Start(m, p))
    BY <1>e, <1>x DEF Gives
  <2> QED  BY <2>1, <2>2, <1>d, <1>f
<1>12. Known(pt2, db, e, tg)
  <2> SUFFICES ASSUME NEW h \in Games, NEW l \in Players, NEW p \in Players, InDb(db, l, p)
      PROVE  \/ Stands(tg[h], Start(l, p), Ends(l, p))
             \/ pt2[h][p] = l /\ ~Has(tg[h], Ends(l, p))
             \/ Has(e[h], Ends(l, p))
    BY DEF Known
  <2>1. \/ Stands(tg[h], Start(l, p), Ends(l, p))
        \/ pt[h][p] = l /\ ~Has(tg[h], Ends(l, p))
        \/ Has(td[h], Ends(l, p))
    BY DEF PartyInv, Known
  <2>2. h = g /\ x \in Ends(l, p) => Has(e[h], Ends(l, p))
    BY <1>u
  <2> QED  BY <2>1, <2>2, <1>v, <1>s
<1>13. Own(pt2, db, e, tg)
  <2> SUFFICES ASSUME NEW h \in Games, NEW l \in Players, NEW p \in Players, ~Dead(db, td, l)
      PROVE  \/ pt2[h][p] = l /\ ~Has(tg[h], Ends(l, p))
             \/ Followed(e[h], Start(l, p), Ends(l, p))
    BY <1>d DEF Own
  <2>1. \/ pt[h][p] = l /\ ~Has(tg[h], Ends(l, p))
        \/ Followed(td[h], Start(l, p), Ends(l, p))
    BY DEF PartyInv, Own
  <2>2. h = g /\ x \in Ends(l, p) => Followed(e[h], Start(l, p), Ends(l, p))
    BY <1>e, <1>x DEF Gives
  <2> QED  BY <2>1, <2>2, <1>f, <1>s
<1>14. Right(pt2, db, e, tg)
  BY <1>w, <1>v DEF PartyInv, Right
<1>15. Rightly(pt2, db, tg)
  BY <1>b DEF PartyInv, Rightly
<1>16. NoClash(pt2, tg)
  BY <1>w, <1>b DEF PartyInv, NoClash
<1> QED
  BY <1>1, <1>2, <1>3, <1>4, <1>5, <1>6, <1>7, <1>8, <1>9, <1>10, <1>11, <1>12, <1>13, <1>14, <1>15, <1>16,
     <1>17, <1>18
     DEF PartyInv

NoReplicas == [h \in Games |-> NoParties]
NoPackets  == [h \in Games |-> <<>>]

(* The db, and all games, have no party, and nothing is under way.         *)
LEMMA EmptyHolds ==
    ASSUME PartyAssumption,
           NEW wh \in [Players -> Games \cup {None}], NEW ln, NEW db, DOMAIN db = {},
           NEW pt, pt = NoReplicas,
           NEW td, td = NoPackets
    PROVE  PartyInv(pt, wh, ln, db, td, td)
<1> USE DEF NoReplicas, NoPackets
<1>q. \A g \in Games, p \in Players : pt[g][p] = None
  BY DEF NoParties
<1>n. None \notin Players
  BY DEF PartyAssumption
<1>e. /\ \A g \in Games : td[g] = <<>>
      /\ \A g \in Games : \A S : ~Has(td[g], S)
      /\ \A g \in Games : \A x, S : Followed(td[g], x, S) /\ Led(td[g], S, x) /\ First(td[g], x, S)
      /\ \A g \in Games : \A x, S, y : Sep(td[g], x, S, y) /\ Unled(td[g], y, x)
  BY NoQueue
<1>m. \A l, p \in Players : ~InDb(db, l, p)
  BY DEF InDb
<1>1. Types(pt, wh, db, td, td)
  BY DEF Types, NoParties
<1>2. Loads(wh, td) /\ Kinds(td, td)
  BY <1>e DEF Loads, Kinds
<1>3. Lead(pt) /\ Links(pt, wh, ln)
  BY <1>q, <1>n DEF Lead, Links
<1>4. Logouts(wh, td, td) /\ Sent(wh, td)
  BY <1>e DEF Logouts, Sent, Stays
<1>5. Told(wh, td, td)
  BY <1>e DEF Told
<1>6. Founded(pt, db, td, td) /\ Heard(pt, td) /\ Over(pt, db, td, td)
  BY <1>e DEF Founded, Heard, Over
<1>7. Rejoined(pt, td) /\ OneInDb(db) /\ Ordered(db, td)
  BY <1>e, <1>m DEF Rejoined, OneInDb, Ordered
<1>8. Known(pt, db, td, td) /\ Own(pt, db, td, td)
  BY <1>e, <1>m DEF Known, Own
<1>9. Right(pt, db, td, td) /\ Rightly(pt, db, td) /\ NoClash(pt, td)
  BY <1>e, <1>q, <1>n DEF Right, Rightly, NoClash
<1> QED  BY <1>1, <1>2, <1>3, <1>4, <1>5, <1>6, <1>7, <1>8, <1>9 DEF PartyInv

(* What a game that connects gets: every member of every party, after its  *)
(* leader, and nothing else.                                               *)
Whole(db, q) ==
    /\ q \in Seq({z \in ToGamePackets : z.k # "load"})
    /\ \A l, p \in Players : Has(q, {Start(l, p)}) <=> InDb(db, l, p)
    /\ \A l, p \in Players : ~Has(q, Ends(l, p))
    /\ \A l \in Players : First(q, Created(l), Named(l))
    /\ \A l \in Players : Has(q, Named(l)) => l \in DOMAIN db

(* g has lost what it had, and is to be told q.                            *)
Restarted(pt2, wh2, ln2, e, r, pt, wh, ln, td, tg, g, q) ==
    /\ pt2 = [h \in Games |-> IF h \in {g} THEN NoParties ELSE pt[h]]
    /\ wh2 = [p \in Players |-> IF wh[p] = g THEN None ELSE wh[p]]
    /\ ln2 = {p \in ln : wh[p] \notin {g}}
    /\ e = [h \in Games |-> IF h \in {g} THEN <<>> ELSE td[h]]
    /\ r = [h \in Games |-> IF h \in {g} THEN q ELSE tg[h]]

(* A game is started again.                                                *)
LEMMA RestartKeeps ==
    ASSUME PartyAssumption,
           NEW pt, NEW wh, NEW ln, NEW db, NEW td, NEW tg, PartyInv(pt, wh, ln, db, td, tg),
           NEW g \in Games, NEW q, Whole(db, q),
           NEW pt2, NEW wh2, NEW ln2, NEW e, NEW r,
           Restarted(pt2, wh2, ln2, e, r, pt, wh, ln, td, tg, g, q)
    PROVE  PartyInv(pt2, wh2, ln2, db, e, r)
<1> USE DEF Restarted
<1>q. /\ \A h \in Games, p \in Players : pt2[h][p] = IF h = g THEN None ELSE pt[h][p]
      /\ \A p \in Players : wh2[p] # g /\ (wh2[p] # None => wh2[p] = wh[p]) /\ (wh[p] # g => wh2[p] = wh[p])
  BY DEF NoParties, PartyAssumption
<1>n. None \notin Players /\ None \notin Games /\ Types(pt, wh, db, td, tg)
  BY DEF PartyAssumption, PartyInv
<1>e. e[g] = <<>> /\ r[g] = q /\ \A h \in Games : h # g => e[h] = td[h] /\ r[h] = tg[h]
  OBVIOUS
<1>z. /\ \A S : ~Has(e[g], S)
      /\ \A x, S : Followed(e[g], x, S) /\ Led(e[g], S, x) /\ First(e[g], x, S)
      /\ \A x, S, y : Sep(e[g], x, S, y) /\ Unled(e[g], y, x)
  BY <1>e, NoQueue
<1>u. \A h \in Games : \A S : Has(e[h], S) => Has(td[h], S) /\ h # g
  BY <1>e, <1>z
<1>k. /\ \A l, p \in Players : ~Has(q, {Removed(l, p)})
      /\ \A l \in Players : ~Has(q, {Deleted(l)}) /\ ~Has(q, {Loaded(l)})
      /\ \A l \in Players : Has(q, {Created(l)}) <=> l \in DOMAIN db
      /\ \A l, p \in Players : Has(q, {Start(l, p)}) <=> InDb(db, l, p)
      /\ \A l, p \in Players : ~Has(q, Ends(l, p))
  <2>1. \A l, p \in Players : ~Has(q, {Removed(l, p)}) /\ ~Has(q, {Deleted(l)})
    BY EndsAre DEF Whole
  <2>2. \A i \in DOMAIN q : q[i].k # "load"
    BY LenProperties DEF Whole
  <2>3. \A l \in Players : ~Has(q, {Loaded(l)})
    BY <2>2 DEF Has, Loaded
  <2>4. \A l \in Players : InDb(db, l, l) <=> l \in DOMAIN db
    BY DEF InDb
  <2>5. \A l \in Players : Has(q, {Created(l)}) <=> l \in DOMAIN db
    BY <2>4, Names DEF Whole
  <2> QED  BY <2>1, <2>3, <2>5 DEF Whole
<1>d. \A l \in Players : Dead(db, td, l) => Dead(db, e, l)
  BY <1>u DEF Dead
<1>1. Types(pt2, wh2, db, e, r)
  <2>1. q \in Seq(ToGamePackets) /\ <<>> \in Seq(ToDbPackets)
    BY DEF Whole
  <2> QED  BY <1>n, <2>1 DEF Types, NoParties
<1>2. Loads(wh2, r)
  BY <1>e, <1>k, <1>q, <1>n DEF PartyInv, Loads
<1>3. Kinds(e, r)
  BY <1>e, <1>u, <1>k DEF PartyInv, Kinds
<1>4. Lead(pt2)
  BY <1>q, <1>n DEF PartyInv, Lead
<1>5. Links(pt2, wh2, ln2)
  <2> SUFFICES ASSUME NEW h \in Games, NEW p \in Players, wh2[p] = h, pt2[h][p] # None
               PROVE  p \in ln2
    BY DEF Links
  <2>1. h # g /\ wh[p] = h /\ pt[h][p] # None
    BY <1>q, <1>n
  <2> QED  BY <2>1 DEF PartyInv, Links
<1>6. Logouts(wh2, e, r)
  BY <1>e, <1>u, <1>k, <1>q DEF PartyInv, Logouts
<1>7. Sent(wh2, e)
  <2>1. \A h \in Games, p \in Players : \A z : Stays(wh, td[h], p, h, z) => Stays(wh2, e[h], p, h, z)
    BY <1>e, <1>z, <1>q DEF Stays
  <2> QED  BY <2>1 DEF PartyInv, Sent
<1>8. Told(wh2, e, r)
  <2>1. \A h \in Games, p \in Players : \A z : h # g /\ Away(wh, td[h], tg[h], p, h, z) =>
           Away(wh2, e[h], r[h], p, h, z)
    BY <1>e, <1>q, <1>n DEF Away
  <2>2. \A p \in Players : \A z : Away(wh2, e[g], r[g], p, g, z)
    <3>1. \A p \in Players : \A z : Unled(q, Loaded(p), z)
      BY <1>k, Absent1
    <3> QED  BY <3>1, <1>e, <1>z, <1>q DEF Away
  <2> QED  BY <2>1, <2>2, <1>e DEF PartyInv, Told
<1>9. Founded(pt2, db, e, r)
  <2> SUFFICES ASSUME NEW k \in Games, NEW l \in Players, Has(e[k], {Created(l)})
      PROVE  /\ l \notin DOMAIN db /\ First(e[k], Created(l), Named(l))
             /\ \A h \in Games : ~Has(r[h], Named(l))
             /\ \A h \in Games \ {k} : ~Has(e[h], Named(l)) /\ pt2[h][l] # l
    BY DEF Founded
  <2>1. k # g /\ Has(td[k], {Created(l)})
    BY <1>u
  <2>2. /\ l \notin DOMAIN db /\ First(td[k], Created(l), Named(l))
        /\ \A h \in Games : ~Has(tg[h], Named(l))
        /\ \A h \in Games \ {k} : ~Has(td[h], Named(l)) /\ pt[h][l] # l
    BY <2>1 DEF PartyInv, Founded
  <2>3. \A h \in Games : ~Has(r[h], Named(l))
    BY <2>2, <1>e DEF Whole
  <2> QED  BY <2>1, <2>2, <2>3, <1>e, <1>u, <1>q, <1>n
<1>10. Heard(pt2, r)
  <2> SUFFICES ASSUME NEW h \in Games, NEW l \in Players, Has(r[h], {Created(l)})
      PROVE  pt2[h][l] # l /\ First(r[h], Created(l), Named(l))
    BY DEF Heard
  <2>1. CASE h = g
    BY <2>1, <1>e, <1>q, <1>n DEF Whole
  <2>2. CASE h # g
    BY <2>2, <1>e, <1>q DEF PartyInv, Heard
  <2> QED  BY <2>1, <2>2
<1>11. Over(pt2, db, e, r)
  <2>1. \A h \in Games, l \in Players : h # g /\ Doomed(pt[h], tg[h], l) => Doomed(pt2[h], r[h], l)
    BY <1>e, <1>q DEF Doomed
  <2> QED  BY <2>1, <1>e, <1>u, <1>k DEF PartyInv, Over
<1>12. Rejoined(pt2, e)
  BY <1>e, <1>z, <1>q DEF PartyInv, Rejoined
<1>13. OneInDb(db)
  BY DEF PartyInv
<1>14. Ordered(db, e)
  BY <1>e, <1>z, <1>d DEF PartyInv, Ordered
<1>15. Known(pt2, db, e, r)
  <2> SUFFICES ASSUME NEW h \in Games, NEW l \in Players, NEW p \in Players, InDb(db, l, p)
      PROVE  \/ Stands(r[h], Start(l, p), Ends(l, p))
             \/ pt2[h][p] = l /\ ~Has(r[h], Ends(l, p))
             \/ Has(e[h], Ends(l, p))
    BY DEF Known
  <2>1. CASE h = g
    <3>1. Stands(q, Start(l, p), Ends(l, p))
      BY <1>k, Absent1
    <3> QED  BY <2>1, <3>1, <1>e
  <2>2. CASE h # g
    BY <2>2, <1>e, <1>q DEF PartyInv, Known
  <2> QED  BY <2>1, <2>2
<1>16. Own(pt2, db, e, r)
  BY <1>e, <1>z, <1>d, <1>q DEF PartyInv, Own
<1>17. Right(pt2, db, e, r)
  BY <1>e, <1>q, <1>n DEF PartyInv, Right
<1>18. Rightly(pt2, db, r)
  <2> SUFFICES ASSUME NEW h \in Games, NEW l \in Players, NEW p \in Players
      PROVE  InDb(db, l, p) \/ Doomed(pt2[h], r[h], l) \/ Followed(r[h], Start(l, p), Ends(l, p))
    BY DEF Rightly
  <2>1. CASE h = g
    <3>1. InDb(db, l, p) \/ Followed(q, Start(l, p), Ends(l, p))
      BY <1>k, Absent1
    <3> QED  BY <2>1, <3>1, <1>e
  <2>2. CASE h # g
    BY <2>2, <1>e, <1>q DEF PartyInv, Rightly, Doomed
  <2> QED  BY <2>1, <2>2
<1>19. NoClash(pt2, r)
  <2> SUFFICES ASSUME NEW h \in Games, NEW l \in Players, NEW m \in Players, NEW p \in Players, l # m
      PROVE  /\ pt2[h][p] = l => Led(r[h], Ends(l, p), Start(m, p))
             /\ Doomed(pt2[h], r[h], l) \/ Sep(r[h], Start(l, p), Ends(l, p), Start(m, p))
    BY DEF NoClash
  <2>1. CASE h = g
    <3>1. ~Has(q, {Start(l, p)}) \/ ~Has(q, {Start(m, p)})
      BY <1>k DEF PartyInv, OneInDb
    <3>2. Sep(q, Start(l, p), Ends(l, p), Start(m, p))
      BY <3>1, Absent1
    <3> QED  BY <2>1, <3>2, <1>e, <1>q, <1>n
  <2>2. CASE h # g
    BY <2>2, <1>e, <1>q DEF PartyInv, NoClash, Doomed
  <2> QED  BY <2>1, <2>2
<1> QED
  BY <1>1, <1>2, <1>3, <1>4, <1>5, <1>6, <1>7, <1>8, <1>9, <1>10, <1>11, <1>12, <1>13, <1>14, <1>15, <1>16,
     <1>17, <1>18, <1>19
     DEF PartyInv

-----------------------------------------------------------------------------
(* The packets of a game that connects are the db's parties.               *)

LEMMA SeqOfSet ==
    ASSUME PartyAssumption, NEW S \in SUBSET Players, NEW s \in SetToSeqs(S)
    PROVE  /\ s \in Seq(S)
           /\ \A i, j \in DOMAIN s : i # j => s[i] # s[j]
           /\ \A x \in S : \E i \in DOMAIN s : s[i] = x
<1> DEFINE n == Cardinality(S)
           D == 1..n
<1>1. IsFiniteSet(S) /\ n \in Nat
  BY FS_Subset, FS_CardinalityType DEF PartyAssumption
<1>2. s \in [D -> S] /\ \A i, j \in D : i # j => s[i] # s[j]
  BY DEF SetToSeqs
<1>3. IsFiniteSet(D) /\ Cardinality(D) = n
  BY <1>1, FS_Interval
<1>4. s \in Injection(D, S)
  <2> HIDE DEF D
  <2> QED  BY <1>2 DEF Injection, IsInjective
<1>5. s \in Surjection(D, S)
  <2> HIDE DEF D
  <2> QED  BY <1>1, <1>3, <1>4, FS_Injection
<1>6. \A x \in S : \E i \in D : s[i] = x
  <2> HIDE DEF D
  <2> QED  BY <1>5 DEF Surjection
<1> QED  BY <1>1, <1>2, <1>6

LEMMA Joined ==
    ASSUME NEW T, NEW q \in Seq(T), NEW s \in Seq(T)
    PROVE  /\ q \o s \in Seq(T)
           /\ \A S : Has(q \o s, S) <=> Has(q, S) \/ Has(s, S)
           /\ \A x, S : First(q, x, S) /\ First(s, x, S) /\ ~(Has(s, {x}) /\ Has(q, S))
                        => First(q \o s, x, S)
<1> DEFINE z == q \o s
           m == Len(q)
           n == Len(s)
<1>1. /\ m \in Nat /\ n \in Nat /\ DOMAIN q = 1..m /\ DOMAIN s = 1..n
      /\ z \in Seq(T) /\ Len(z) = m + n
      /\ \A i \in 1..(m + n) : z[i] = IF i <= m THEN q[i] ELSE s[i - m]
  BY LenProperties, ConcatProperties
<1>2. DOMAIN z = 1..(m + n)
  BY <1>1, LenProperties
<1> HIDE DEF z, m, n
<1>3. /\ \A i \in 1..m : i \in DOMAIN z /\ z[i] = q[i]
      /\ \A i \in 1..n : i + m \in DOMAIN z /\ z[i + m] = s[i]
      /\ \A i \in DOMAIN z : \/ i \in 1..m /\ z[i] = q[i]
                             \/ i - m \in 1..n /\ z[i] = s[i - m] /\ i > m
  <2>1. \A i \in 1..n : i + m \in 1..(m + n) /\ ~(i + m <= m) /\ (i + m) - m = i
    BY <1>1
  <2>2. \A i \in 1..m : i \in 1..(m + n) /\ i <= m
    BY <1>1
  <2>3. \A i \in 1..(m + n) : i \in 1..m \/ (i - m \in 1..n /\ ~(i <= m) /\ i > m)
    BY <1>1
  <2>4. \A i \in 1..n : z[i + m] = s[(i + m) - m]
    BY <1>1, <2>1
  <2>5. \A i \in 1..n : z[i + m] = s[i]
    BY <2>1, <2>4
  <2> QED  BY <1>1, <1>2, <2>1, <2>2, <2>3, <2>5
<1>4. ASSUME NEW S PROVE Has(z, S) <=> Has(q, S) \/ Has(s, S)
  BY <1>1, <1>3 DEF Has
<1>5. ASSUME NEW x, NEW S, First(q, x, S), First(s, x, S), ~(Has(s, {x}) /\ Has(q, S))
      PROVE  First(z, x, S)
  <2> SUFFICES ASSUME NEW i \in DOMAIN z, NEW k \in DOMAIN z, z[i] = x, z[k] \in S
               PROVE  i <= k
    BY DEF First
  <2>1. i \in Nat /\ k \in Nat
    BY <1>1, <1>2
  <2>2. CASE i \in 1..m /\ z[i] = q[i]
    <3>1. CASE k \in 1..m /\ z[k] = q[k]
      BY <1>1, <1>5, <2>2, <3>1 DEF First
    <3>2. CASE k > m
      BY <1>1, <2>1, <2>2, <3>2
    <3> QED  BY <1>3, <3>1, <3>2
  <2>3. CASE i - m \in 1..n /\ z[i] = s[i - m]
    <3>1. Has(s, {x})
      BY <1>1, <2>3 DEF Has
    <3>2. ~(k \in 1..m /\ z[k] = q[k])
      BY <1>1, <1>5, <3>1 DEF Has
    <3>3. k - m \in 1..n /\ z[k] = s[k - m]
      BY <1>3, <3>2
    <3>4. i - m <= k - m
      <4> DEFINE a == i - m
                 b == k - m
      <4>1. a \in DOMAIN s /\ b \in DOMAIN s /\ s[a] = x /\ s[b] \in S
        BY <1>1, <2>3, <3>3
      <4> HIDE DEF a, b
      <4>2. a <= b
        BY <1>5, <4>1 DEF First
      <4> QED  BY <4>2 DEF a, b
    <3> QED  BY <1>1, <2>1, <3>4
  <2> QED  BY <1>3, <2>2, <2>3
<1>6. \A S : Has(q \o s, S) <=> Has(q, S) \/ Has(s, S)
  BY <1>4 DEF z
<1>7. \A x, S : First(q, x, S) /\ First(s, x, S) /\ ~(Has(s, {x}) /\ Has(q, S)) => First(q \o s, x, S)
  BY <1>5 DEF z
<1>8. q \o s \in Seq(T)
  BY <1>1 DEF z
<1> QED  BY <1>6, <1>7, <1>8

(* Of the sequences, each keeps x before S, and none with S comes before   *)
(* one with x.                                                             *)
InOrder(seqs, x, S) ==
    /\ \A i \in DOMAIN seqs : First(seqs[i], x, S)
    /\ \A i, j \in DOMAIN seqs : j < i => ~(Has(seqs[i], {x}) /\ Has(seqs[j], S))

JoinedTo(T, q, seqs, n) ==
    /\ q \in Seq(T)
    /\ \A S : Has(q, S) <=> \E i \in 1..n : Has(seqs[i], S)
    /\ \A x, S : InOrder(seqs, x, S) => First(q, x, S)

LEMMA FlattenHas ==
    ASSUME NEW T, NEW seqs \in Seq(Seq(T))
    PROVE  /\ \A S : Has(FlattenSeq(seqs), S) <=> \E i \in DOMAIN seqs : Has(seqs[i], S)
           /\ \A x, S : InOrder(seqs, x, S) => First(FlattenSeq(seqs), x, S)
<1> DEFINE N == Len(seqs)
           F == CHOOSE f : Joins(f, seqs, N)
<1>1. N \in Nat /\ DOMAIN seqs = 1..N /\ \A i \in 1..N : seqs[i] \in Seq(T)
  BY LenProperties, ElementOfSeq
<1>2. CASE N = 0
  <2>1. seqs = <<>> /\ DOMAIN seqs = {}  BY <1>1, <1>2, EmptySeq
  <2>2. FlattenSeq(seqs) = seqs  BY <1>2 DEF FlattenSeq
  <2> QED  BY <2>1, <2>2, NoQueue
<1>3. CASE N # 0
  <2>0. N \in 1..N  BY <1>1, <1>3
  <2>1. \E f : Joins(f, seqs, N)  BY <2>0, FlattenExists
  <2>2. Joins(F, seqs, N)  BY <2>1
  <2>5. FlattenSeq(seqs) = F[N]  BY <1>3, FlattenIsStep
  <2> HIDE DEF F
  <2>3. \A i \in 1..N : F[i] = IF i = 1 THEN seqs[i] ELSE F[i - 1] \o seqs[i]
    BY <2>2 DEF Joins
  <2> DEFINE us == {m \in 1..N : ~JoinedTo(T, F[m], seqs, m)}
  <2>4. us = {}
    <3>1. SUFFICES ASSUME us # {} PROVE FALSE  OBVIOUS
    <3>2. us \subseteq Nat  BY <1>1
    <3>3. PICK m \in us : \A w \in us : ~(w < m)
      <4> HIDE DEF us
      <4> QED  BY <3>1, <3>2, SmallestIn
    <3>4. m \in 1..N /\ ~JoinedTo(T, F[m], seqs, m)  OBVIOUS
    <3>5. m # 1
      <4>1. ASSUME m = 1 PROVE FALSE
        <5>1. F[m] = seqs[1] /\ 1 \in 1..N  BY <2>3, <3>4, <4>1
        <5>2. JoinedTo(T, F[m], seqs, m)  BY <1>1, <4>1, <5>1 DEF JoinedTo, InOrder
        <5> QED  BY <3>4, <5>2
      <4> QED  BY <4>1
    <3>6. m - 1 \in 1..N /\ m - 1 < m /\ m \in Nat BY <1>1, <3>4, <3>5
    <3>7. m - 1 \notin us
      <4> HIDE DEF us
      <4> QED BY <3>3, <3>6
    <3>8. JoinedTo(T, F[m - 1], seqs, m - 1)  BY <3>6, <3>7
    <3>9. F[m] = F[m - 1] \o seqs[m]  BY <2>3, <3>4, <3>5
    <3> DEFINE q == F[m - 1]
               s == seqs[m]
    <3>10. q \in Seq(T) /\ s \in Seq(T)  BY <1>1, <3>4, <3>8 DEF JoinedTo
    <3>11. /\ q \o s \in Seq(T)
           /\ \A S : Has(q \o s, S) <=> Has(q, S) \/ Has(s, S)
           /\ \A x, S : First(q, x, S) /\ First(s, x, S) /\ ~(Has(s, {x}) /\ Has(q, S))
                        => First(q \o s, x, S)
      <4> HIDE DEF q, s
      <4> QED  BY <3>10, Joined
    <3>12. \A S : Has(q, S) <=> \E i \in 1..(m - 1) : Has(seqs[i], S)
      BY <3>8 DEF JoinedTo
    <3>13. \A x, S : InOrder(seqs, x, S) => First(q, x, S)
      BY <3>8 DEF JoinedTo
    <3>14. \A i \in 1..m : i \in 1..(m - 1) \/ i = m
      BY <3>6
    <3>15. \A i \in 1..(m - 1) : i \in 1..m /\ i \in 1..N /\ i < m
      BY <1>1, <3>4, <3>6
    <3> HIDE DEF q
    <3>16. \A S : Has(q \o s, S) <=> \E i \in 1..m : Has(seqs[i], S)
      BY <3>4, <3>6, <3>11, <3>12, <3>14, <3>15
    <3>17. ASSUME NEW x, NEW S, InOrder(seqs, x, S) PROVE First(q \o s, x, S)
      <4>1. First(s, x, S)
        BY <1>1, <3>4, <3>17 DEF InOrder
      <4>2. ~(Has(s, {x}) /\ Has(q, S))
        BY <1>1, <3>4, <3>12, <3>15, <3>17 DEF InOrder
      <4> QED  BY <3>11, <3>13, <3>17, <4>1, <4>2
    <3>18. JoinedTo(T, F[m], seqs, m)
      BY <3>9, <3>11, <3>16, <3>17 DEF JoinedTo, q
    <3> QED  BY <3>4, <3>18
  <2>6. JoinedTo(T, F[N], seqs, N)  BY <2>0, <2>4
  <2> QED  BY <1>1, <2>5, <2>6 DEF JoinedTo
<1> QED  BY <1>1, <1>2, <1>3

LEMMA PartyPacketsAre ==
    ASSUME NEW l \in Players, NEW s \in Seq(Players)
    PROVE  LET q == PartyPackets(l, s)
           IN /\ q \in Seq({z \in ToGamePackets : z.k # "load"})
              /\ \A S : Has(q, S) <=> Created(l) \in S \/ \E i \in DOMAIN s : Added(l, s[i]) \in S
              /\ First(q, Created(l), Named(l))
<1> DEFINE T == {z \in ToGamePackets : z.k # "load"}
           a == [i \in DOMAIN s |-> Added(l, s[i])]
           c == <<Created(l)>>
<1>1. Len(s) \in Nat /\ DOMAIN s = 1..Len(s) /\ \A i \in 1..Len(s) : s[i] \in Players
  BY LenProperties, ElementOfSeq
<1>2. \A i \in DOMAIN s : Added(l, s[i]) \in T
  BY <1>1, PacketsTyped
<1>3. a \in Seq(T) /\ DOMAIN a = DOMAIN s /\ \A i \in DOMAIN s : a[i] = Added(l, s[i])
  BY <1>1, <1>2
<1>4. c \in Seq(T) /\ DOMAIN c = {1} /\ c[1] = Created(l)
  BY PacketsTyped
<1>5. PartyPackets(l, s) = c \o a
  BY DEF PartyPackets
<1> HIDE DEF a, c, T
<1>6. \A S : Has(c, S) <=> Created(l) \in S
  BY <1>4 DEF Has
<1>7. \A S : Has(a, S) <=> \E i \in DOMAIN s : Added(l, s[i]) \in S
  BY <1>3 DEF Has
<1>8. First(c, Created(l), Named(l))
  BY <1>4 DEF First
<1>9. ~Has(a, {Created(l)})
  <2>1. \A o : Added(l, o) # Created(l)
    BY DEF Created, Added
  <2>2. \A o : Added(l, o) \notin {Created(l)}
    BY <2>1
  <2> QED  BY <1>7, <2>2
<1>10. First(a, Created(l), Named(l))
  BY <1>9, Absent1
<1> QED  BY <1>3, <1>4, <1>5, <1>6, <1>7, <1>8, <1>9, <1>10, Joined DEF T

LEMMA SetupWhole ==
    ASSUME PartyAssumption, PmOK, NEW packets \in SetupPackets
    PROVE  Whole(pm, packets)
<1> DEFINE T == {q \in ToGamePackets : q.k # "load"}
<1>1. PICK ls \in SetToSeqs(DOMAIN pm),
           ms \in {m \in [DOMAIN pm -> UNION {SetToSeqs(pm[l]) : l \in DOMAIN pm}] :
                      \A l \in DOMAIN pm : m[l] \in SetToSeqs(pm[l])} :
         packets = FlattenSeq([i \in DOMAIN ls |-> PartyPackets(ls[i], ms[ls[i]])])
  BY DEF SetupPackets
<1>2. /\ ls \in Seq(DOMAIN pm) /\ \A i, j \in DOMAIN ls : i # j => ls[i] # ls[j]
      /\ \A x \in DOMAIN pm : \E i \in DOMAIN ls : ls[i] = x
  BY SeqOfSet DEF PmOK
<1>3. \A l \in DOMAIN pm : /\ ms[l] \in Seq(pm[l])
                           /\ \A x \in pm[l] : \E i \in DOMAIN ms[l] : ms[l][i] = x
  <2> SUFFICES ASSUME NEW l \in DOMAIN pm
               PROVE  /\ ms[l] \in Seq(pm[l])
                      /\ \A x \in pm[l] : \E i \in DOMAIN ms[l] : ms[l][i] = x
    OBVIOUS
  <2>1. ms[l] \in SetToSeqs(pm[l]) /\ pm[l] \in SUBSET Players
    BY <1>1 DEF PmOK
  <2> QED  BY <2>1, SeqOfSet
<1>4. \A l \in DOMAIN pm : l \in Players /\ pm[l] \subseteq Players /\ ms[l] \in Seq(Players)
  BY <1>3, SeqMonotonic DEF PmOK
<1>5. \A l \in DOMAIN pm : \A i \in DOMAIN ms[l] : ms[l][i] \in pm[l]
  BY <1>3, LenProperties, ElementOfSeq
<1> DEFINE seqs == [i \in DOMAIN ls |-> PartyPackets(ls[i], ms[ls[i]])]
<1>6. Len(ls) \in Nat /\ DOMAIN ls = 1..Len(ls) /\ \A i \in 1..Len(ls) : ls[i] \in DOMAIN pm
  BY <1>2, LenProperties, ElementOfSeq
<1>7. \A i \in DOMAIN ls : /\ seqs[i] = PartyPackets(ls[i], ms[ls[i]])
                           /\ ls[i] \in DOMAIN pm /\ ls[i] \in Players
  BY <1>4, <1>6
<1>8. \A i \in DOMAIN ls :
         /\ seqs[i] \in Seq(T)
         /\ \A S : Has(seqs[i], S) <=> \/ Created(ls[i]) \in S
                                       \/ \E j \in DOMAIN ms[ls[i]] : Added(ls[i], ms[ls[i]][j]) \in S
         /\ First(seqs[i], Created(ls[i]), Named(ls[i]))
  <2> SUFFICES ASSUME NEW i \in DOMAIN ls
               PROVE  /\ seqs[i] \in Seq(T)
                      /\ \A S : Has(seqs[i], S) <=>
                            \/ Created(ls[i]) \in S
                            \/ \E j \in DOMAIN ms[ls[i]] : Added(ls[i], ms[ls[i]][j]) \in S
                      /\ First(seqs[i], Created(ls[i]), Named(ls[i]))
    OBVIOUS
  <2> DEFINE l == ls[i]
             s == ms[ls[i]]
  <2>1. l \in Players /\ s \in Seq(Players) /\ seqs[i] = PartyPackets(l, s)
    BY <1>4, <1>7
  <2> HIDE DEF seqs, l, s
  <2>2. /\ PartyPackets(l, s) \in Seq(T)
        /\ \A S : Has(PartyPackets(l, s), S) <=>
              Created(l) \in S \/ \E j \in DOMAIN s : Added(l, s[j]) \in S
        /\ First(PartyPackets(l, s), Created(l), Named(l))
    BY <2>1, PartyPacketsAre
  <2> QED  BY <2>1, <2>2 DEF l, s
<1>9. seqs \in Seq(Seq(T)) /\ DOMAIN seqs = DOMAIN ls
  BY <1>6, <1>8
<1> HIDE DEF seqs, T
<1>10. /\ \A S : Has(packets, S) <=> \E i \in DOMAIN ls : Has(seqs[i], S)
       /\ \A x, S : InOrder(seqs, x, S) => First(packets, x, S)
  BY <1>1, <1>9, FlattenHas DEF seqs
<1>11. \A S : Has(packets, S) <=> \E l \in DOMAIN pm : \/ Created(l) \in S
                                                       \/ \E p \in pm[l] : Added(l, p) \in S
  <2> SUFFICES ASSUME NEW S
               PROVE  Has(packets, S) <=> \E l \in DOMAIN pm : \/ Created(l) \in S
                                                               \/ \E p \in pm[l] : Added(l, p) \in S
    OBVIOUS
  <2>1. ASSUME Has(packets, S)
        PROVE  \E l \in DOMAIN pm : Created(l) \in S \/ \E p \in pm[l] : Added(l, p) \in S
    <3>1. PICK i \in DOMAIN ls : Has(seqs[i], S)
      BY <1>10, <2>1
    <3>2. \/ Created(ls[i]) \in S
          \/ \E j \in DOMAIN ms[ls[i]] : Added(ls[i], ms[ls[i]][j]) \in S
      BY <1>8, <3>1
    <3> QED  BY <1>5, <1>7, <3>2
  <2>2. ASSUME NEW l \in DOMAIN pm, Created(l) \in S \/ \E p \in pm[l] : Added(l, p) \in S
        PROVE  Has(packets, S)
    <3>1. PICK i \in DOMAIN ls : ls[i] = l
      BY <1>2
    <3>2. Has(seqs[i], S)
      BY <1>3, <1>8, <2>2, <3>1
    <3> QED  BY <1>10, <3>2
  <2> QED  BY <2>1, <2>2
<1>12. packets \in Seq({z \in ToGamePackets : z.k # "load"})
  BY SetupTyped
<1>13. ASSUME NEW l \in Players, NEW p \in Players
       PROVE  Has(packets, {Start(l, p)}) <=> InDb(pm, l, p)
  <2>1. \A m \in Players : Created(m) = Start(l, p) <=> m = l /\ m = p
    BY Names DEF Start, Created, Added
  <2>2. \A m, o \in Players : Added(m, o) = Start(l, p) <=> m = l /\ o = p /\ l # p
    BY DEF Start, Created, Added
  <2>3. \A m \in DOMAIN pm : m \in Players /\ \A o \in pm[m] : o \in Players
    BY <1>4
  <2>4. \A x : x \in {Start(l, p)} <=> x = Start(l, p)
    OBVIOUS
  <2>5. Has(packets, {Start(l, p)}) <=> \E m \in DOMAIN pm : \/ Created(m) = Start(l, p)
                                                           \/ \E o \in pm[m] : Added(m, o) = Start(l, p)
    BY <1>11
  <2> QED  BY <2>1, <2>2, <2>3, <2>5 DEF InDb
<1>14. ASSUME NEW l \in Players, NEW p \in Players
       PROVE  ~Has(packets, Ends(l, p))
  <2>1. \A m, o : Created(m) \notin Ends(l, p) /\ Added(m, o) \notin Ends(l, p)
    BY DEF Ends, Created, Added, Deleted, Removed
  <2> QED  BY <1>11, <2>1
<1>15. ASSUME NEW l \in Players, Has(packets, Named(l)) PROVE l \in DOMAIN pm
  <2>1. \A m, o : (Created(m) \in Named(l) => m = l) /\ (Added(m, o) \in Named(l) => m = l)
    BY DEF Named, Created, Added
  <2> QED  BY <1>11, <1>15, <2>1
<1>16. ASSUME NEW l \in Players PROVE First(packets, Created(l), Named(l))
  <2>0. /\ \A m, o : (Created(m) \in Named(l) => m = l) /\ (Added(m, o) \in Named(l) => m = l)
        /\ \A m, o : (Created(m) \in {Created(l)} => m = l) /\ Added(m, o) \notin {Created(l)}
    BY DEF Named, Created, Added
  <2>1. \A i \in DOMAIN ls : Has(seqs[i], Named(l)) => ls[i] = l
    BY <1>8, <2>0
  <2>2. \A i \in DOMAIN ls : Has(seqs[i], {Created(l)}) => ls[i] = l
    BY <1>8, <2>0
  <2>3. InOrder(seqs, Created(l), Named(l))
    <3>1. \A i \in DOMAIN ls : First(seqs[i], Created(l), Named(l))
      BY <1>8, <2>2, Absent1
    <3>2. \A i, j \in DOMAIN ls : j < i => ~(Has(seqs[i], {Created(l)}) /\ Has(seqs[j], Named(l)))
      <4> SUFFICES ASSUME NEW i \in DOMAIN ls, NEW j \in DOMAIN ls, j < i,
                          Has(seqs[i], {Created(l)}), Has(seqs[j], Named(l))
                   PROVE  FALSE
        OBVIOUS
      <4>1. i = j
        BY <1>2, <2>1, <2>2
      <4> QED  BY <1>6, <4>1
    <3> QED  BY <1>9, <3>1, <3>2 DEF InOrder
  <2> QED  BY <1>10, <2>3
<1> QED  BY <1>12, <1>13, <1>14, <1>15, <1>16 DEF Whole

-----------------------------------------------------------------------------
(* Every step keeps the parties, as long as there is no excuse.            *)

(* f with z at the end of the queues of B.                                 *)
Longer(f, B, z) == [h \in Games |-> IF h \in B THEN Append(f[h], z) ELSE f[h]]

LEMMA LongerPuts ==
    ASSUME NEW T, NEW f \in [Games -> Seq(T)], NEW B, NEW z \in T
    PROVE  /\ Puts(T, Longer(f, B, z), f, B, z)
           /\ Longer(f, B, z) \in [Games -> Seq(T)]
<1>1. Puts(T, Longer(f, B, z), f, B, z)
  BY DEF Puts, Longer
<1> QED  BY <1>1, OneGiven

LEMMA PacketIs ==
    ASSUME NEW x \in ToDbPackets \cup ToGamePackets
    PROVE  /\ x.l \in Players /\ x.p \in Players
           /\ x.k = "create" => x = Created(x.l) /\ x.p = x.l
           /\ x.k = "delete" => x = Deleted(x.l)
           /\ x.k = "add"    => x = Added(x.l, x.p)
           /\ x.k = "remove" => x = Removed(x.l, x.p)
           /\ x.k = "level"  => x = Leveled(x.l, x.p)
           /\ x.k \in {"create", "delete", "add", "remove", "level", "logout", "load"}
<1>1. x \in Packets
  BY DEF ToDbPackets, ToGamePackets
<1>2. x = [k |-> x.k, l |-> x.l, p |-> x.p] /\ x.l \in Players /\ x.p \in Players
      /\ x.k \in {"create", "delete", "add", "remove", "level", "logout", "load"}
  BY <1>1 DEF Packets
<1>3. x.k \in {"create", "delete"} => x.p = x.l
  BY DEF ToDbPackets, ToGamePackets
<1> QED  BY <1>2, <1>3 DEF Created, Deleted, Added, Removed, Leveled

(* The packets that a game sends at once are sent one after another.       *)
LEMMA OneSent ==
    ASSUME TypeInv, NEW g \in Games, NEW a \in ToDbPackets, SendAll(g, <<a>>)
    PROVE  Puts(ToDbPackets, toDb', toDb, {g}, a)
<1>1. toDb \in [Games -> Seq(ToDbPackets)]
  BY DEF TypeInv, QueuesOK
<1>2. toDb[g] \o <<a>> = Append(toDb[g], a)
  BY <1>1, AppendIsConcat
<1>3. toDb' = [toDb EXCEPT ![g] = Append(toDb[g], a)]
  BY <1>2 DEF SendAll
<1> QED  BY <1>1, <1>3 DEF Puts

LEMMA ThreeSent ==
    ASSUME TypeInv, NEW g \in Games, NEW a \in ToDbPackets, NEW b \in ToDbPackets,
           NEW c \in ToDbPackets, SendAll(g, (<<a>> \o <<b>>) \o <<c>>)
    PROVE  toDb' = Longer(Longer(Longer(toDb, {g}, a), {g}, b), {g}, c)
<1> DEFINE q == toDb[g]
           T == ToDbPackets
<1>1. toDb \in [Games -> Seq(T)] /\ q \in Seq(T)
  BY DEF TypeInv, QueuesOK
<1> HIDE DEF q, T
<1>2. a \in T /\ b \in T /\ c \in T
  BY DEF T
<1>3. <<a>> \in Seq(T) /\ <<b>> \in Seq(T) /\ <<c>> \in Seq(T)
  BY <1>2
<1>4. q \o ((<<a>> \o <<b>>) \o <<c>>) = ((q \o <<a>>) \o <<b>>) \o <<c>>
  <2>1. <<a>> \o <<b>> \in Seq(T) /\ q \o <<a>> \in Seq(T)
    BY <1>1, <1>3, ConcatProperties
  <2>2. q \o ((<<a>> \o <<b>>) \o <<c>>) = (q \o (<<a>> \o <<b>>)) \o <<c>>
    BY <1>1, <1>3, <2>1, ConcatAssociative
  <2>3. q \o (<<a>> \o <<b>>) = (q \o <<a>>) \o <<b>>
    BY <1>1, <1>3, ConcatAssociative
  <2> QED  BY <2>2, <2>3
<1>5. /\ q \o <<a>> = Append(q, a) /\ Append(q, a) \in Seq(T)
  BY <1>1, <1>2, AppendIsConcat, AppendProperties
<1>6. /\ Append(q, a) \o <<b>> = Append(Append(q, a), b)
      /\ Append(Append(q, a), b) \in Seq(T)
  BY <1>2, <1>5, AppendIsConcat, AppendProperties
<1>7. Append(Append(q, a), b) \o <<c>> = Append(Append(Append(q, a), b), c)
  BY <1>2, <1>6, AppendIsConcat
<1>8. q \o ((<<a>> \o <<b>>) \o <<c>>) = Append(Append(Append(q, a), b), c)
  BY <1>4, <1>5, <1>6, <1>7
<1>9. toDb' = [toDb EXCEPT ![g] = Append(Append(Append(toDb[g], a), b), c)]
  BY <1>8 DEF SendAll, q
<1> QED  BY <1>1, <1>9 DEF Longer

LEMMA HeadPopped ==
    ASSUME TypeInv, NEW g \in Games
    PROVE  /\ toDb[g] # <<>> /\ toDb' = [toDb EXCEPT ![g] = Tail(@)] =>
                 /\ Pops(ToDbPackets, toDb', toDb, g, Head(toDb[g]))
                 /\ Head(toDb[g]) \in ToDbPackets /\ Has(toDb[g], {Head(toDb[g])})
           /\ toGame[g] # <<>> /\ toGame' = [toGame EXCEPT ![g] = Tail(@)] =>
                 /\ Pops(ToGamePackets, toGame', toGame, g, Head(toGame[g]))
                 /\ Head(toGame[g]) \in ToGamePackets /\ Has(toGame[g], {Head(toGame[g])})
<1>1. toDb \in [Games -> Seq(ToDbPackets)] /\ toGame \in [Games -> Seq(ToGamePackets)]
  BY DEF TypeInv, QueuesOK
<1>2. toDb[g] # <<>> => Head(toDb[g]) \in ToDbPackets /\ Has(toDb[g], {Head(toDb[g])})
  BY <1>1, Taken1
<1>3. toGame[g] # <<>> => Head(toGame[g]) \in ToGamePackets /\ Has(toGame[g], {Head(toGame[g])})
  BY <1>1, Taken1
<1> QED  BY <1>1, <1>2, <1>3 DEF Pops

LEMMA LogoutPacketIs ==
    ASSUME NEW x, x.k = "logout"
    PROVE  \A m, o \in Players : x # Created(m) /\ x # Start(m, o) /\ x \notin Ends(m, o)
  BY DEF Created, Start, Added, Ends, Deleted, Removed

LEMMA DbLogoutParties ==
    ASSUME TypeInv, Parties, NEW g \in Games, DbLogout(g)
    PROVE  Parties'
<1> DEFINE x == Head(toDb[g])
<1>1. /\ toDb[g] # <<>> /\ x.k = "logout" /\ toDb' = [toDb EXCEPT ![g] = Tail(@)]
      /\ UNCHANGED <<party, at, linked, pm, toGame>>
  BY DEF DbLogout
<1>2. Pops(ToDbPackets, toDb', toDb, g, x)
  BY <1>1, HeadPopped
<1> HIDE DEF x
<1>3. PartyInv(party, at, linked, pm, toDb', toGame)
  BY <1>1, <1>2, LogoutPacketIs, VainKeeps DEF Parties
<1> QED  BY <1>1, <1>3 DEF Parties

LEMMA DbLoadParties ==
    ASSUME TypeInv, Parties, NEW g \in Games, NEW p \in Players, DbLoad(g, p)
    PROVE  Parties'
<1> DEFINE x == Loaded(p)
<1>1. /\ UNCHANGED <<party, at, linked, pm, toDb>> /\ at[p] = None
      /\ toGame' = [toGame EXCEPT ![g] = Append(@, x)]
      /\ ~OnTheWay(p)
  BY DEF DbLoad
<1>2. x \in ToGamePackets
  BY LogPacketsAre
<1> HIDE DEF x
<1>3. Puts(ToGamePackets, toGame', toGame, {g}, x)
  BY <1>1, <1>2 DEF Puts, TypeInv, QueuesOK
<1>4. \A h \in Games : ~Has(toDb[h], {LoggedOut(p)})
  <2>1. \A h \in Games : DOMAIN toDb[h] = 1..Len(toDb[h])
    BY LenProperties DEF TypeInv, QueuesOK
  <2> QED  BY <1>1, <2>1 DEF OnTheWay, Contains, Has
<1>5. /\ \A m, o \in Players : x # Start(m, o) /\ x \notin Ends(m, o) /\ x # Removed(m, o)
      /\ \A m \in Players : x # LoggedOut(m) /\ x # Created(m) /\ x # Deleted(m)
      /\ \A m \in Players : x \notin Named(m)
      /\ \A m \in Players : x = Loaded(m) => m = p
  BY LogPacketsAre DEF x
<1>6. PartyInv(party, at, linked, pm, toDb, toGame')
  BY <1>1, <1>3, <1>4, <1>5, IdleKeeps DEF Parties
<1> QED  BY <1>1, <1>6 DEF Parties

(* The levels that the db sends.                                           *)
LEMMA LevelsSent ==
    ASSUME NEW pt, NEW wh, NEW ln, NEW db, NEW td, NEW tg, PartyInv(pt, wh, ln, db, td, tg),
           NEW l \in Players, NEW x, Neutral(x, l), l \in DOMAIN db,
           NEW B, NEW r, Puts(ToGamePackets, r, tg, B, x)
    PROVE  PartyInv(pt, wh, ln, db, td, r)
<1>1. /\ \A m, o \in Players : x # Start(m, o) /\ x \notin Ends(m, o) /\ x # Removed(m, o)
      /\ \A m \in Players : x # LoggedOut(m) /\ x # Created(m) /\ x # Deleted(m)
      /\ \A m \in Players : x \in Named(m) => m \in DOMAIN db
      /\ \A m \in Players : x # Loaded(m)
  BY DEF Neutral
<1> QED  BY <1>1, IdleKeeps

LEMMA DbPartyParties ==
    ASSUME PartyAssumption, TypeInv, Parties, NEW g \in Games, DbParty(g)
    PROVE  Parties'
<1> DEFINE x == Head(toDb[g])
           l == x.l
           p == x.p
           v == Leveled(l, p)
<1>1. /\ toDb[g] # <<>> /\ x.k # "logout" /\ toDb' = [toDb EXCEPT ![g] = Tail(@)]
      /\ UNCHANGED <<party, at, linked>>
      /\ pm' = IF DbTakes(x) THEN DbApply(x) ELSE pm
      /\ toGame' = IF DbTakes(x) THEN Forward(g, x)
                   ELSE IF DbLevels(x) THEN Longer(toGame, Games, v)
                   ELSE toGame
  BY DEF DbParty, Longer
<1>2. Pops(ToDbPackets, toDb', toDb, g, x) /\ x \in ToDbPackets /\ Has(toDb[g], {x})
  BY <1>1, HeadPopped
<1>3. /\ l \in Players /\ p \in Players /\ x.k \in {"create", "delete", "add", "remove", "level"}
      /\ x.k = "create" => x = Created(l) /\ p = l
      /\ x.k = "delete" => x = Deleted(l)
      /\ x.k = "add"    => x = Added(l, p)
      /\ x.k = "remove" => x = Removed(l, p)
      /\ x.k = "level"  => x = v
  BY <1>1, <1>2, PacketIs DEF ToDbPackets
<1>4. l = x.l /\ p = x.p
  OBVIOUS
<1> HIDE DEF x, l, p
<1>5. Neutral(v, l)
  BY <1>3, NeutralAre
<1> HIDE DEF v
<1>6. toGame \in [Games -> Seq(ToGamePackets)] /\ PmOK
  BY DEF TypeInv, QueuesOK
<1>7. v \in ToGamePackets
  BY <1>5 DEF Neutral
<1>8. ~DbTakes(x) => pm' = pm
  BY <1>1
<1>9. DbTakes(x) => pm' = DbApply(x) /\ toGame' = Forward(g, x)
  BY <1>1
(* A packet in vain, but for the level that it may make the db send.       *)
<1>10. ASSUME ~DbTakes(x),
              \A m \in Players : x # Created(m),
              \A m, o \in Players : x \in Ends(m, o) => ~InDb(pm, m, o),
              \A m, o \in Players : x = Start(m, o) => InDb(pm, m, o) \/ m \notin DOMAIN pm
       PROVE  Parties'
  <2>1. PartyInv(party, at, linked, pm, toDb', toGame)
    BY <1>2, <1>10, VainKeeps DEF Parties
  <2>2. CASE DbLevels(x)
    <3>1. l \in DOMAIN pm
      BY <1>4, <2>2 DEF DbLevels
    <3>2. toGame' = Longer(toGame, Games, v)
      BY <1>1, <1>10, <2>2
    <3>3. Puts(ToGamePackets, toGame', toGame, Games, v)
      BY <1>6, <1>7, <3>2, LongerPuts
    <3>4. PartyInv(party, at, linked, pm, toDb', toGame')
      BY <1>3, <1>5, <2>1, <3>1, <3>3, LevelsSent
    <3> QED  BY <1>1, <1>8, <1>10, <3>4 DEF Parties
  <2>3. CASE ~DbLevels(x)
    <3>1. toGame' = toGame
      BY <1>1, <1>10, <2>3
    <3> QED  BY <1>1, <1>8, <1>10, <2>1, <3>1 DEF Parties
  <2> QED  BY <2>2, <2>3
<1>11. CASE x.k = "create"
  <2>1. x = Start(l, l) /\ x = Created(l)
    BY <1>3, <1>11, Names
  <2>2. l \notin DOMAIN pm
    <3>1. Founded(party, pm, toDb, toGame)
      BY DEF Parties, PartyInv
    <3> QED  BY <1>2, <1>3, <2>1, <3>1 DEF Founded
  <2>3. DbTakes(x)
    BY <1>4, <1>11, <2>2 DEF DbTakes
  <2>4. pm' = [m \in DOMAIN pm \cup {l} |-> IF m = l THEN {} ELSE pm[m]]
    BY <1>4, <1>9, <1>11, <2>3 DEF DbApply
  <2>5. /\ \A m : m \in DOMAIN pm' <=> m \in DOMAIN pm \/ m = l
        /\ \A m, o \in Players : InDb(pm', m, o) <=> InDb(pm, m, o) \/ (m = l /\ o = l)
    BY <2>2, <2>4 DEF InDb
  <2>6. Puts(ToGamePackets, toGame', toGame, Games \ {g}, x)
    <3>1. toGame' = [h \in Games |-> IF h \in Games \ {g} THEN Append(toGame[h], x) ELSE toGame[h]]
      BY <1>9, <1>11, <2>3 DEF Forward
    <3>2. x \in ToGamePackets
      BY <1>3, <2>1, StartIs
    <3> QED  BY <1>6, <3>1, <3>2 DEF Puts
  <2>7. PartyInv(party, at, linked, pm', toDb', toGame')
    <3>1. /\ Pops(ToDbPackets, toDb', toDb, g, Start(l, l))
          /\ Puts(ToGamePackets, toGame', toGame, Games \ {g}, Start(l, l))
      BY <1>2, <2>1, <2>6
    <3>2. l \in Players /\ PartyInv(party, at, linked, pm, toDb, toGame)
      BY <1>3 DEF Parties
    <3> QED  BY <2>5, <3>1, <3>2, StartKeeps
  <2> QED  BY <1>1, <2>7 DEF Parties
<1>12. CASE x.k = "delete"
  <2>1. x = Deleted(l)
    BY <1>3, <1>12
  <2>2. DbTakes(x) <=> l \in DOMAIN pm
    BY <1>4, <1>12 DEF DbTakes
  <2>3. CASE l \notin DOMAIN pm
    <3>1. /\ \A m \in Players : x # Created(m)
          /\ \A m, o \in Players : x \in Ends(m, o) => ~InDb(pm, m, o)
          /\ \A m, o \in Players : x # Start(m, o)
      BY <1>3, <2>1, <2>3, DeletedIs DEF InDb
    <3> QED  BY <1>10, <2>2, <2>3, <3>1
  <2>4. CASE l \in DOMAIN pm
    <3>1. pm' = [m \in DOMAIN pm \ {l} |-> pm[m]]
      BY <1>4, <1>9, <1>12, <2>2, <2>4 DEF DbApply
    <3>2. /\ \A m : m \in DOMAIN pm' <=> m \in DOMAIN pm /\ m # l
          /\ \A m, o \in Players : InDb(pm', m, o) <=> InDb(pm, m, o) /\ m # l
      BY <3>1 DEF InDb
    <3>3. Puts(ToGamePackets, toGame', toGame, Games \ {g}, x)
      <4>1. toGame' = [h \in Games |-> IF h \in Games \ {g} THEN Append(toGame[h], x) ELSE toGame[h]]
        BY <1>9, <1>12, <2>2, <2>4 DEF Forward
      <4>2. x \in ToGamePackets
        BY <1>3, <2>1, DeletedIs
      <4> QED  BY <1>6, <4>1, <4>2 DEF Puts
    <3>4. PartyInv(party, at, linked, pm', toDb', toGame')
      <4>1. /\ Pops(ToDbPackets, toDb', toDb, g, Deleted(l))
            /\ Puts(ToGamePackets, toGame', toGame, Games \ {g}, Deleted(l))
        BY <1>2, <2>1, <3>3
      <4>2. l \in Players /\ PartyInv(party, at, linked, pm, toDb, toGame)
        BY <1>3 DEF Parties
      <4> QED  BY <2>4, <3>2, <4>1, <4>2, DeletionKeeps
    <3> QED  BY <1>1, <3>4 DEF Parties
  <2> QED  BY <2>3, <2>4
<1>13. CASE x.k = "remove"
  <2>1. x = Removed(l, p)
    BY <1>3, <1>13
  <2>0. l # p
    <3>1. Kinds(toDb, toGame)
      BY DEF Parties, PartyInv
    <3> QED  BY <1>2, <1>3, <2>1, <3>1 DEF Kinds
  <2>2. DbTakes(x) <=> l \in DOMAIN pm /\ p \in pm[l]
    BY <1>4, <1>13 DEF DbTakes
  <2>3. CASE ~DbTakes(x)
    <3>1. /\ \A m \in Players : x # Created(m)
          /\ \A m, o \in Players : x \in Ends(m, o) => m = l /\ o = p
          /\ \A m, o \in Players : x # Start(m, o)
      BY <1>3, <2>1, RemovedIs
    <3>2. ~InDb(pm, l, p)
      BY <2>0, <2>2, <2>3 DEF InDb
    <3> QED  BY <1>10, <2>3, <3>1, <3>2
  <2>4. CASE DbTakes(x)
    <3>1. pm' = [pm EXCEPT ![l] = @ \ {p}]
      BY <1>4, <1>9, <1>13, <2>4 DEF DbApply
    <3>2. /\ DOMAIN pm' = DOMAIN pm
          /\ \A m, o \in Players : InDb(pm', m, o) <=> InDb(pm, m, o) /\ ~(m = l /\ o = p)
      BY <2>0, <3>1 DEF InDb
    <3>3. Puts(ToGamePackets, toGame', toGame, Games \ {g}, x)
      <4>1. toGame' = [h \in Games |-> IF h \in Games \ {g} THEN Append(toGame[h], x) ELSE toGame[h]]
        BY <1>9, <1>13, <2>4 DEF Forward
      <4>2. x \in ToGamePackets
        BY <1>3, <2>1, RemovedIs
      <4> QED  BY <1>6, <4>1, <4>2 DEF Puts
    <3>4. PartyInv(party, at, linked, pm', toDb', toGame')
      BY <1>2, <1>3, <2>1, <2>2, <2>4, <3>2, <3>3, RemovalKeeps DEF Parties
    <3> QED  BY <1>1, <3>4 DEF Parties
  <2> QED  BY <2>3, <2>4
<1>14. CASE x.k = "level"
  <2>1. ~DbTakes(x)
    BY <1>14 DEF DbTakes
  <2> QED  BY <1>3, <1>5, <1>10, <1>14, <2>1 DEF Neutral
<1>15. CASE x.k = "add"
  <2>1. x = Added(l, p)
    BY <1>3, <1>15
  <2>2. DbTakes(x) <=> l \in DOMAIN pm /\ p \notin pm[l]
    BY <1>4, <1>15 DEF DbTakes
  <2>3. /\ p # l => x = Start(l, p)
        /\ p = l => Neutral(x, l)
    BY <1>3, <2>1, Names, NeutralAre
  <2>4. /\ \A m \in Players : x # Created(m)
        /\ \A m, o \in Players : x \notin Ends(m, o)
        /\ \A m, o \in Players : x = Start(m, o) => m = l /\ o = p
    <3>1. CASE p = l
      BY <2>3, <3>1 DEF Neutral
    <3>2. CASE p # l
      BY <1>3, <2>3, <3>2, StartIs
    <3> QED  BY <3>1, <3>2
  <2>5. CASE ~DbTakes(x)
    <3>1. InDb(pm, l, p) \/ l \notin DOMAIN pm
      BY <2>2, <2>5 DEF InDb
    <3> QED  BY <1>10, <2>4, <2>5, <3>1
  <2>6. CASE DbTakes(x)
    <3> DEFINE r == Longer(toGame, Games \ {g}, x)
    <3>1. pm' = [pm EXCEPT ![l] = @ \cup {p}] /\ l \in DOMAIN pm
      BY <1>4, <1>9, <1>15, <2>2, <2>6 DEF DbApply
    <3>2. /\ DOMAIN pm' = DOMAIN pm
          /\ \A m, o \in Players : InDb(pm', m, o) <=> InDb(pm, m, o) \/ (m = l /\ o = p)
      BY <3>1 DEF InDb
    <3>3. x \in ToGamePackets
      BY <1>3, <2>3, StartIs DEF Neutral
    <3>4. Puts(ToGamePackets, r, toGame, Games \ {g}, x) /\ r \in [Games -> Seq(ToGamePackets)]
      BY <1>6, <3>3, LongerPuts
    <3>5. toGame' = [h \in Games |-> IF h # g THEN Append(toGame[h], x) ELSE Append(toGame[h], v)]
      BY <1>4, <1>9, <1>15, <2>6 DEF Forward, v
    <3>6. toGame' = Longer(r, {g}, v)
      BY <1>6, <3>5 DEF Longer
    <3> HIDE DEF r
    <3>7. Puts(ToGamePackets, toGame', r, {g}, v)
      BY <1>7, <3>4, <3>6, LongerPuts
    <3>8. PartyInv(party, at, linked, pm', toDb', r)
      <4>1. CASE p # l
        <5>1. \A m : m \in DOMAIN pm' <=> m \in DOMAIN pm \/ m = l
          BY <3>1, <3>2
        <5>2. /\ Pops(ToDbPackets, toDb', toDb, g, Start(l, p))
              /\ Puts(ToGamePackets, r, toGame, Games \ {g}, Start(l, p))
          BY <1>2, <2>3, <3>4, <4>1
        <5>3. l \in Players /\ p \in Players /\ PartyInv(party, at, linked, pm, toDb, toGame)
          BY <1>3 DEF Parties
        <5>4. \A m, o \in Players : InDb(pm', m, o) <=> InDb(pm, m, o) \/ (m = l /\ o = p)
          BY <3>2
        <5>5. p # l => l \in DOMAIN pm
          BY <3>1
        <5> QED  BY <5>1, <5>2, <5>3, <5>4, <5>5, StartKeeps
      <4>2. CASE p = l
        <5>1. \A m, o \in Players : InDb(pm', m, o) <=> InDb(pm, m, o)
          BY <3>1, <3>2, <4>2 DEF InDb
        <5>2. \A m, o \in Players : x # Start(m, o)
          BY <2>3, <4>2 DEF Neutral
        <5>3. PartyInv(party, at, linked, pm', toDb', toGame)
          BY <1>2, <2>4, <3>2, <5>1, <5>2, VainKeeps DEF Parties
        <5> QED  BY <1>3, <2>3, <3>1, <3>2, <3>4, <4>2, <5>3, LevelsSent
      <4> QED  BY <4>1, <4>2
    <3>9. PartyInv(party, at, linked, pm', toDb', toGame')
      BY <1>3, <1>5, <3>1, <3>2, <3>7, <3>8, LevelsSent
    <3> QED  BY <1>1, <3>9 DEF Parties
  <2> QED  BY <2>5, <2>6
<1> QED  BY <1>3, <1>11, <1>12, <1>13, <1>14, <1>15

(* What a game reads.                                                      *)
LEMMA ReceivedIs ==
    ASSUME TypeInv, NEW g \in Games, NEW kinds, Received(g, kinds)
    PROVE  LET x == Head(toGame[g])
           IN /\ Pops(ToGamePackets, toGame', toGame, g, x)
              /\ x \in ToGamePackets /\ Has(toGame[g], {x}) /\ x.k \in kinds
              /\ x.l \in Players /\ x.p \in Players
              /\ x.k = "create" => x = Created(x.l) /\ x.p = x.l
              /\ x.k = "delete" => x = Deleted(x.l)
              /\ x.k = "add"    => x = Added(x.l, x.p)
              /\ x.k = "remove" => x = Removed(x.l, x.p)
              /\ x.k = "level"  => x = Leveled(x.l, x.p)
              /\ x.k = "load"   => x = Loaded(x.p)
<1> DEFINE x == Head(toGame[g])
<1>1. toGame[g] # <<>> /\ toGame' = [toGame EXCEPT ![g] = Tail(@)] /\ x.k \in kinds
  BY DEF Received
<1>2. Pops(ToGamePackets, toGame', toGame, g, x) /\ x \in ToGamePackets /\ Has(toGame[g], {x})
  BY <1>1, HeadPopped
<1> HIDE DEF x
<1>3. x.k = "load" => x = Loaded(x.p)
  BY <1>2 DEF ToGamePackets
<1> QED  BY <1>1, <1>2, <1>3, PacketIs DEF x

LEMMA CrossedNot ==
    ASSUME NEW l, NEW found, Crossed(l, found) = {}
    PROVE  found \in {None, l} /\ excuses = {}
  BY DEF Crossed

(* The replicas after a change of g's.                                     *)
LEMMA SetReplicaIs ==
    ASSUME TypeInv, NEW g \in Games, NEW m, SetReplica(g, m)
    PROVE  party' = With(party, g, m) /\ linked' = Knowing(linked, at, g, party', party)
<1>1. party' = [party EXCEPT ![g] = m] /\ party'[g] = m
  BY DEF SetReplica, TypeInv, Rest
<1> QED  BY <1>1 DEF SetReplica, With, Knowing

(* None of them is g's.                                                    *)
LEMMA SameReplicaIs ==
    ASSUME TypeInv, NEW g \in Games, UNCHANGED <<party, linked>>
    PROVE  party' = With(party, g, party[g]) /\ linked' = Knowing(linked, at, g, party', party)
<1>1. party' = [party EXCEPT ![g] = party[g]]
  BY DEF TypeInv, Rest
<1> QED  BY <1>1 DEF With, Knowing

LEMMA P2PCreatePartyParties ==
    ASSUME PartyAssumption, TypeInv, Parties, NEW g \in Games, P2PCreateParty(g), excuses' = {}
    PROVE  Parties'
<1> DEFINE x == Head(toGame[g])
           l == x.l
           m == [party[g] EXCEPT ![l] = l]
<1>1. /\ Received(g, {"create", "level"}) /\ UNCHANGED <<at, pm, toDb>>
      /\ IF party[g][l] = None THEN SetReplica(g, m) ELSE UNCHANGED <<party, linked>>
      /\ excuses' = IF x.k = "level" /\ party[g][l] = None
                    THEN excuses \cup {"ghost"} ELSE Crossed(l, party[g][l])
  BY DEF P2PCreateParty
<1>2. /\ Pops(ToGamePackets, toGame', toGame, g, x) /\ x.k \in {"create", "level"} /\ l \in Players
      /\ x.k = "create" => x = Created(l)
      /\ x.k = "level"  => \E p \in Players : x = Leveled(l, p)
  BY <1>1, ReceivedIs
<1> HIDE DEF x, l
<1>3. party[g][l] \in {None, l} /\ (x.k = "level" => party[g][l] # None)
  BY <1>1, CrossedNot
<1>4. l # None
  BY <1>2 DEF PartyAssumption
<1>5. CASE party[g][l] = None
  <2>1. x = Start(l, l)
    BY <1>2, <1>3, <1>5, Names
  <2>2. SetReplica(g, m)
    BY <1>1, <1>5
  <2>3. /\ party' = With(party, g, With(party[g], l, l))
        /\ linked' = Knowing(linked, at, g, party', party)
    <3>1. m = With(party[g], l, l)
      BY DEF With
    <3> HIDE DEF m
    <3> QED  BY <2>2, <3>1, SetReplicaIs
  <2>4. Pops(ToGamePackets, toGame', toGame, g, Start(l, l))
        /\ PartyInv(party, at, linked, pm, toDb, toGame)
    BY <1>2, <2>1 DEF Parties
  <2>5. PartyInv(party', at, linked', pm, toDb, toGame')
    BY <1>2, <1>5, <2>3, <2>4, ToldStartKeeps
  <2> QED  BY <1>1, <2>5 DEF Parties
<1>6. CASE party[g][l] # None
  <2>1. party[g][l] = l /\ UNCHANGED <<party, linked>>
    BY <1>1, <1>3, <1>6
  <2>2. /\ \A n, o \in Players : x \notin Ends(n, o)
        /\ \A n, o \in Players : x = Start(n, o) => party[g][o] = n
    <3>1. CASE x = Start(l, l)
      BY <1>2, <2>1, <3>1, StartIs
    <3>2. CASE x # Start(l, l)
      <4>1. \E p \in Players : x = Leveled(l, p)
        BY <1>2, <3>2, Names
      <4> QED  BY <1>2, <4>1, NeutralAre DEF Neutral
    <3> QED  BY <3>1, <3>2
  <2>3. PartyInv(party, at, linked, pm, toDb, toGame')
    BY <1>2, <2>2, ToldIdleKeeps DEF Parties
  <2> QED  BY <1>1, <2>1, <2>3 DEF Parties
<1> QED  BY <1>5, <1>6

LEMMA DroppedIs ==
    ASSUME PartyAssumption, NEW m \in [Players -> Players \cup {None}],
           NEW l \in Players, NEW p \in Players
    PROVE  /\ Dropped(m, Deleted(l)) = Without(m, l)
           /\ m[p] = l => Dropped(m, Removed(l, p)) = [m EXCEPT ![p] = None]
           /\ m[p] # l => Dropped(m, Removed(l, p)) = m
           /\ (\A o \in Players : m[o] # l) => Dropped(m, Deleted(l)) = m
<1>1. \A o \in Players : m[o] # None /\ Deleted(l) \in Ends(m[o], o) <=> m[o] = l
  BY DeletedIs DEF PartyAssumption
<1>2. \A o \in Players : m[o] # None /\ Removed(l, p) \in Ends(m[o], o) <=> m[o] = l /\ o = p
  BY RemovedIs DEF PartyAssumption
<1>3. Dropped(m, Deleted(l)) = Without(m, l)
  BY <1>1 DEF Dropped, Without
<1>4. m[p] = l => Dropped(m, Removed(l, p)) = [m EXCEPT ![p] = None]
  BY <1>2 DEF Dropped
<1>5. m[p] # l => Dropped(m, Removed(l, p)) = m
  BY <1>2 DEF Dropped
<1>6. (\A o \in Players : m[o] # l) => Dropped(m, Deleted(l)) = m
  BY <1>1 DEF Dropped
<1> QED  BY <1>3, <1>4, <1>5, <1>6

LEMMA P2PDeletePartyParties ==
    ASSUME PartyAssumption, TypeInv, Parties, NEW g \in Games, P2PDeleteParty(g), excuses' = {}
    PROVE  Parties'
<1> DEFINE x == Head(toGame[g])
           l == x.l
           m == Without(party[g], party[g][l])
<1>1. /\ Received(g, {"delete"}) /\ UNCHANGED <<at, pm, toDb>>
      /\ IF party[g][l] = None THEN UNCHANGED <<party, linked>> ELSE SetReplica(g, m)
      /\ excuses' = Crossed(l, party[g][l])
  BY DEF P2PDeleteParty
<1>2. Pops(ToGamePackets, toGame', toGame, g, x) /\ l \in Players /\ x = Deleted(l)
  <2>1. /\ Pops(ToGamePackets, toGame', toGame, g, x) /\ x.l \in Players
        /\ x.k \in {"delete"} /\ (x.k = "delete" => x = Deleted(x.l))
    BY <1>1, ReceivedIs
  <2> QED  BY <2>1
<1> HIDE DEF x, l
<1>3. party[g][l] \in {None, l}
  BY <1>1, CrossedNot
<1>4. /\ party[g] \in [Players -> Players \cup {None}] /\ party = [party EXCEPT ![g] = party[g]]
      /\ linked \subseteq Players
  BY DEF TypeInv, Rest, LinkedOK
<1>5. /\ party' = With(party, g, Dropped(party[g], x))
      /\ linked' = Knowing(linked, at, g, party', party)
  <2>1. CASE party[g][l] = None
    <3>1. \A o \in Players : party[g][o] # l
      <4>1. Lead(party) /\ l # None
        BY <1>2 DEF Parties, PartyInv, PartyAssumption
      <4> QED  BY <1>2, <2>1, <4>1 DEF Lead
    <3>2. Dropped(party[g], x) = party[g]
      BY <1>2, <1>4, <3>1, DroppedIs
    <3> QED  BY <1>1, <2>1, <3>2, SameReplicaIs
  <2>2. CASE party[g][l] # None
    <3>1. party[g][l] = l /\ SetReplica(g, m)
      BY <1>1, <1>3, <2>2
    <3>2. m = Dropped(party[g], x)
      BY <1>2, <1>4, <3>1, DroppedIs
    <3> HIDE DEF m
    <3> QED  BY <3>1, <3>2, SetReplicaIs
  <2> QED  BY <2>1, <2>2
<1>6. x \in Ends(l, l)
  BY <1>2, Names
<1>7. PartyInv(party', at, linked', pm, toDb, toGame')
  BY <1>2, <1>5, <1>6, ToldEndKeeps DEF Parties
<1> QED  BY <1>1, <1>7 DEF Parties

LEMMA P2PJoinPartyParties ==
    ASSUME PartyAssumption, TypeInv, Parties, NEW g \in Games, P2PJoinParty(g), excuses' = {}
    PROVE  Parties' /\ UNCHANGED undefined
<1> DEFINE x    == Head(toGame[g])
           l    == x.l
           p    == x.p
           to   == party[g][l]
           from == party[g][p]
           m    == [party[g] EXCEPT ![p] = to]
<1>1. /\ Received(g, {"add"}) /\ UNCHANGED <<at, pm>>
      /\ to # None /\ from = None => SetReplica(g, m)
      /\ to # None /\ from # None => UNCHANGED <<party, linked>>
      /\ ~(to # None /\ from \notin {None, to}) => UNCHANGED <<toDb, undefined>>
      /\ excuses' = IF to = None THEN excuses \cup {"ghost"} ELSE Crossed(l, to)
  BY DEF P2PJoinParty
<1>2. /\ Pops(ToGamePackets, toGame', toGame, g, x) /\ l \in Players /\ p \in Players
      /\ x = Added(l, p) /\ Has(toGame[g], {x}) /\ x \in ToGamePackets
  BY <1>1, ReceivedIs
<1> HIDE DEF x, l, p, to, from, m
<1>3. to = l /\ to # None
  BY <1>1, CrossedNot
<1>4. from \in Players \cup {None}
  BY <1>2 DEF from, TypeInv, Rest
<1>5. from \in {None, l}
  <2>1. CASE p = l
    BY <1>3, <2>1 DEF to, from
  <2>2. CASE p # l
    <3>1. x = Start(l, p)
      BY <1>2, <2>2, Names
    <3>2. SUFFICES ASSUME from \in Players, from # l PROVE FALSE
      BY <1>4
    <3>3. Led(toGame[g], Ends(from, p), Start(l, p))
      <4>1. NoClash(party, toGame)
        BY DEF Parties, PartyInv
      <4>2. party[g][p] = from
        BY DEF from
      <4> QED  BY <1>2, <3>2, <4>1, <4>2 DEF NoClash
    <3>4. Took(toGame'[g], toGame[g], x)
      BY <1>2, OneTaken
    <3> QED  BY <3>1, <3>3, <3>4 DEF Took
  <2> QED  BY <2>1, <2>2
<1>6. UNCHANGED <<toDb, undefined>>
  BY <1>1, <1>3, <1>5
<1>7. CASE from = None
  <2>1. p # l
    BY <1>3, <1>7 DEF to, from
  <2>2. x = Start(l, p)
    BY <1>2, <2>1, Names
  <2>3. SetReplica(g, m)
    BY <1>1, <1>3, <1>7
  <2>4. party' = With(party, g, m) /\ linked' = Knowing(linked, at, g, party', party)
    BY <2>3, SetReplicaIs
  <2>5. m = With(party[g], p, l)
    BY <1>3 DEF m, With
  <2>6. Pops(ToGamePackets, toGame', toGame, g, Start(l, p))
        /\ PartyInv(party, at, linked, pm, toDb, toGame)
    BY <1>2, <2>2 DEF Parties
  <2>7. party[g][p] = None /\ party[g][l] = l
    BY <1>3, <1>7 DEF to, from
  <2>8. party' = With(party, g, With(party[g], p, l))
    BY <2>4, <2>5
  <2>9. PartyInv(party', at, linked', pm, toDb, toGame')
    BY <1>2, <2>4, <2>6, <2>7, <2>8, ToldStartKeeps
  <2> QED  BY <1>1, <1>6, <2>9 DEF Parties
<1>8. CASE from = l
  <2>1. UNCHANGED <<party, linked>>
    BY <1>1, <1>3, <1>8
  <2>2. /\ \A n, o \in Players : x \notin Ends(n, o)
        /\ \A n, o \in Players : x = Start(n, o) => party[g][o] = n
    <3>1. CASE x = Start(l, p)
      <4>1. \A n, o \in Players : Start(l, p) = Start(n, o) => n = l /\ o = p
        BY <1>2, StartIs
      <4>2. \A n, o \in Players : Start(l, p) \notin Ends(n, o)
        BY <1>2, StartIs
      <4> QED  BY <1>8, <3>1, <4>1, <4>2 DEF from
    <3>2. CASE x # Start(l, p)
      <4>1. x = Added(l, l)
        BY <1>2, <3>2, Names
      <4>2. Neutral(x, l)
        BY <1>2, <4>1, NeutralAre
      <4> QED  BY <4>2 DEF Neutral
    <3> QED  BY <3>1, <3>2
  <2>3. PartyInv(party, at, linked, pm, toDb, toGame')
    BY <1>2, <2>2, ToldIdleKeeps DEF Parties
  <2> QED  BY <1>1, <1>6, <2>1, <2>3 DEF Parties
<1> QED  BY <1>5, <1>7, <1>8

LEMMA P2PQuitPartyParties ==
    ASSUME PartyAssumption, TypeInv, Parties, NEW g \in Games, P2PQuitParty(g), excuses' = {}
    PROVE  Parties'
<1> DEFINE x    == Head(toGame[g])
           l    == x.l
           p    == x.p
           from == party[g][p]
           m    == QuitOf(party[g], from, p)
<1>1. /\ Received(g, {"remove"}) /\ UNCHANGED <<at, pm>>
      /\ IF from = None THEN UNCHANGED <<party, linked>> ELSE SetReplica(g, m)
      /\ from # p => UNCHANGED toDb
      /\ excuses' = Crossed(l, from)
  BY DEF P2PQuitParty
<1>2. /\ Pops(ToGamePackets, toGame', toGame, g, x) /\ l \in Players /\ p \in Players
      /\ x = Removed(l, p) /\ Has(toGame[g], {x})
  BY <1>1, ReceivedIs
<1> HIDE DEF x, l, p
<1>3. from \in {None, l}
  BY <1>1, CrossedNot
<1>4. /\ party[g] \in [Players -> Players \cup {None}] /\ party = [party EXCEPT ![g] = party[g]]
      /\ linked \subseteq Players /\ l # None /\ p # None
  BY <1>2 DEF TypeInv, Rest, LinkedOK, PartyAssumption
<1>5. p # l
  <2>1. Kinds(toDb, toGame)
    BY DEF Parties, PartyInv
  <2> QED  BY <1>2, <2>1 DEF Kinds
<1>6. UNCHANGED toDb
  BY <1>1, <1>3, <1>4, <1>5
<1>7. /\ party' = With(party, g, Dropped(party[g], x))
      /\ linked' = Knowing(linked, at, g, party', party)
  <2>1. CASE from = None
    <3>1. Dropped(party[g], x) = party[g]
      BY <1>2, <1>4, <2>1, DroppedIs
    <3> QED  BY <1>1, <2>1, <3>1, SameReplicaIs
  <2>2. CASE from # None
    <3>1. party[g][p] = l /\ SetReplica(g, m)
      BY <1>1, <1>3, <2>2
    <3>2. m = [party[g] EXCEPT ![p] = None]
      BY <1>5, <3>1 DEF QuitOf
    <3>3. m = Dropped(party[g], x)
      BY <1>2, <1>4, <3>1, <3>2, DroppedIs
    <3> HIDE DEF m
    <3> QED  BY <3>1, <3>3, SetReplicaIs
  <2> QED  BY <2>1, <2>2
<1>8. x \in Ends(l, p)
  BY <1>2, Names
<1>9. PartyInv(party', at, linked', pm, toDb, toGame')
  BY <1>2, <1>7, <1>8, ToldEndKeeps DEF Parties
<1> QED  BY <1>1, <1>6, <1>9 DEF Parties

LEMMA LoadsAre ==
    ASSUME TypeInv'
    PROVE  Loads(at', toGame')
<1> SUFFICES ASSUME NEW g \in Games, NEW p \in Players, Has(toGame'[g], {Loaded(p)})
             PROVE  at'[p] = None
  BY DEF Loads
<1>1. PICK i \in DOMAIN toGame'[g] : toGame'[g][i] = Loaded(p)
  BY DEF Has
<1>2. toGame'[g][i].k = "load" /\ toGame'[g][i].p = p
  BY <1>1 DEF Loaded
<1> QED  BY <1>2 DEF TypeInv, LoadsOnce

LEMMA EnterGameParties ==
    ASSUME PartyAssumption, TypeInv, TypeInv', Parties, NEW g \in Games, EnterGame(g)
    PROVE  Parties'
<1> DEFINE x == Head(toGame[g])
           p == x.p
           m == party[g][p]
<1>1. /\ Received(g, {"load"}) /\ at' = [at EXCEPT ![p] = g] /\ UNCHANGED <<party, pm>>
      /\ m = None => UNCHANGED <<linked, toDb>>
      /\ m # None => linked' = linked \cup {p} /\ SendAll(g, <<Leveled(m, p)>>)
  BY DEF EnterGame
<1>2. /\ Pops(ToGamePackets, toGame', toGame, g, Loaded(p)) /\ p \in Players
  <2>1. /\ Pops(ToGamePackets, toGame', toGame, g, x) /\ p \in Players
        /\ x.k \in {"load"} /\ (x.k = "load" => x = Loaded(p))
    BY <1>1, ReceivedIs
  <2> HIDE DEF x
  <2> QED  BY <2>1
<1> HIDE DEF x, p
<1>3. Loads(at', toGame')
  BY LoadsAre
<1>4. at' = With(at, p, g) /\ linked \subseteq linked' /\ (party[g][p] # None => p \in linked')
  BY <1>1 DEF With, m
<1>5. PartyInv(party, at', linked', pm, toDb, toGame')
  <2>1. PartyInv(party, at, linked, pm, toDb, toGame)
    BY DEF Parties
  <2> HIDE DEF m
  <2> QED  BY <1>2, <1>3, <1>4, <2>1, EnterKeeps
<1>6. CASE m = None
  BY <1>1, <1>5, <1>6 DEF Parties
<1>7. CASE m # None
  <2>1. m \in Players
    BY <1>2, <1>7 DEF TypeInv, Rest
  <2>2. party[g][m] = m
    <3>1. Lead(party)
      BY DEF Parties, PartyInv
    <3> QED  BY <1>2, <2>1, <3>1 DEF Lead
  <2> HIDE DEF m
  <2>3. Neutral(Leveled(m, p), m) /\ Leveled(m, p) \in ToDbPackets
    BY <1>2, <2>1, NeutralAre DEF Neutral
  <2>4. Puts(ToDbPackets, toDb', toDb, {g}, Leveled(m, p))
    BY <1>1, <1>7, <2>3, OneSent
  <2>5. PartyInv(party, at', linked', pm, toDb', toGame')
    BY <1>5, <2>1, <2>2, <2>3, <2>4, LevelKeeps
  <2> QED  BY <1>1, <2>5 DEF Parties
<1> QED  BY <1>6, <1>7

LEMMA DisconnectParties ==
    ASSUME PartyAssumption, TypeInv, Parties, NEW p \in Players, Disconnect(p)
    PROVE  Parties'
<1> DEFINE g == at[p]
<1>1. /\ g # None /\ at' = [at EXCEPT ![p] = None] /\ linked' = linked \ {p}
      /\ SendAll(g, <<LoggedOut(p)>>) /\ UNCHANGED <<party, pm, toGame>>
  BY DEF Disconnect
<1>2. g \in Games
  BY <1>1 DEF TypeInv, Rest
<1>3. at[p] = g
  OBVIOUS
<1> HIDE DEF g
<1>4. Puts(ToDbPackets, toDb', toDb, {g}, LoggedOut(p))
  BY <1>1, <1>2, PacketsTyped, OneSent
<1>5. at' = With(at, p, None) /\ \A q : q \in linked' <=> q \in linked /\ q # p
  BY <1>1 DEF With
<1>6. PartyInv(party, at, linked, pm, toDb, toGame)
  BY DEF Parties
<1>7. PartyInv(party, at', linked', pm, toDb', toGame)
  BY <1>2, <1>3, <1>4, <1>5, <1>6, LogoutKeeps
<1> QED  BY <1>1, <1>7 DEF Parties

(* A leader of whose earlier parties nothing is left.                      *)
LEMMA NothingLingers ==
    ASSUME NEW g \in Games, NEW l \in Players, ~Lingers(g, l)
    PROVE  Forgotten(party, pm, toDb, toGame, g, l)
<1>1. l \notin DOMAIN pm
  BY DEF Lingers
<1>2. ASSUME NEW h \in Games PROVE h # g => party[h][l] # l
  BY DEF Lingers
<1>3. ASSUME NEW h \in Games, NEW q \in {toDb[h], toGame[h]} PROVE ~Has(q, Named(l))
  <2>1. \A i \in DOMAIN q : ~(q[i].l = l /\ q[i].k \notin {"logout", "load"})
    BY DEF Lingers
  <2>2. \A y \in Named(l) : y.l = l /\ y.k \notin {"logout", "load"}
    BY DEF Named
  <2> QED  BY <2>1, <2>2 DEF Has
<1>4. \A h \in Games : ~Has(toDb[h], Named(l)) /\ ~Has(toGame[h], Named(l))
  BY <1>3
<1> QED  BY <1>1, <1>2, <1>4 DEF Forgotten

LEMMA PartyInviteAcceptParties ==
    ASSUME PartyAssumption, TypeInv, Parties, NEW l \in Players, NEW p \in Players,
           PartyInviteAccept(l, p), excuses' = {}
    PROVE  Parties' /\ UNCHANGED undefined
<1> DEFINE g     == at[l]
           fresh == l \notin linked
<1>1. /\ l # p /\ g # None /\ at[p] = g /\ p \notin linked /\ at[l] = g
      /\ UNCHANGED <<at, pm, toGame>>
      /\ ~fresh => party[g][l] = l
      /\ SendAll(g, (IF fresh THEN <<Created(l)>> \o JoinPackets(g, l, l, TRUE) ELSE <<>>)
                    \o (IF fresh /\ Clash(g, l, l, TRUE) THEN <<>>
                        ELSE JoinPackets(g, l, p, FALSE)))
      /\ IF (fresh /\ Clash(g, l, l, TRUE)) \/ Clash(g, l, p, FALSE)
         THEN UNCHANGED <<party, linked>>
         ELSE /\ party' = [party EXCEPT ![g][l] = l, ![g][p] = l]
              /\ linked' = linked \cup {l, p}
              /\ UNCHANGED undefined
      /\ fresh => ~Lingers(g, l)
  BY DEF PartyInviteAccept, Operation
<1>2. g \in Games
  BY <1>1 DEF TypeInv, Rest
<1> HIDE DEF g
<1>3. party[g][p] = None /\ (fresh => party[g][l] = None)
  <2>1. Links(party, at, linked)
    BY DEF Parties, PartyInv
  <2> QED  BY <1>1, <1>2, <2>1 DEF Links
<1>4. ~Clash(g, l, p, FALSE) /\ (fresh => ~Clash(g, l, l, TRUE))
  BY <1>3 DEF Clash
<1>5. JoinPackets(g, l, p, FALSE) = <<Added(l, p)>>
      /\ (fresh => JoinPackets(g, l, l, TRUE) = <<Added(l, l)>>)
  BY <1>4 DEF JoinPackets
<1>6. /\ party' = [party EXCEPT ![g][l] = l, ![g][p] = l]
      /\ linked' = linked \cup {l, p} /\ UNCHANGED undefined
  BY <1>1, <1>4
<1>7. Start(l, p) = Added(l, p) /\ Start(l, l) = Created(l)
      /\ {Created(l), Added(l, l), Added(l, p)} \subseteq ToDbPackets
  BY <1>1, Names, PacketsTyped
<1>8. party \in [Games -> [Players -> Players \cup {None}]] /\ party[g] \in [Players -> Players \cup {None}]
      /\ toDb \in [Games -> Seq(ToDbPackets)] /\ PartyInv(party, at, linked, pm, toDb, toGame)
  BY <1>2 DEF TypeInv, Rest, QueuesOK, Parties
<1>9. CASE ~fresh
  <2>1. SendAll(g, <<>> \o <<Added(l, p)>>)
    BY <1>1, <1>4, <1>5, <1>9
  <2>2. <<>> \o <<Added(l, p)>> = <<Added(l, p)>>
    <3>1. <<Added(l, p)>> \in Seq(ToDbPackets)
      BY <1>7
    <3> QED  BY <3>1, ConcatEmptySeq
  <2>3. Puts(ToDbPackets, toDb', toDb, {g}, Start(l, p))
    BY <1>2, <1>7, <2>1, <2>2, OneSent
  <2>4. party' = With(party, g, With(party[g], p, l))
    <3>1. party[g][l] = l
      BY <1>1, <1>9
    <3> QED  BY <1>2, <1>6, <1>8, <3>1 DEF With
  <2>5. linked' = Also(linked, p)
    BY <1>6, <1>9 DEF Also
  <2>6. party[g][l] = l
    BY <1>1, <1>9
  <2>7. at[l] = g /\ at[p] = g /\ party[g][p] = None /\ l # p
    BY <1>1, <1>3
  <2>8. PartyInv(party', at, linked', pm, toDb', toGame)
    BY <1>2, <1>8, <2>3, <2>4, <2>5, <2>6, <2>7, JoinKeeps
  <2> QED  BY <1>1, <1>6, <2>8 DEF Parties
<1>10. CASE fresh
  <2> DEFINE e1  == Longer(toDb, {g}, Start(l, l))
             e2  == Longer(e1, {g}, Added(l, l))
             pt1 == With(party, g, With(party[g], l, l))
             ln1 == Also(linked, l)
  <2>1. SendAll(g, (<<Created(l)>> \o <<Added(l, l)>>) \o <<Added(l, p)>>)
    BY <1>1, <1>4, <1>5, <1>10
  <2>2. toDb' = Longer(e2, {g}, Start(l, p))
    BY <1>2, <1>7, <2>1, ThreeSent
  <2>3. Puts(ToDbPackets, e1, toDb, {g}, Start(l, l)) /\ e1 \in [Games -> Seq(ToDbPackets)]
    BY <1>7, <1>8, LongerPuts
  <2>4. ln1 = Also(linked, l)
    OBVIOUS
  <2>5. pt1 = With(party, g, With(party[g], l, l))
    OBVIOUS
  <2>6. pt1[g][l] = l /\ pt1[g][p] = None
    BY <1>1, <1>2, <1>3, <1>8 DEF With
  <2>7. party' = With(pt1, g, With(pt1[g], p, l))
    <3>1. pt1 = [party EXCEPT ![g] = [party[g] EXCEPT ![l] = l]]
      BY DEF With
    <3>2. pt1[g] = [party[g] EXCEPT ![l] = l]
      BY <1>2, <1>8, <3>1
    <3>3. With(pt1, g, With(pt1[g], p, l)) = [party EXCEPT ![g] = [[party[g] EXCEPT ![l] = l] EXCEPT ![p] = l]]
      BY <1>2, <1>8, <3>1, <3>2 DEF With
    <3> QED  BY <1>2, <1>6, <1>8, <3>3
  <2>8. linked' = Also(ln1, p)
    BY <1>6 DEF Also
  <2> HIDE DEF e1, pt1, ln1
  <2>9. Puts(ToDbPackets, e2, e1, {g}, Added(l, l)) /\ e2 \in [Games -> Seq(ToDbPackets)]
    BY <1>7, <2>3, LongerPuts
  <2> HIDE DEF e2
  <2>10. Puts(ToDbPackets, toDb', e2, {g}, Start(l, p))
    BY <1>7, <2>2, <2>9, LongerPuts
  <2>11. Forgotten(party, pm, toDb, toGame, g, l)
    BY <1>1, <1>2, <1>10, NothingLingers
  <2>12. party[g][l] = None /\ at[l] = g /\ at[p] = g /\ l # p
    BY <1>1, <1>3, <1>10
  <2>13. PartyInv(pt1, at, ln1, pm, e1, toGame)
    BY <1>2, <1>8, <2>3, <2>4, <2>5, <2>11, <2>12, JoinKeeps
  <2>14. PartyInv(pt1, at, ln1, pm, e2, toGame)
    BY <1>2, <2>6, <2>9, <2>13, NeutralAre, LevelKeeps
  <2>15. PartyInv(party', at, linked', pm, toDb', toGame)
    BY <1>2, <2>6, <2>7, <2>8, <2>10, <2>12, <2>14, JoinKeeps
  <2> QED  BY <1>1, <1>6, <2>15 DEF Parties
<1> QED  BY <1>9, <1>10

LEMMA QuitOrDeleteParties ==
    ASSUME PartyAssumption, TypeInv, Parties,
           NEW g \in Games, NEW l \in Players, NEW p \in Players,
           party[g][p] = l, at[p] = g \/ at[l] = g, QuitOrDelete(g, l, p)
    PROVE  Parties'
<1>1. PICK gone \in {l, p} :
         /\ SetReplica(g, QuitOf(party[g], l, gone))
         /\ SendAll(g, <<QuitPacket(l, gone)>>)
         /\ UNCHANGED <<at, pm, toGame>>
  BY DEF QuitOrDelete, Operation
<1> DEFINE x == QuitPacket(l, gone)
<1>2. party[g] \in [Players -> Players \cup {None}]
  BY DEF TypeInv, Rest
<1>3. /\ x \in Ends(l, p) /\ x \in ToDbPackets /\ (x = Removed(l, p) => p # l)
      /\ QuitOf(party[g], l, gone) = Dropped(party[g], x)
  <2>1. CASE gone = l
    <3>1. x = Deleted(l) /\ QuitOf(party[g], l, gone) = Without(party[g], l)
      BY <2>1 DEF QuitPacket, QuitOf
    <3>2. Without(party[g], l) = Dropped(party[g], Deleted(l))
      BY <1>2, DroppedIs
    <3>3. Deleted(l) # Removed(l, p) /\ Deleted(l) \in ToDbPackets /\ Deleted(l) \in Ends(l, p)
      BY DeletedIs
    <3> HIDE DEF x
    <3> QED  BY <3>1, <3>2, <3>3
  <2>2. CASE gone # l
    <3>1. gone = p /\ p # l /\ x = Removed(l, p)
          /\ QuitOf(party[g], l, gone) = [party[g] EXCEPT ![p] = None]
      BY <2>2 DEF QuitPacket, QuitOf
    <3>2. [party[g] EXCEPT ![p] = None] = Dropped(party[g], Removed(l, p))
      BY <1>2, DroppedIs
    <3>3. Removed(l, p) \in ToDbPackets /\ Removed(l, p) \in Ends(l, p)
      BY RemovedIs
    <3> HIDE DEF x
    <3> QED  BY <3>1, <3>2, <3>3
  <2> QED  BY <2>1, <2>2
<1>4. SendAll(g, <<x>>) /\ SetReplica(g, Dropped(party[g], x))
  BY <1>1, <1>3
<1> HIDE DEF x
<1>5. party' = With(party, g, Dropped(party[g], x)) /\ linked' = Knowing(linked, at, g, party', party)
  BY <1>4, SetReplicaIs
<1>6. Puts(ToDbPackets, toDb', toDb, {g}, x)
  BY <1>3, <1>4, OneSent
<1>7. PartyInv(party, at, linked, pm, toDb, toGame)
  BY DEF Parties
<1>8. PartyInv(party', at, linked', pm, toDb', toGame)
  BY <1>3, <1>5, <1>6, <1>7, LeaveKeeps
<1> QED  BY <1>1, <1>8 DEF Parties

LEMMA LeavesParties ==
    ASSUME PartyAssumption, TypeInv, Parties, NEW p \in Players,
           Ungroup(p) \/ \E l \in Players : PartyRemove(l, p)
    PROVE  Parties'
<1>1. CASE Ungroup(p)
  <2>1. p \in linked /\ QuitOrDelete(at[p], party[at[p]][p], p)
    BY <1>1 DEF Ungroup
  <2>2. at[p] \in Games /\ party[at[p]][p] \in Players
    BY <2>1 DEF TypeInv, LinkedOK, Rest
  <2> QED  BY <2>1, <2>2, QuitOrDeleteParties
<1>2. ASSUME NEW l \in Players, PartyRemove(l, p) PROVE Parties'
  <2>1. l \in linked /\ QuitOrDelete(at[l], l, p) /\ party[at[l]][p] = l
    BY <1>2 DEF PartyRemove, Members
  <2>2. at[l] \in Games
    BY <2>1 DEF TypeInv, LinkedOK, Rest
  <2> QED  BY <2>1, <2>2, QuitOrDeleteParties
<1> QED  BY <1>1, <1>2

LEMMA GameRestartParties ==
    ASSUME PartyAssumption, TypeInv, Parties, NEW g \in Games, GameRestart(g)
    PROVE  Parties'
<1>1. PICK q \in SetupPackets : Setup({g}, q)
  BY DEF GameRestart
<1>2. Whole(pm, q)
  BY SetupWhole DEF TypeInv
<1>3. Restarted(party', at', linked', toDb', toGame', party, at, linked, toDb, toGame, g, q) /\ pm' = pm
  BY <1>1 DEF GameRestart, Setup, Restarted
<1>4. PartyInv(party, at, linked, pm, toDb, toGame)
  BY DEF Parties
<1>5. PartyInv(party', at', linked', pm, toDb', toGame')
  BY <1>2, <1>3, <1>4, RestartKeeps
<1> QED  BY <1>3, <1>5 DEF Parties

LEMMA DbRestartParties ==
    ASSUME PartyAssumption, TypeInv, DbRestart
    PROVE  Parties'
<1>1. Setup(Games, <<>>) /\ pm' = <<>> /\ UNCHANGED at
  BY DEF DbRestart
<1>2. party' = NoReplicas /\ toDb' = NoPackets /\ toGame' = NoPackets
  BY <1>1 DEF Setup, NoReplicas, NoPackets
<1>3. DOMAIN pm' = {}
  BY <1>1
<1>4. at' \in [Players -> Games \cup {None}]
  BY <1>1 DEF TypeInv, Rest
<1>5. PartyInv(party', at', linked', pm', NoPackets, NoPackets)
  BY <1>2, <1>3, <1>4, EmptyHolds
<1> QED  BY <1>2, <1>5 DEF Parties

LEMMA PartiesWellKept ==
    ASSUME PartyAssumption, TypeInv, TypeInv', PartiesWell, [Next]_vars
    PROVE  PartiesWell'
<1> SUFFICES ASSUME excuses' = {} PROVE Parties' /\ \A g \in Games : Alright(g)'
  BY DEF PartiesWell
<1>0. excuses = {} => Parties /\ \A g \in Games : Alright(g)
  BY DEF PartiesWell
<1>1. ASSUME NEW g \in Games, DbParty(g) PROVE Parties' /\ \A h \in Games : Alright(h)'
  <2>1. UNCHANGED <<undefined, excuses>>
    BY <1>1 DEF DbParty
  <2> QED  BY <1>0, <1>1, <2>1, DbPartyParties DEF Alright
<1>2. ASSUME NEW g \in Games, DbLogout(g) PROVE Parties' /\ \A h \in Games : Alright(h)'
  <2>1. UNCHANGED <<undefined, excuses>>
    BY <1>2 DEF DbLogout
  <2> QED  BY <1>0, <1>2, <2>1, DbLogoutParties DEF Alright
<1>3. ASSUME NEW g \in Games, NEW p \in Players, DbLoad(g, p)
      PROVE  Parties' /\ \A h \in Games : Alright(h)'
  <2>1. UNCHANGED <<undefined, excuses>>
    BY <1>3 DEF DbLoad
  <2> QED  BY <1>0, <1>3, <2>1, DbLoadParties DEF Alright
<1>4. ASSUME NEW g \in Games, P2PCreateParty(g) PROVE Parties' /\ \A h \in Games : Alright(h)'
  <2>1. UNCHANGED undefined /\ excuses \subseteq excuses'
    BY <1>4 DEF P2PCreateParty, Crossed
  <2> QED  BY <1>0, <1>4, <2>1, P2PCreatePartyParties DEF Alright
<1>5. ASSUME NEW g \in Games, P2PDeleteParty(g) PROVE Parties' /\ \A h \in Games : Alright(h)'
  <2>1. UNCHANGED undefined /\ excuses \subseteq excuses'
    BY <1>5 DEF P2PDeleteParty, Crossed
  <2> QED  BY <1>0, <1>5, <2>1, P2PDeletePartyParties DEF Alright
<1>6. ASSUME NEW g \in Games, P2PJoinParty(g) PROVE Parties' /\ \A h \in Games : Alright(h)'
  <2>1. excuses \subseteq excuses'
    BY <1>6 DEF P2PJoinParty, Crossed
  <2> QED  BY <1>0, <1>6, <2>1, P2PJoinPartyParties DEF Alright
<1>7. ASSUME NEW g \in Games, P2PQuitParty(g) PROVE Parties' /\ \A h \in Games : Alright(h)'
  <2>1. UNCHANGED undefined /\ excuses \subseteq excuses'
    BY <1>7 DEF P2PQuitParty, Crossed
  <2> QED  BY <1>0, <1>7, <2>1, P2PQuitPartyParties DEF Alright
<1>8. ASSUME NEW g \in Games, EnterGame(g) PROVE Parties' /\ \A h \in Games : Alright(h)'
  <2>1. UNCHANGED <<undefined, excuses>>
    BY <1>8 DEF EnterGame
  <2> QED  BY <1>0, <1>8, <2>1, EnterGameParties DEF Alright
<1>9. ASSUME NEW g \in Games, GameRestart(g) PROVE Parties' /\ \A h \in Games : Alright(h)'
  <2>1. UNCHANGED excuses /\ undefined' = [undefined EXCEPT ![g] = FALSE]
    BY <1>9 DEF GameRestart
  <2>2. \A h \in Games : Alright(h)'
    BY <1>0, <2>1 DEF Alright, TypeInv, Rest
  <2> QED  BY <1>0, <1>9, <2>1, <2>2, GameRestartParties
<1>10. ASSUME NEW g \in Games, Reconnect(g) PROVE FALSE
  BY <1>10 DEF Reconnect
<1>11. CASE DbRestart
  <2>1. UNCHANGED <<undefined, excuses>>
    BY <1>11 DEF DbRestart
  <2> QED  BY <1>0, <1>11, <2>1, DbRestartParties DEF Alright
<1>12. ASSUME NEW l \in Players, NEW p \in Players, PartyInviteAccept(l, p)
       PROVE  Parties' /\ \A h \in Games : Alright(h)'
  <2>1. excuses \subseteq excuses'
    BY <1>12 DEF PartyInviteAccept
  <2> QED  BY <1>0, <1>12, <2>1, PartyInviteAcceptParties DEF Alright
<1>13. ASSUME NEW l \in Players, NEW p \in Players, PartyRemove(l, p) \/ Ungroup(p)
       PROVE  Parties' /\ \A h \in Games : Alright(h)'
  <2>1. UNCHANGED <<undefined, excuses>>
    BY <1>13 DEF PartyRemove, Ungroup, QuitOrDelete
  <2> QED  BY <1>0, <1>13, <2>1, LeavesParties DEF Alright
<1>14. ASSUME NEW p \in Players, Disconnect(p) PROVE Parties' /\ \A h \in Games : Alright(h)'
  <2>1. UNCHANGED <<undefined, excuses>>
    BY <1>14 DEF Disconnect
  <2> QED  BY <1>0, <1>14, <2>1, DisconnectParties DEF Alright
<1>15. CASE UNCHANGED vars
  BY <1>0, <1>15 DEF vars, Parties, Alright
<1> QED  BY <1>1, <1>2, <1>3, <1>4, <1>5, <1>6, <1>7, <1>8, <1>9, <1>10, <1>11, <1>12, <1>13,
            <1>14, <1>15 DEF Next

LEMMA PartiesWellInit == Init => PartiesWell
<1> SUFFICES ASSUME Init PROVE PartiesWell
  OBVIOUS
<1>1. PartyAssumption /\ at \in [Players -> Games \cup {None}]
  BY PartyAssumption DEF Init
<1>2. party = NoReplicas /\ toDb = NoPackets /\ toGame = NoPackets /\ DOMAIN pm = {}
  BY DEF Init, NoReplicas, NoPackets
<1>3. PartyInv(party, at, linked, pm, NoPackets, NoPackets)
  BY <1>1, <1>2, EmptyHolds
<1>4. \A g \in Games : Alright(g)
  BY DEF Init, Alright
<1> QED  BY <1>2, <1>3, <1>4 DEF PartiesWell, Parties

LEMMA PartiesHold == Spec => [](TypeInv /\ PartiesWell)
<1>1. TypeInv /\ PartiesWell /\ [Next]_vars => PartiesWell'
  <2> SUFFICES ASSUME TypeInv, PartiesWell, [Next]_vars PROVE PartiesWell'
    OBVIOUS
  <2>1. TypeInv'
    BY TypeInvKept
  <2> QED  BY <2>1, PartiesWellKept, PartyAssumption
<1> QED  BY <1>1, TypeInvInit, TypeInvKept, PartiesWellInit, PTL DEF Spec

(* Unless the code has met one of the four things that it does not         *)
(* survive, the db has no player in two parties, and no game adds to a     *)
(* party a player who is in another, which SetPartyMember would pay for    *)
(* with an erased iterator; whatever the order in which packets cross,     *)
(* players change games and processes crash.                               *)
THEOREM NobodyInTwoParties == Spec => []OneParty
<1>1. TypeInv /\ PartiesWell => OneParty
  <2> SUFFICES ASSUME TypeInv, PartiesWell, excuses = {}
               PROVE  /\ \A l, m \in DOMAIN pm : l # m => pm[l] \cap pm[m] = {}
                      /\ \A g \in Games : Alright(g)
    BY DEF OneParty
  <2>1. Parties /\ \A g \in Games : Alright(g)
    BY DEF PartiesWell
  <2>2. OneInDb(pm)
    BY <2>1 DEF Parties, PartyInv
  <2>3. ASSUME NEW l \in DOMAIN pm, NEW m \in DOMAIN pm, l # m, NEW p \in pm[l] \cap pm[m]
        PROVE  FALSE
    <3>1. l \in Players /\ m \in Players /\ p \in Players
      BY DEF TypeInv, PmOK
    <3>2. InDb(pm, l, p) /\ InDb(pm, m, p)
      BY <2>3 DEF InDb
    <3> QED  BY <2>2, <2>3, <3>1, <3>2 DEF OneInDb
  <2> QED  BY <2>1, <2>3
<1> QED  BY <1>1, PartiesHold, PTL

(* Unless one of the four has happened, the replica of every game is what  *)
(* the db has, member by member, whenever no packet is under way: whatever *)
(* a game has changed by itself meanwhile, and whatever it has been told   *)
(* in what order, it ends up with the db's parties.                        *)
THEOREM ReplicasConverge == Spec => []Converged
<1>1. TypeInv /\ PartiesWell => Converged
  <2> SUFFICES ASSUME TypeInv, PartiesWell, Quiet, excuses = {},
                      NEW g \in Games, NEW p \in Players, NEW l \in Players
               PROVE  party[g][p] = l <=> l \in DOMAIN pm /\ p \in pm[l] \cup {l}
    BY DEF Converged
  <2>1. Known(party, pm, toDb, toGame) /\ Right(party, pm, toDb, toGame)
    BY DEF PartiesWell, Parties, PartyInv
  <2>2. toDb[g] = <<>> /\ toGame[g] = <<>>
    BY DEF Quiet
  <2>3. \A S : ~Has(toDb[g], S) /\ ~Has(toGame[g], S)
    BY <2>2, NoQueue
  <2>4. ~Stands(toGame[g], Start(l, p), Ends(l, p))
    <3>1. DOMAIN <<>> = {}
      OBVIOUS
    <3> QED  BY <2>2, <3>1 DEF Stands
  <2>5. ASSUME InDb(pm, l, p) PROVE party[g][p] = l
    <3>1. \/ Stands(toGame[g], Start(l, p), Ends(l, p))
          \/ party[g][p] = l /\ ~Has(toGame[g], Ends(l, p))
          \/ Has(toDb[g], Ends(l, p))
      BY <2>1, <2>5 DEF Known
    <3> QED  BY <2>3, <2>4, <3>1
  <2>6. party[g][p] = l => InDb(pm, l, p)
    BY <2>1, <2>3 DEF Right
  <2> QED  BY <2>5, <2>6 DEF InDb
<1> QED  BY <1>1, PartiesHold, PTL
=============================================================================

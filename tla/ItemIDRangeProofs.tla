-------------------------- MODULE ItemIDRangeProofs --------------------------
(***************************************************************************)
(* Theorems about ItemIDRange for any number of games, size of a range and *)
(* numbers of items, starts and faults.                                    *)
(***************************************************************************)
EXTENDS ItemIDRange, SequenceTheorems, WellFoundedInduction, TLAPS

-----------------------------------------------------------------------------
(* Numbers, and loops.                                                     *)

(* A set of natural numbers has a least element.                           *)
LEMMA LeastNat ==
    ASSUME NEW S \in SUBSET Nat, S # {}
    PROVE  \E m \in S : \A k \in S : m <= k
<1>1. IsWellFoundedOn(OpToRel(<, Nat), Nat)
  BY NatLessThanWellFounded, Zenon
<1>2. \E m \in S : \A k \in S : ~(<<k, m>> \in OpToRel(<, Nat))
  BY <1>1, WFMin, Zenon
<1>3. PICK m \in S : \A k \in S : ~(<<k, m>> \in OpToRel(<, Nat))
  BY <1>2, Zenon
<1>4. \A k \in S : ~ (k < m)
  BY <1>3, Zenon DEF OpToRel
<1> QED  BY <1>4

(* Induction, for a set of natural numbers instead of a property.          *)
LEMMA InductiveSet ==
    ASSUME NEW S, 0 \in S, \A n \in Nat : n \in S => n + 1 \in S
    PROVE  Nat \subseteq S
<1> DEFINE T == Nat \ S
<1> SUFFICES ASSUME T # {} PROVE FALSE
  OBVIOUS
<1>1. PICK m \in T : \A k \in T : m <= k
  <2>1. T \in SUBSET Nat  OBVIOUS
  <2> HIDE DEF T
  <2> QED  BY <2>1, LeastNat
<1>2. m # 0
  OBVIOUS
<1>3. m - 1 \in Nat /\ m - 1 \notin T
  BY <1>1, <1>2
<1> QED  BY <1>3

(* A run of step from base, of N steps.                                    *)
Run(f, S, base, N, step) ==
    /\ f \in [0..N -> S]
    /\ f[0] = base
    /\ \A k \in 1..N : f[k] = step[<<k, f[k - 1]>>]

(* There is one, of any length.                                            *)
LEMMA Iterates ==
    ASSUME NEW S, NEW base \in S, NEW N \in Nat,
           NEW step \in [(1..N) \X S -> S]
    PROVE  \E f : Run(f, S, base, N, step)
<1> DEFINE Goes(f, n) == \A k \in 1..n : f[k] = step[<<k, f[k - 1]>>]
           Upto(n) == \E f \in [0..n -> S] : f[0] = base /\ Goes(f, n)
<1>1. Upto(0)
  <2> DEFINE f == [k \in 0..0 |-> base]
  <2>1. f \in [0..0 -> S] /\ f[0] = base /\ Goes(f, 0)
    OBVIOUS
  <2> QED  BY <2>1, Zenon
<1>2. ASSUME NEW n \in Nat, n + 1 <= N, Upto(n) PROVE Upto(n + 1)
  <2>1. PICK f \in [0..n -> S] : f[0] = base /\ Goes(f, n)
    BY <1>2, Zenon
  <2> DEFINE g == [k \in 0..(n + 1) |-> IF k <= n THEN f[k] ELSE step[<<n + 1, f[n]>>]]
  <2>2. step[<<n + 1, f[n]>>] \in S
    <3>1. <<n + 1, f[n]>> \in (1..N) \X S  BY <1>2
    <3> QED  BY <3>1
  <2>3. g \in [0..(n + 1) -> S]
    BY <2>2
  <2>4. g[0] = base
    BY <2>1
  <2>5. ASSUME NEW k \in 1..(n + 1) PROVE g[k] = step[<<k, g[k - 1]>>]
    <3>1. CASE k \in 1..n
      <4>1. g[k] = f[k] /\ g[k - 1] = f[k - 1]  BY <3>1
      <4> HIDE DEF g
      <4> QED  BY <2>1, <3>1, <4>1
    <3>2. CASE k = n + 1
      <4>1. g[k] = step[<<n + 1, f[n]>>] /\ g[k - 1] = f[n]  BY <3>2
      <4> HIDE DEF g
      <4> QED  BY <3>2, <4>1
    <3> QED  BY <3>1, <3>2
  <2> HIDE DEF g
  <2>6. Goes(g, n + 1)
    BY <2>5
  <2> QED  BY <2>3, <2>4, <2>6, Zenon
<1> HIDE DEF Upto
<1> DEFINE T == {n \in Nat : n <= N => Upto(n)}
<1>3. 0 \in T
  BY <1>1
<1>4. \A n \in Nat : n \in T => n + 1 \in T
  BY <1>2
<1>5. Nat \subseteq T
  <2> HIDE DEF T
  <2> QED  BY <1>3, <1>4, InductiveSet
<1>6. Upto(N)
  BY <1>5
<1> QED  BY <1>6, Zenon DEF Upto, Run

-----------------------------------------------------------------------------
(* The inductive invariant.                                                *)

(* A range of a game: one of those that Build makes.                       *)
Block(r) ==
    \E i \in 1..NBuild :
        /\ r.min = MinimumRange * i + 1 /\ r.max = MinimumRange * (i + 1)
        /\ ~(OwnMin <= r.min /\ r.max <= OwnMax)
        /\ r.use \in r.min..(r.max - 1)

Given(r) == r = NoRange \/ Block(r)

BlocksOK ==
    /\ \A j \in DOMAIN list : Block(list[j])
    /\ \A g \in Games : /\ Given(peer[g].main) /\ Given(peer[g].spare)
                        /\ Given(game[g].main) /\ Given(game[g].spare)
                        /\ Booted(g) => game[g].cur >= game[g].main.use
    /\ own.min = OwnMin /\ own.max = OwnMax /\ own.use \in OwnMin..(OwnMax + 1)

(* What a game and its CPeer know of each other, with packets under way:   *)
(* p is the CPeer, a the game, q and m are toDb and toGame; lo are the     *)
(* lost ranges, and told says that the game was refused.                   *)
Down(p, a, q, m) == a = NoGame /\ p = NoPeer /\ q = <<>> /\ m = <<>>

(* The connection was lost since the game booted, or before it had.        *)
Cut(p, a, q, m, lo) ==
    /\ a.up /\ p.main = NoRange /\ p.spare = NoRange
    /\ IsSet(a.main) => a.main.min \in lo
    /\ IsSet(a.spare) => a.spare.min \in lo
    /\ \/ q = <<>> /\ m = <<>>
       \/ a.spare = NoRange /\ q = <<"req">> /\ m = <<>>
       \/ a.spare = NoRange /\ q = <<>> /\ m = <<<<NoRange>>>>

BootAsked(p, a, q, m) == a = NewGame /\ p = NewPeer /\ q = <<"boot">> /\ m = <<>>

BootAnswered(p, a, q, m) ==
    a = NewGame /\ p.up /\ q = <<>> /\ m = <<<<p.main, p.spare>>>>

Agreed(p, a, q, m, told) ==
    /\ a.up /\ p.up /\ q = <<>> /\ m = <<>>
    /\ IsSet(a.main) /\ a.main = p.main /\ a.spare = p.spare
    /\ IsSet(p.spare) \/ told

SpareAsked(p, a, q, m) ==
    /\ a.up /\ p.up /\ q = <<"req">> /\ m = <<>>
    /\ IsSet(a.main) /\ a.main = p.spare /\ a.spare = NoRange

SpareAnswered(p, a, q, m, told) ==
    /\ a.up /\ p.up /\ q = <<>> /\ m = <<<<p.spare>>>>
    /\ IsSet(a.main) /\ a.main = p.main /\ a.spare = NoRange
    /\ IsSet(p.spare) \/ told

SyncOf(p, a, q, m, lo, told) ==
    \/ Down(p, a, q, m) \/ Cut(p, a, q, m, lo)
    \/ BootAsked(p, a, q, m) \/ BootAnswered(p, a, q, m)
    \/ Agreed(p, a, q, m, told)
    \/ SpareAsked(p, a, q, m) \/ SpareAnswered(p, a, q, m, told)

Sync == \A g \in Games :
            SyncOf(peer[g], game[g], toDb[g], toGame[g], lost, g \in refused)

(* No range is given out twice.                                            *)
Apart(l, p) ==
    /\ \A j \in DOMAIN l :
          /\ \A k \in DOMAIN l : j # k => l[j].min # l[k].min
          /\ \A g \in Games : l[j].min # p[g].main.min /\ l[j].min # p[g].spare.min
    /\ \A g \in Games :
          /\ IsSet(p[g].main) => p[g].main.min # p[g].spare.min
          /\ \A h \in Games \ {g} :
                /\ IsSet(p[g].main) => p[g].main.min \notin {p[h].main.min, p[h].spare.min}
                /\ IsSet(p[g].spare) => p[g].spare.min \notin {p[h].main.min, p[h].spare.min}

(* No item has an id of S, unless it is excused: items are those alive.    *)
Clear(S, alive, st, lo) ==
    \A i \in S \cap alive : i \in st \/ \E m \in lo : i \in m..(m + MinimumRange - 1)

(* The ranges that are under way to a game, and what it may draw from.     *)
UnderWay(m) == UNION {{m[k][n] : n \in DOMAIN m[k]} : k \in DOMAIN m}

(* The ids a game will issue next, from its range in use or another.       *)
Drawn(a)    == IF a.up /\ IsSet(a.main) THEN a.cur..(a.main.max - 1) ELSE {}
Drawing(a, m) == Drawn(a) \cup UNION {Issuable(r) : r \in {a.spare} \cup UnderWay(m)}

Unused ==
    /\ \A j \in DOMAIN list : Clear(Issuable(list[j]), Alive, stale, lost)
    /\ Clear(own.use..own.max, Alive, stale, lost)
    /\ \A g \in Games : Clear(Drawing(game[g], toGame[g]), Alive, stale, lost)

IInv == TypeOK /\ BlocksOK /\ Sync /\ Apart(list, peer) /\ Unused
-----------------------------------------------------------------------------
(* Ranges.                                                                 *)

(* The ranges of the games, and the one of the db, by number.              *)
LEMMA Numbers ==
    /\ NBuild \in Nat
    /\ \A i \in 1..NBuild : MinimumRange * (i + 1) <= MaxItemID
    /\ \E q \in Nat : OwnMax = MinimumRange * q
    /\ \E q \in Nat : OwnMin = MinimumRange * q \/ OwnMin = MinimumRange * q + 1
<1> USE ItemIDRangeAssumption DEF Ids
<1> DEFINE n == MaxItemID \div MinimumRange
<1>1. MaxItemID = MinimumRange * n /\ n \in Nat
  OBVIOUS
<1> HIDE DEF n
<1>2. n >= 2
  BY <1>1
<1>3. NBuild = n - 2
  BY DEF NBuild, n
<1>4. ASSUME NEW i \in 1..NBuild PROVE MinimumRange * (i + 1) <= MaxItemID
  <2>1. i + 1 <= n
    BY <1>1, <1>3
  <2> QED  BY <1>1, <2>1
<1>5. \E q \in Nat : OwnMax = MinimumRange * q
  OBVIOUS
<1>6. \E q \in Nat : OwnMin = MinimumRange * q \/ OwnMin = MinimumRange * q + 1
  <2> DEFINE q == OwnMin \div MinimumRange
  <2>1. /\ OwnMin = MinimumRange * q + (OwnMin % MinimumRange)
        /\ q \in Nat
    OBVIOUS
  <2>2. OwnMin % MinimumRange = 0 \/ OwnMin % MinimumRange = 1
    OBVIOUS
  <2> HIDE DEF q
  <2>3. OwnMin = MinimumRange * q \/ OwnMin = MinimumRange * q + 1
    BY <2>1, <2>2
  <2> QED  BY <2>1, <2>3
<1>7. NBuild \in Nat
  BY <1>1, <1>2, <1>3
<1> QED  BY <1>4, <1>5, <1>6, <1>7

(* What is issued from a range of a game lies within it, and not in the    *)
(* db's own.                                                               *)
LEMMA BlockIs ==
    ASSUME NEW r \in Ranges, Block(r)
    PROVE  /\ IsSet(r) /\ r.min \in Nat \ {0} /\ r.max \in Nat /\ r.use \in Nat
           /\ Issuable(r) = r.use..(r.max - 1)
           /\ r.max = r.min + MinimumRange - 1 /\ r.min <= r.use /\ r.use < r.max
           /\ r.max <= MaxItemID
           /\ Issuable(r) \cap (OwnMin..OwnMax) = {}
<1> USE ItemIDRangeAssumption DEF Ids
<1>0. r.min \in Nat /\ r.max \in Nat /\ r.use \in Nat
  BY DEF Ranges
<1>1. PICK i \in 1..NBuild :
          /\ r.min = MinimumRange * i + 1 /\ r.max = MinimumRange * (i + 1)
          /\ ~(OwnMin <= r.min /\ r.max <= OwnMax)
          /\ r.use \in r.min..(r.max - 1)
  BY DEF Block
<1>2. i \in Nat /\ MinimumRange * (i + 1) <= MaxItemID
  BY Numbers
<1>3. MinimumRange * i \in Nat /\ MinimumRange * (i + 1) = MinimumRange * i + MinimumRange
  BY <1>2
<1>4. /\ r.min # 0 /\ r.min <= r.use /\ r.use < r.max /\ r.max # 0 /\ r.use # 0
      /\ r.max = r.min + MinimumRange - 1
  BY <1>0, <1>1, <1>3
<1>5. IsSet(r) /\ Issuable(r) = r.use..(r.max - 1)
  BY <1>4 DEF IsSet, Issuable
<1>6. ASSUME NEW x \in Issuable(r), x \in OwnMin..OwnMax PROVE FALSE
  <2>1. x \in Nat /\ r.min <= x /\ x < r.max /\ OwnMin <= x /\ x <= OwnMax
    BY <1>0, <1>4, <1>5, <1>6
  <2>2. PICK q \in Nat : OwnMax = MinimumRange * q
    BY Numbers
  <2>3. PICK p \in Nat : OwnMin = MinimumRange * p \/ OwnMin = MinimumRange * p + 1
    BY Numbers
  <2>4. MinimumRange * i < MinimumRange * q /\ MinimumRange * p < MinimumRange * (i + 1)
    BY <1>0, <1>1, <1>3, <2>1, <2>2, <2>3
  <2>5. i < q /\ p < i + 1
    BY <1>2, <2>4
  <2>6. i + 1 <= q /\ p <= i
    BY <1>2, <2>5
  <2>7. MinimumRange * (i + 1) <= MinimumRange * q /\ MinimumRange * p <= MinimumRange * i
    BY <1>2, <2>6
  <2> QED  BY <1>0, <1>1, <1>3, <2>2, <2>3, <2>7
<1> QED  BY <1>0, <1>1, <1>2, <1>4, <1>5, <1>6

(* Two ranges of games are the same one or have no id in common.           *)
LEMMA BlocksApart ==
    ASSUME NEW r \in Ranges, NEW s \in Ranges, Block(r), Block(s), r.min # s.min
    PROVE  Issuable(r) \cap Issuable(s) = {}
<1> USE ItemIDRangeAssumption
<1>1. PICK i \in 1..NBuild : r.min = MinimumRange * i + 1 /\ r.max = MinimumRange * (i + 1)
  BY DEF Block
<1>2. PICK j \in 1..NBuild : s.min = MinimumRange * j + 1 /\ s.max = MinimumRange * (j + 1)
  BY DEF Block
<1>3. i \in Nat /\ j \in Nat /\ i # j
  BY <1>1, <1>2, Numbers
<1>4. MinimumRange * (i + 1) <= MinimumRange * j \/ MinimumRange * (j + 1) <= MinimumRange * i
  BY <1>3
<1>5. r.max < s.min \/ s.max < r.min
  BY <1>1, <1>2, <1>3, <1>4
<1>6. /\ r.min \in Nat /\ r.max \in Nat /\ r.use \in Nat /\ Issuable(r) = r.use..(r.max - 1)
      /\ r.min <= r.use
  BY BlockIs
<1>7. /\ s.min \in Nat /\ s.max \in Nat /\ s.use \in Nat /\ Issuable(s) = s.use..(s.max - 1)
      /\ s.min <= s.use
  BY BlockIs
<1>8. ASSUME NEW x \in Issuable(r), x \in Issuable(s) PROVE FALSE
  <2>1. x \in r.use..(r.max - 1) /\ x \in s.use..(s.max - 1)
    BY <1>6, <1>7, <1>8
  <2>2. x \in Int /\ r.min <= x /\ x <= r.max /\ s.min <= x /\ x <= s.max
    BY <1>6, <1>7, <2>1
  <2> QED  BY <1>5, <1>6, <1>7, <2>2
<1> QED  BY <1>8

LEMMA NoRangeIs ==
    /\ NoRange \in Ranges /\ ~IsSet(NoRange) /\ Issuable(NoRange) = {}
    /\ NoRange.min = 0 /\ Given(NoRange)
  BY DEF NoRange, Ranges, IsSet, Issuable, Given

(* Unset, a range that was given is none.                                  *)
LEMMA GivenIs ==
    ASSUME NEW r \in Ranges, Given(r)
    PROVE  /\ IsSet(r) <=> Block(r)
           /\ ~IsSet(r) <=> r = NoRange
           /\ r.min = 0 <=> r = NoRange
  BY BlockIs, NoRangeIs DEF Given

(* No row of the table is in what BuildRange says is free.                 *)
LEMMA BuildRangeIs ==
    ASSUME NEW min \in Nat, NEW max \in Nat, NEW rows \in SUBSET Nat
    PROVE  LET r == BuildRange(min, max, rows)
           IN \/ r = NoRange
              \/ /\ r \in Ranges /\ r.min = min /\ r.max = max
                 /\ r.use \in min..(max - 1)
                 /\ (r.use..r.max) \cap rows = {}
<1> USE ItemIDRangeAssumption
<1> DEFINE ids == rows \cap (min..max)
           top == CHOOSE i \in ids : \A j \in ids : j <= i
           use == IF ids = {} THEN min ELSE 1 + top
           r == BuildRange(min, max, rows)
           built == [min |-> min, max |-> max, use |-> use]
<1>1. ids # {} => top \in ids /\ \A j \in ids : j <= top
  <2> SUFFICES ASSUME ids # {} PROVE \E i \in ids : \A j \in ids : j <= i
    OBVIOUS
  <2> DEFINE gaps == {max - i : i \in ids}
  <2>1. gaps \in SUBSET Nat /\ gaps # {}
    OBVIOUS
  <2> HIDE DEF gaps
  <2>2. PICK m \in gaps : \A k \in gaps : m <= k
    BY <2>1, LeastNat
  <2>3. PICK i \in ids : m = max - i
    BY DEF gaps
  <2>4. \A j \in ids : max - j \in gaps
    BY DEF gaps
  <2>5. \A j \in ids : j <= i
    BY <2>2, <2>3, <2>4
  <2> QED  BY <2>5
<1> HIDE DEF top
<1>2. use \in Nat /\ min <= use /\ \A i \in ids : i < use
  BY <1>1
<1>3. r = IF max - use < MinimumRemain THEN NoRange ELSE built
  BY DEF BuildRange, top
<1> HIDE DEF r, use
<1>4. CASE max - use < MinimumRemain
  BY <1>3, <1>4 DEF r
<1>5. CASE ~(max - use < MinimumRemain)
  <2>1. use <= max - 1
    BY <1>2, <1>5
  <2>2. r = built
    BY <1>3, <1>5
  <2>3. r \in Ranges /\ r.min = min /\ r.max = max /\ r.use = use
    BY <1>2, <2>2 DEF Ranges
  <2>4. (use..max) \cap rows = {}
    BY <1>2
  <2> QED  BY <1>2, <2>1, <2>3, <2>4 DEF r
<1> QED  BY <1>4, <1>5

(* The range 0..0 of a CPeer that has none is not built.                   *)
LEMMA NothingReturns ==
    ASSUME NEW rows \in SUBSET Nat PROVE BuildRange(0, 0, rows) = NoRange
<1>1. BuildRange(0, 0, rows) = NoRange \/ BuildRange(0, 0, rows).use \in 0..(0 - 1)
  BY BuildRangeIs
<1> QED  BY <1>1

(* The n-th range, as Build finds it.                                      *)
LEMMA BuildNthIs ==
    ASSUME NEW i \in 1..NBuild, NEW rows \in SUBSET Nat
    PROVE  LET r == BuildNth(i, rows)
           IN /\ r \in Ranges
              /\ IsSet(r) => Block(r) /\ r.min = MinimumRange * i + 1
                             /\ Issuable(r) \cap rows = {}
<1> DEFINE min == MinimumRange * i + 1
           max == MinimumRange * (i + 1)
           r == BuildNth(i, rows)
<1> USE ItemIDRangeAssumption
<1>1. i \in Nat /\ min \in Nat /\ max \in Nat
  BY Numbers
<1> HIDE DEF min, max
<1>2. CASE OwnMin <= min /\ max <= OwnMax
  BY <1>2, NoRangeIs DEF BuildNth, min, max
<1>3. CASE ~(OwnMin <= min /\ max <= OwnMax)
  <2>1. r = BuildRange(min, max, rows)
    BY <1>3 DEF BuildNth, min, max
  <2> HIDE DEF r
  <2>2. \/ r = NoRange
        \/ /\ r \in Ranges /\ r.min = min /\ r.max = max
           /\ r.use \in min..(max - 1)
           /\ (r.use..r.max) \cap rows = {}
    BY <1>1, <2>1, BuildRangeIs
  <2>3. CASE r = NoRange
    BY <2>3, NoRangeIs DEF r
  <2>4. CASE r # NoRange
    <3>1. Block(r)
      BY <1>3, <2>2, <2>4 DEF Block, min, max
    <3>2. Issuable(r) = r.use..(r.max - 1) /\ r.use \in Nat /\ r.max \in Nat
      BY <2>2, <2>4, <3>1, BlockIs
    <3>3. Issuable(r) \cap rows = {}
      BY <2>2, <2>4, <3>2
    <3> QED  BY <2>2, <2>4, <3>1, <3>3 DEF r, min
  <2> QED  BY <2>3, <2>4
<1> QED  BY <1>2, <1>3

(* What the db has to give.                                                *)
Stock(l) == l \in Seq(Ranges) /\ \A j \in DOMAIN l : Block(l[j])

LEMMA Empty == <<>> \in Seq(Ranges) /\ Len(<<>>) = 0 /\ DOMAIN <<>> = {}
  BY EmptySeq

(* One more range.                                                         *)
LEMMA StockAppend ==
    ASSUME NEW l, Stock(l), NEW r \in Ranges, Block(r)
    PROVE  /\ Stock(Append(l, r))
           /\ Len(l) \in Nat /\ DOMAIN l = 1..Len(l)
           /\ DOMAIN Append(l, r) = 1..(Len(l) + 1)
           /\ \A j \in 1..Len(l) : Append(l, r)[j] = l[j]
           /\ Append(l, r)[Len(l) + 1] = r
<1> DEFINE s == Append(l, r)
<1>1. l \in Seq(Ranges) /\ Len(l) \in Nat /\ DOMAIN l = 1..Len(l)
  BY LenProperties DEF Stock
<1>2. /\ s \in Seq(Ranges) /\ Len(s) = Len(l) + 1
      /\ \A j \in 1..Len(l) : s[j] = l[j]
      /\ s[Len(l) + 1] = r
  BY <1>1, AppendProperties
<1>3. DOMAIN s = 1..(Len(l) + 1)
  BY <1>2, LenProperties
<1> HIDE DEF s
<1>4. ASSUME NEW j \in DOMAIN s PROVE Block(s[j])
  <2>1. CASE j \in 1..Len(l)
    BY <1>1, <1>2, <2>1 DEF Stock
  <2>2. CASE j = Len(l) + 1
    BY <1>2, <2>2
  <2> QED  BY <1>1, <1>3, <1>4, <2>1, <2>2
<1>5. Stock(s)
  BY <1>2, <1>4 DEF Stock
<1> QED  BY <1>1, <1>2, <1>3, <1>5 DEF s

(* What the loop of Build has after n rounds.                              *)
Built(l, n, rows) ==
    /\ Stock(l)
    /\ \A j \in DOMAIN l :
          /\ Issuable(l[j]) \cap rows = {}
          /\ \E i \in 1..n : l[j].min = MinimumRange * i + 1
          /\ \A k \in DOMAIN l : j # k => l[j].min # l[k].min

LEMMA BuildRound ==
    ASSUME NEW n \in 1..NBuild, NEW rows \in SUBSET Nat, NEW l, Built(l, n - 1, rows)
    PROVE  Built(IF IsSet(BuildNth(n, rows)) THEN Append(l, BuildNth(n, rows)) ELSE l, n, rows)
<1> DEFINE r == BuildNth(n, rows)
           s == Append(l, r)
<1> USE ItemIDRangeAssumption
<1>0. n \in Nat /\ n >= 1
  BY Numbers
<1>1. /\ r \in Ranges
      /\ IsSet(r) => Block(r) /\ r.min = MinimumRange * n + 1 /\ Issuable(r) \cap rows = {}
  BY BuildNthIs
<1> HIDE DEF r
<1>2. CASE ~IsSet(r)
  <2>1. Built(l, n, rows)
    BY <1>0 DEF Built
  <2> QED  BY <1>2, <2>1 DEF r
<1>3. CASE IsSet(r)
  <2>1. /\ Stock(s) /\ Len(l) \in Nat /\ DOMAIN l = 1..Len(l)
        /\ DOMAIN s = 1..(Len(l) + 1)
        /\ \A j \in 1..Len(l) : s[j] = l[j]
        /\ s[Len(l) + 1] = r
    BY <1>1, <1>3, StockAppend DEF Built
  <2> HIDE DEF s
  <2>2. \A j \in DOMAIN l : l[j] \in Ranges /\ l[j].min \in Nat
    <3>1. l \in Seq(Ranges)
      BY DEF Built, Stock
    <3>2. \A j \in DOMAIN l : l[j] \in Ranges
      BY <2>1, <3>1, ElementOfSeq
    <3> QED  BY <3>2 DEF Ranges
  <2>3. ASSUME NEW j \in DOMAIN l PROVE l[j].min < MinimumRange * n + 1
    <3>1. PICK i \in 1..(n - 1) : l[j].min = MinimumRange * i + 1
      BY <2>3 DEF Built
    <3>2. i \in Nat /\ i < n
      BY <1>0
    <3>3. MinimumRange * i < MinimumRange * n /\ MinimumRange * i \in Nat /\ MinimumRange * n \in Nat
      BY <1>0, <3>2
    <3> QED  BY <3>1, <3>3
  <2>4. ASSUME NEW j \in DOMAIN s
        PROVE  /\ Issuable(s[j]) \cap rows = {}
               /\ \E i \in 1..n : s[j].min = MinimumRange * i + 1
               /\ \A k \in DOMAIN s : j # k => s[j].min # s[k].min
    <3>1. CASE j \in 1..Len(l)
      <4>1. s[j] = l[j] /\ j \in DOMAIN l
        BY <2>1, <3>1
      <4>2. \E i \in 1..n : l[j].min = MinimumRange * i + 1
        <5>1. PICK i \in 1..(n - 1) : l[j].min = MinimumRange * i + 1
          BY <4>1 DEF Built
        <5>2. i \in 1..n
          BY <1>0
        <5> QED  BY <5>1, <5>2
      <4>3. ASSUME NEW k \in DOMAIN s, j # k PROVE s[j].min # s[k].min
        <5>1. CASE k \in 1..Len(l)
          BY <2>1, <4>1, <4>3, <5>1 DEF Built
        <5>2. CASE k = Len(l) + 1
          <6>1. l[j].min < MinimumRange * n + 1 /\ s[k].min = MinimumRange * n + 1
            BY <1>1, <1>3, <2>1, <2>3, <4>1, <5>2
          <6>2. l[j].min \in Nat
            BY <2>2, <4>1
          <6> QED  BY <4>1, <6>1, <6>2, <1>0
        <5> QED  BY <2>1, <4>3, <5>1, <5>2
      <4> QED  BY <4>1, <4>2, <4>3 DEF Built
    <3>2. CASE j = Len(l) + 1
      <4>1. s[j] = r /\ s[j].min = MinimumRange * n + 1 /\ n \in 1..n
        BY <1>0, <1>1, <1>3, <2>1, <3>2
      <4>2. ASSUME NEW k \in DOMAIN s, j # k PROVE s[j].min # s[k].min
        <5>1. k \in DOMAIN l /\ s[k] = l[k]
          BY <2>1, <3>2, <4>2
        <5>2. l[k].min < MinimumRange * n + 1 /\ l[k].min \in Nat
          BY <2>3, <2>2, <5>1
        <5> QED  BY <1>0, <4>1, <5>1, <5>2
      <4> QED  BY <1>1, <1>3, <4>1, <4>2
    <3>3. j \in 1..Len(l) \/ j = Len(l) + 1
      BY <2>1, <2>4
    <3> QED  BY <3>1, <3>2, <3>3
  <2>5. Built(s, n, rows)
    BY <2>1, <2>4 DEF Built
  <2> QED  BY <1>3, <2>5 DEF r, s
<1> QED  BY <1>2, <1>3

(* The whole loop.                                                         *)
LEMMA BuildIs ==
    ASSUME NEW rows \in SUBSET Nat
    PROVE  Built(Build(rows), NBuild, rows)
<1> DEFINE R == Seq(Ranges)
           Round(i, l) == IF IsSet(BuildNth(i, rows)) THEN Append(l, BuildNth(i, rows)) ELSE l
           step == [x \in (1..NBuild) \X R |-> Round(x[1], x[2])]
           Loop(f) == [i \in 0..NBuild |-> IF i = 0 THEN <<>> ELSE Round(i, f[i - 1])]
           upto == CHOOSE f : f = Loop(f)
<1>0. NBuild \in Nat /\ <<>> \in R
  BY Numbers, Empty
<1>1. \A i \in 1..NBuild, l \in R : Round(i, l) \in R
  <2> TAKE i \in 1..NBuild, l \in R
  <2>1. BuildNth(i, rows) \in Ranges
    BY BuildNthIs
  <2> QED  BY <2>1, AppendProperties
<1> HIDE DEF R
<1>2. upto = Loop(upto)
  <2>1. step \in [(1..NBuild) \X R -> R]
    BY <1>1
  <2>2. PICK f : Run(f, R, <<>>, NBuild, step)
    <3> HIDE DEF step
    <3> QED  BY <1>0, <2>1, Iterates
  <2>3. \A k \in 1..NBuild : f[k] = Round(k, f[k - 1])
    <3> TAKE k \in 1..NBuild
    <3>1. <<k, f[k - 1]>> \in (1..NBuild) \X R
      BY <1>0, <2>2 DEF Run
    <3>2. step[<<k, f[k - 1]>>] = Round(k, f[k - 1])
      BY <3>1
    <3> HIDE DEF Round, step
    <3> QED  BY <2>2, <3>2 DEF Run
  <2> HIDE DEF Round
  <2>4. f = Loop(f)
    BY <1>0, <2>2, <2>3 DEF Run
  <2> QED  BY <2>4
<1> HIDE DEF upto
<1>3. Built(<<>>, 0, rows)
  BY Empty DEF Built, Stock
<1>4. Built(upto[NBuild], NBuild, rows)
  <2> DEFINE T == {n \in Nat : n <= NBuild => Built(upto[n], n, rows)}
  <2>1. 0 \in T
    BY <1>0, <1>2, <1>3
  <2>2. ASSUME NEW n \in Nat, n \in T PROVE n + 1 \in T
    <3> SUFFICES ASSUME n + 1 <= NBuild PROVE Built(upto[n + 1], n + 1, rows)
      OBVIOUS
    <3>1. upto[n + 1] = Round(n + 1, upto[n])
      <4> HIDE DEF Round
      <4> QED  BY <1>0, <1>2
    <3>2. Built(upto[n], (n + 1) - 1, rows)
      BY <2>2, <1>0
    <3>3. n + 1 \in 1..NBuild
      BY <1>0
    <3>4. Built(Round(n + 1, upto[n]), n + 1, rows)
      BY <3>2, <3>3, BuildRound
    <3> QED  BY <3>1, <3>4
  <2> HIDE DEF T
  <2>3. Nat \subseteq T
    BY <2>1, <2>2, InductiveSet
  <2> QED  BY <1>0, <2>3 DEF T
<1>5. Build(rows) = upto[NBuild]
  BY DEF Build, upto
<1> QED  BY <1>4, <1>5
-----------------------------------------------------------------------------
(* What is given, and what comes back.                                     *)

(* GetRange takes the first range of the list.                             *)
LEMMA TakeIs ==
    ASSUME NEW l, Stock(l)
    PROVE  /\ Stock(Rest(l)) /\ GetRange(l) \in Ranges /\ Given(GetRange(l))
           /\ \A j \in DOMAIN Rest(l) : j + 1 \in DOMAIN l /\ Rest(l)[j] = l[j + 1] /\ j \in Nat
           /\ l = <<>> <=> GetRange(l) = NoRange
           /\ l # <<>> => 1 \in DOMAIN l /\ GetRange(l) = l[1]
<1>1. l \in Seq(Ranges) /\ Len(l) \in Nat /\ DOMAIN l = 1..Len(l)
  BY LenProperties DEF Stock
<1>2. CASE l = <<>>
  BY <1>2, NoRangeIs DEF GetRange, Rest
<1>3. CASE l # <<>>
  <2>1. Len(l) >= 1 /\ Head(l) = l[1] /\ GetRange(l) = Head(l) /\ Rest(l) = Tail(l)
    BY <1>1, <1>3, EmptySeq DEF GetRange, Rest
  <2>2. 1 \in DOMAIN l
    BY <1>1, <2>1
  <2>3. l[1] \in Ranges
    BY <1>1, <2>2, ElementOfSeq
  <2>4. Block(l[1]) /\ l[1] # NoRange
    BY <2>2, <2>3, BlockIs, NoRangeIs DEF Stock
  <2>5. Tail(l) \in Seq(Ranges) /\ Len(Tail(l)) = Len(l) - 1
        /\ \A j \in 1..Len(Tail(l)) : Tail(l)[j] = l[j + 1]
    BY <1>1, <1>3, HeadTailProperties
  <2>6. DOMAIN Tail(l) = 1..(Len(l) - 1)
    BY <2>5, LenProperties
  <2>7. \A j \in DOMAIN Tail(l) : j + 1 \in DOMAIN l /\ Tail(l)[j] = l[j + 1] /\ j \in Nat
    BY <1>1, <2>5, <2>6
  <2>8. Stock(Tail(l))
    BY <2>5, <2>7 DEF Stock
  <2> QED  BY <1>3, <2>1, <2>2, <2>3, <2>4, <2>7, <2>8 DEF Given
<1> QED  BY <1>2, <1>3

LEMMA StockIs ==
    ASSUME NEW l, Stock(l), NEW j \in DOMAIN l
    PROVE  l[j] \in Ranges /\ Block(l[j]) /\ l[j].min # 0 /\ l[j].min \in Nat /\ IsSet(l[j])
<1>1. l \in Seq(Ranges) /\ Len(l) \in Nat /\ DOMAIN l = 1..Len(l)
  BY LenProperties DEF Stock
<1>2. l[j] \in Ranges /\ Block(l[j])
  BY <1>1, ElementOfSeq DEF Stock
<1> QED  BY <1>2, BlockIs

Peers == [Games -> [up : BOOLEAN, main : Ranges, spare : Ranges]]
PeersOK(p) == p \in Peers /\ \A g \in Games : Given(p[g].main) /\ Given(p[g].spare)

(* The spare of g comes into use, and the first of the list is its spare.  *)
Advanced(l, p, q, g) ==
    /\ q[g].main = p[g].spare /\ q[g].spare = GetRange(l)
    /\ \A h \in Games \ {g} : q[h].main = p[h].main /\ q[h].spare = p[h].spare

LEMMA TakeApart ==
    ASSUME NEW l, Stock(l), NEW p, PeersOK(p), NEW q, NEW g \in Games,
           Apart(l, p), Advanced(l, p, q, g)
    PROVE  Apart(Rest(l), q)
<1> DEFINE r == GetRange(l)
           t == Rest(l)
<1>0. /\ \A j \in DOMAIN t : j + 1 \in DOMAIN l /\ t[j] = l[j + 1] /\ j \in Nat
      /\ l = <<>> <=> r = NoRange
      /\ l # <<>> => 1 \in DOMAIN l /\ r = l[1]
      /\ r \in Ranges /\ Given(r)
  BY TakeIs
<1>1. \A j \in DOMAIN l : l[j].min # 0
  BY StockIs
<1>2. r = NoRange => r.min = 0 /\ ~IsSet(r)
  BY NoRangeIs
<1> HIDE DEF r, t
<1>3. \A h \in Games : /\ r.min # 0 => p[h].main.min # r.min /\ p[h].spare.min # r.min
                       /\ IsSet(r) => r.min # 0
  BY <1>0, <1>1, <1>2, GivenIs DEF Apart
<1>4. ASSUME NEW j \in DOMAIN t
      PROVE  /\ \A k \in DOMAIN t : j # k => t[j].min # t[k].min
             /\ \A h \in Games : t[j].min # q[h].main.min /\ t[j].min # q[h].spare.min
  <2>1. j + 1 \in DOMAIN l /\ t[j] = l[j + 1] /\ j \in Nat
    BY <1>0
  <2>2. ASSUME NEW k \in DOMAIN t, j # k PROVE t[j].min # t[k].min
    <3>1. k + 1 \in DOMAIN l /\ t[k] = l[k + 1] /\ k \in Nat /\ k + 1 # j + 1
      BY <1>0, <2>1, <2>2
    <3> QED  BY <2>1, <3>1 DEF Apart
  <2>3. t[j].min # r.min
    <3>1. CASE l = <<>>
      BY <1>0, <1>1, <1>2, <2>1, <3>1
    <3>2. CASE l # <<>>
      <4>1. 1 \in DOMAIN l /\ r = l[1] /\ j + 1 # 1
        BY <1>0, <2>1, <3>2
      <4> QED  BY <2>1, <4>1 DEF Apart
    <3> QED  BY <3>1, <3>2
  <2>4. ASSUME NEW h \in Games PROVE t[j].min # q[h].main.min /\ t[j].min # q[h].spare.min
    <3>1. t[j].min # p[h].main.min /\ t[j].min # p[h].spare.min
      BY <2>1 DEF Apart
    <3> QED  BY <2>3, <3>1 DEF Advanced, r
  <2> QED  BY <2>2, <2>4
<1>5. ASSUME NEW h \in Games
      PROVE  /\ IsSet(q[h].main) => q[h].main.min # q[h].spare.min
             /\ \A k \in Games \ {h} :
                /\ IsSet(q[h].main) => q[h].main.min \notin {q[k].main.min, q[k].spare.min}
                /\ IsSet(q[h].spare) => q[h].spare.min \notin {q[k].main.min, q[k].spare.min}
  <2>1. \A k \in Games : q[k].main = IF k = g THEN p[k].spare ELSE p[k].main
    BY DEF Advanced
  <2>2. \A k \in Games : q[k].spare = IF k = g THEN r ELSE p[k].spare
    BY DEF Advanced, r
  <2>3. \A k \in Games : /\ IsSet(p[k].main) => p[k].main.min # 0
                         /\ IsSet(p[k].spare) => p[k].spare.min # 0
    BY GivenIs, NoRangeIs DEF PeersOK, Peers
  <2>4. r.min = 0 \/ \A k \in Games : p[k].main.min # r.min /\ p[k].spare.min # r.min
    BY <1>3
  <2>5. IsSet(r) => r.min # 0
    BY <1>3
  <2>6. /\ IsSet(p[h].main) => p[h].main.min # p[h].spare.min
        /\ \A k \in Games \ {h} :
              /\ IsSet(p[h].main) => p[h].main.min \notin {p[k].main.min, p[k].spare.min}
              /\ IsSet(p[h].spare) => p[h].spare.min \notin {p[k].main.min, p[k].spare.min}
    BY DEF Apart
  <2>7. CASE h = g
    BY <2>1, <2>2, <2>3, <2>4, <2>5, <2>6, <2>7
  <2>8. CASE h # g
    BY <2>1, <2>2, <2>3, <2>4, <2>5, <2>6, <2>8
  <2> QED  BY <2>7, <2>8
<1> QED  BY <1>4, <1>5 DEF Apart, t

LEMMA SameApart ==
    ASSUME NEW l, NEW p, NEW q, Apart(l, p),
           \A h \in Games : q[h].main = p[h].main /\ q[h].spare = p[h].spare
    PROVE  Apart(l, q)
<1>1. ASSUME NEW j \in DOMAIN l
      PROVE  /\ \A k \in DOMAIN l : j # k => l[j].min # l[k].min
             /\ \A g \in Games : l[j].min # q[g].main.min /\ l[j].min # q[g].spare.min
  BY DEF Apart
<1>2. ASSUME NEW g \in Games
      PROVE  /\ IsSet(q[g].main) => q[g].main.min # q[g].spare.min
             /\ \A h \in Games \ {g} :
                /\ IsSet(q[g].main) => q[g].main.min \notin {q[h].main.min, q[h].spare.min}
                /\ IsSet(q[g].spare) => q[g].spare.min \notin {q[h].main.min, q[h].spare.min}
  <2>1. \A h \in Games : q[h].main = p[h].main /\ q[h].spare = p[h].spare
    OBVIOUS
  <2>2. /\ IsSet(p[g].main) => p[g].main.min # p[g].spare.min
        /\ \A h \in Games \ {g} :
              /\ IsSet(p[g].main) => p[g].main.min \notin {p[h].main.min, p[h].spare.min}
              /\ IsSet(p[g].spare) => p[g].spare.min \notin {p[h].main.min, p[h].spare.min}
    BY DEF Apart
  <2> QED  BY <2>1, <2>2
<1> QED  BY <1>1, <1>2 DEF Apart

(* A game that has gone leaves a range r to the list, or none.             *)
LEMMA ReturnApart ==
    ASSUME NEW l, Stock(l), NEW p, PeersOK(p), NEW g \in Games, Apart(l, p),
           NEW r \in Ranges, Block(r), r.min = p[g].main.min
    PROVE  Apart(Append(l, r), [p EXCEPT ![g] = NoPeer])
<1> DEFINE s == Append(l, r)
           q == [p EXCEPT ![g] = NoPeer]
<1>0. /\ Len(l) \in Nat /\ DOMAIN l = 1..Len(l)
      /\ DOMAIN s = 1..(Len(l) + 1)
      /\ \A j \in 1..Len(l) : s[j] = l[j]
      /\ s[Len(l) + 1] = r
  BY StockAppend
<1>1. \A j \in DOMAIN l : l[j].min # 0
  BY StockIs
<1>2. r.min # 0 /\ IsSet(p[g].main)
  <2>1. r.min # 0
    BY BlockIs
  <2> QED  BY <2>1, GivenIs, NoRangeIs DEF PeersOK, Peers
<1>3. \A h \in Games : /\ q[h].main = IF h = g THEN NoRange ELSE p[h].main
                       /\ q[h].spare = IF h = g THEN NoRange ELSE p[h].spare
  BY DEF NoPeer, PeersOK, Peers
<1>4. NoRange.min = 0 /\ ~IsSet(NoRange)
  BY NoRangeIs
<1> HIDE DEF s, q
<1>5. \A j \in DOMAIN l : l[j].min # r.min
  BY DEF Apart
<1>6. \A h \in Games \ {g} : r.min # p[h].main.min /\ r.min # p[h].spare.min
  BY <1>2 DEF Apart
<1>7. ASSUME NEW j \in DOMAIN s
      PROVE  /\ \A k \in DOMAIN s : j # k => s[j].min # s[k].min
             /\ \A h \in Games : s[j].min # q[h].main.min /\ s[j].min # q[h].spare.min
  <2>1. CASE j \in 1..Len(l)
    <3>1. ASSUME NEW k \in DOMAIN s, j # k PROVE s[j].min # s[k].min
      <4>1. CASE k \in 1..Len(l)
        BY <1>0, <2>1, <3>1, <4>1 DEF Apart
      <4>2. CASE k = Len(l) + 1
        BY <1>0, <1>5, <2>1, <4>2
      <4> QED  BY <1>0, <3>1, <4>1, <4>2
    <3>2. \A h \in Games : s[j].min # q[h].main.min /\ s[j].min # q[h].spare.min
      BY <1>0, <1>1, <1>3, <1>4, <2>1 DEF Apart
    <3> QED  BY <3>1, <3>2
  <2>2. CASE j = Len(l) + 1
    <3>1. ASSUME NEW k \in DOMAIN s, j # k PROVE s[j].min # s[k].min
      <4>1. k \in 1..Len(l)
        BY <1>0, <2>2, <3>1
      <4> QED  BY <1>0, <1>5, <2>2, <4>1
    <3>2. \A h \in Games : s[j].min # q[h].main.min /\ s[j].min # q[h].spare.min
      BY <1>0, <1>2, <1>3, <1>4, <1>6, <2>2
    <3> QED  BY <3>1, <3>2
  <2> QED  BY <1>0, <1>7, <2>1, <2>2
<1>8. Apart(<<>>, q)
  BY <1>1, <1>3, <1>4, GivenIs DEF Apart, PeersOK, Peers
<1> QED  BY <1>7, <1>8 DEF Apart, s, q

(* A game that has gone and leaves none.                                   *)
LEMMA NoReturnApart ==
    ASSUME NEW l, Stock(l), NEW p, PeersOK(p), NEW g \in Games, Apart(l, p)
    PROVE  Apart(l, [p EXCEPT ![g] = NoPeer])
<1> DEFINE q == [p EXCEPT ![g] = NoPeer]
<1>1. \A j \in DOMAIN l : l[j].min # 0
  BY StockIs
<1>2. \A h \in Games : /\ q[h].main = IF h = g THEN NoRange ELSE p[h].main
                       /\ q[h].spare = IF h = g THEN NoRange ELSE p[h].spare
  BY DEF NoPeer, PeersOK, Peers
<1>3. NoRange.min = 0 /\ ~IsSet(NoRange)
  BY NoRangeIs
<1>4. \A h \in Games : /\ IsSet(p[h].main) => p[h].main.min # 0
                       /\ IsSet(p[h].spare) => p[h].spare.min # 0
  BY GivenIs, NoRangeIs DEF PeersOK, Peers
<1> HIDE DEF q
<1> QED  BY <1>1, <1>2, <1>3, <1>4 DEF Apart, q
-----------------------------------------------------------------------------
(* What the parts of the invariant need of a step.                         *)

LEMMA ClearLess ==
    ASSUME NEW S, NEW A, NEW st, NEW lo, Clear(S, A, st, lo),
           NEW T, NEW B, NEW st2, NEW lo2,
           T \subseteq S, B \subseteq A, st \subseteq st2, lo \subseteq lo2
    PROVE  Clear(T, B, st2, lo2)
  BY DEF Clear

(* An id that is issued leaves clear what it does not lie in.              *)
Forgiven(i, st, lo) == i \in st \/ \E m \in lo : i \in m..(m + MinimumRange - 1)

LEMMA ClearIssue ==
    ASSUME NEW S, NEW A, NEW st, NEW lo, Clear(S, A, st, lo),
           NEW T, NEW B, NEW i,
           T \subseteq S, B \subseteq A \cup {i}, i \in T => Forgiven(i, st, lo)
    PROVE  Clear(T, B, st, lo)
  BY DEF Clear, Forgiven

LEMMA ClearNone ==
    ASSUME NEW A, NEW st, NEW lo PROVE Clear({}, A, st, lo)
  BY DEF Clear

LEMMA UnderWayIs ==
    /\ UnderWay(<<>>) = {}
    /\ \A r : UnderWay(<<<<r>>>>) = {r}
    /\ \A r, s : UnderWay(<<<<r, s>>>>) = {r, s}
<1>1. UnderWay(<<>>) = {}
  BY DEF UnderWay
<1>2. ASSUME NEW r PROVE UnderWay(<<<<r>>>>) = {r}
  BY DEF UnderWay
<1>3. ASSUME NEW r, NEW s PROVE UnderWay(<<<<r, s>>>>) = {r, s}
  <2> DEFINE m == <<<<r, s>>>>
  <2>1. DOMAIN m = {1} /\ m[1] = <<r, s>> /\ DOMAIN <<r, s>> = {1, 2}
    OBVIOUS
  <2>2. {m[1][n] : n \in DOMAIN m[1]} = {r, s}
    BY <2>1
  <2> HIDE DEF m
  <2>3. UnderWay(m) = {r, s}
    BY <2>1, <2>2 DEF UnderWay
  <2> QED  BY <2>3 DEF m
<1> QED  BY <1>1, <1>2, <1>3

(* A game's share is clear if each of its parts is.                        *)
LEMMA DrawingClear ==
    ASSUME NEW a, NEW m, NEW A, NEW st, NEW lo,
           Clear(Drawn(a), A, st, lo), Clear(Issuable(a.spare), A, st, lo),
           \A r \in UnderWay(m) : Clear(Issuable(r), A, st, lo)
    PROVE  Clear(Drawing(a, m), A, st, lo)
  BY DEF Drawing, Clear

LEMMA DrawingParts ==
    ASSUME NEW a, NEW m
    PROVE  /\ Drawn(a) \subseteq Drawing(a, m) /\ Issuable(a.spare) \subseteq Drawing(a, m)
           /\ \A r \in UnderWay(m) : Issuable(r) \subseteq Drawing(a, m)
  BY DEF Drawing

Processes == [up : BOOLEAN, main : Ranges, cur : Nat, spare : Ranges]

LEMMA NewIs ==
    /\ \A p \in {NoPeer, NewPeer} : /\ p \in [up : BOOLEAN, main : Ranges, spare : Ranges]
                                    /\ p.main = NoRange /\ p.spare = NoRange
    /\ \A a \in {NoGame, NewGame} : /\ a \in Processes
                                    /\ a.main = NoRange /\ a.spare = NoRange
    /\ ~NoPeer.up /\ NewPeer.up /\ ~NoGame.up /\ NewGame.up
<1>1. NoRange \in Ranges
  BY NoRangeIs
<1> HIDE DEF NoRange
<1>2. /\ NoPeer \in [up : BOOLEAN, main : Ranges, spare : Ranges]
      /\ NoPeer.main = NoRange /\ NoPeer.spare = NoRange /\ ~NoPeer.up
  BY <1>1 DEF NoPeer
<1>3. /\ NoGame \in Processes
      /\ NoGame.main = NoRange /\ NoGame.spare = NoRange /\ ~NoGame.up
  BY <1>1 DEF NoGame, Processes
<1>4. /\ NewPeer \in [up : BOOLEAN, main : Ranges, spare : Ranges]
      /\ NewPeer.main = NoRange /\ NewPeer.spare = NoRange /\ NewPeer.up
  BY <1>2 DEF NewPeer
<1>5. /\ NewGame \in Processes
      /\ NewGame.main = NoRange /\ NewGame.spare = NoRange /\ NewGame.up
  BY <1>3 DEF NewGame, Processes
<1> QED  BY <1>2, <1>3, <1>4, <1>5

LEMMA Parts ==
    ASSUME IInv
    PROVE  /\ Stock(list) /\ PeersOK(peer) /\ game \in [Games -> Processes]
           /\ own \in Ranges
           /\ toDb \in [Games -> Seq({"boot", "req"})]
           /\ toGame \in [Games -> Seq(Seq(Ranges))]
           /\ mem \in [Games -> SUBSET Ids] /\ cache \subseteq Ids /\ sql \subseteq Ids
           /\ stale \subseteq Ids /\ lost \subseteq Nat /\ refused \subseteq Games
           /\ Alive \subseteq Ids /\ sql \in SUBSET Nat /\ sql \subseteq Alive
<1>1. TypeOK /\ BlocksOK
  BY DEF IInv
<1>2. Stock(list) /\ PeersOK(peer)
  BY <1>1 DEF TypeOK, BlocksOK, Stock, PeersOK, Peers
<1>3. Ids \subseteq Nat
  BY ItemIDRangeAssumption DEF Ids
<1>4. Alive \subseteq Ids /\ sql \subseteq Alive
  <2>1. \A g \in Games : mem[g] \subseteq Ids
    BY <1>1 DEF TypeOK
  <2>2. cache \subseteq Ids /\ sql \subseteq Ids
    BY <1>1 DEF TypeOK
  <2> DEFINE M == UNION {mem[g] : g \in Games}
  <2>3. ASSUME NEW x \in M PROVE x \in Ids
    <3>1. PICK g \in Games : x \in mem[g]
      OBVIOUS
    <3> QED  BY <2>1, <3>1
  <2>4. Alive = (M \cup cache) \cup sql
    BY Zenon DEF Alive
  <2> HIDE DEF M
  <2> QED  BY <2>2, <2>3, <2>4
<1> QED  BY <1>1, <1>2, <1>3, <1>4 DEF TypeOK, Processes

(* A step of one game and the db.                                          *)
Elsewhere(g) ==
    \A h \in Games \ {g} :
        /\ peer'[h] = peer[h] /\ game'[h] = game[h]
        /\ toDb'[h] = toDb[h] /\ toGame'[h] = toGame[h]
        /\ h \in refused => h \in refused'

LEMMA SyncStep ==
    ASSUME Sync, NEW g \in Games, Elsewhere(g), lost \subseteq lost',
           SyncOf(peer'[g], game'[g], toDb'[g], toGame'[g], lost', g \in refused')
    PROVE  Sync'
<1>1. ASSUME NEW h \in Games \ {g}
      PROVE  SyncOf(peer'[h], game'[h], toDb'[h], toGame'[h], lost', h \in refused')
  <2>1. SyncOf(peer[h], game[h], toDb[h], toGame[h], lost, h \in refused)
    BY DEF Sync
  <2>2. /\ peer'[h] = peer[h] /\ game'[h] = game[h]
        /\ toDb'[h] = toDb[h] /\ toGame'[h] = toGame[h]
        /\ h \in refused => h \in refused'
    BY DEF Elsewhere
  <2>3. SyncOf(peer[h], game[h], toDb[h], toGame[h], lost', h \in refused')
    BY <2>1, <2>2 DEF SyncOf, Cut, Agreed, SpareAnswered
  <2> QED  BY <2>2, <2>3
<1> QED  BY <1>1 DEF Sync

LEMMA BlocksStep ==
    ASSUME BlocksOK, NEW g \in Games, Elsewhere(g), Stock(list'),
           own'.min = OwnMin /\ own'.max = OwnMax /\ own'.use \in OwnMin..(OwnMax + 1),
           Given(peer'[g].main), Given(peer'[g].spare),
           Given(game'[g].main), Given(game'[g].spare),
           game'[g].up /\ IsSet(game'[g].main) => game'[g].cur >= game'[g].main.use
    PROVE  BlocksOK'
<1>1. \A h \in Games : /\ Given(peer'[h].main) /\ Given(peer'[h].spare)
                       /\ Given(game'[h].main) /\ Given(game'[h].spare)
                       /\ game'[h].up /\ IsSet(game'[h].main) => game'[h].cur >= game'[h].main.use
  BY DEF BlocksOK, Elsewhere, Booted
<1> QED  BY <1>1 DEF BlocksOK, Stock, Booted

(* A step that issues nothing.                                             *)
LEMMA UnusedStep ==
    ASSUME Unused, NEW g \in Games, Elsewhere(g),
           Alive' \subseteq Alive, stale \subseteq stale', lost \subseteq lost', own' = own,
           \A j \in DOMAIN list' : \/ \E k \in DOMAIN list : list'[j] = list[k]
                                   \/ Clear(Issuable(list'[j]), Alive', stale', lost'),
           Clear(Drawing(game'[g], toGame'[g]), Alive', stale', lost')
    PROVE  Unused'
<1>1. ASSUME NEW j \in DOMAIN list' PROVE Clear(Issuable(list'[j]), Alive', stale', lost')
  <2>1. CASE \E k \in DOMAIN list : list'[j] = list[k]
    <3>1. PICK k \in DOMAIN list : list'[j] = list[k]
      BY <2>1
    <3>2. Clear(Issuable(list[k]), Alive, stale, lost)
      BY DEF Unused
    <3> QED  BY <3>1, <3>2, ClearLess
  <2> QED  BY <2>1
<1>2. Clear(own'.use..own'.max, Alive', stale', lost')
  <2>1. Clear(own.use..own.max, Alive, stale, lost)
    BY DEF Unused
  <2> QED  BY <2>1, ClearLess
<1>3. ASSUME NEW h \in Games PROVE Clear(Drawing(game'[h], toGame'[h]), Alive', stale', lost')
  <2>1. CASE h # g
    <3>1. Clear(Drawing(game[h], toGame[h]), Alive, stale, lost)
      BY DEF Unused
    <3>2. game'[h] = game[h] /\ toGame'[h] = toGame[h]
      BY <2>1 DEF Elsewhere
    <3>3. Clear(Drawing(game[h], toGame[h]), Alive', stale', lost')
      BY <3>1, ClearLess
    <3> QED  BY <3>2, <3>3
  <2> QED  BY <2>1
<1> QED  BY <1>1, <1>2, <1>3 DEF Unused
-----------------------------------------------------------------------------
(* The steps.                                                              *)

(* Which state a game and its CPeer are in when a packet is read.          *)
LEMMA WhenBoot ==
    ASSUME IInv, NEW g \in Games, toDb[g] # <<>>, Head(toDb[g]) = "boot"
    PROVE  BootAsked(peer[g], game[g], toDb[g], toGame[g])
  BY DEF IInv, Sync, SyncOf, Down, Cut, BootAnswered, Agreed, SpareAsked, SpareAnswered

LEMMA WhenRequest ==
    ASSUME IInv, NEW g \in Games, toDb[g] # <<>>, Head(toDb[g]) = "req"
    PROVE  /\ toDb[g] = <<"req">> /\ toGame[g] = <<>>
           /\ \/ Cut(peer[g], game[g], toDb[g], toGame[g], lost) /\ game[g].spare = NoRange
              \/ SpareAsked(peer[g], game[g], toDb[g], toGame[g])
  BY DEF IInv, Sync, SyncOf, Down, BootAsked, BootAnswered, Agreed, SpareAnswered, SpareAsked, Cut

LEMMA WhenBooted ==
    ASSUME IInv, NEW g \in Games, toGame[g] # <<>>, Len(Head(toGame[g])) = 2
    PROVE  BootAnswered(peer[g], game[g], toDb[g], toGame[g])
  BY DEF IInv, Sync, SyncOf, Down, Cut, BootAsked, BootAnswered, Agreed, SpareAsked, SpareAnswered

LEMMA WhenSpare ==
    ASSUME IInv, NEW g \in Games, toGame[g] # <<>>, Len(Head(toGame[g])) = 1
    PROVE  \/ /\ Cut(peer[g], game[g], toDb[g], toGame[g], lost)
              /\ toGame[g] = <<<<NoRange>>>> /\ toDb[g] = <<>> /\ game[g].spare = NoRange
           \/ SpareAnswered(peer[g], game[g], toDb[g], toGame[g], g \in refused)
  BY DEF IInv, Sync, SyncOf, Down, Cut, BootAsked, BootAnswered, Agreed, SpareAsked, SpareAnswered

(* Nothing is issued, saved or destroyed.                                  *)
LEMMA SameItems == ASSUME UNCHANGED items PROVE Alive' = Alive
  BY DEF items, Alive

LEMMA BootStep ==
    ASSUME IInv, NEW g \in Games, DbBoot(g)
    PROVE  IInv'
<1> DEFINE r == GetRange(list)
           s == GetRange(Rest(list))
           p == [peer EXCEPT ![g].spare = r]
<1>0. /\ Stock(list) /\ PeersOK(peer) /\ game \in [Games -> Processes]
      /\ toDb \in [Games -> Seq({"boot", "req"})]
      /\ toGame \in [Games -> Seq(Seq(Ranges))]
  BY Parts
<1>1. BootAsked(peer[g], game[g], toDb[g], toGame[g])
  BY WhenBoot DEF DbBoot
<1>2. /\ peer[g] = NewPeer /\ game[g] = NewGame
      /\ toDb[g] = <<"boot">> /\ toGame[g] = <<>>
  BY <1>1 DEF BootAsked
<1>3. /\ Stock(Rest(list)) /\ r \in Ranges /\ Given(r)
      /\ \A j \in DOMAIN Rest(list) : j + 1 \in DOMAIN list /\ Rest(list)[j] = list[j + 1]
      /\ r = NoRange \/ \E k \in DOMAIN list : r = list[k]
  BY <1>0, TakeIs
<1>4. /\ Stock(Rest(Rest(list))) /\ s \in Ranges /\ Given(s)
      /\ \A j \in DOMAIN Rest(Rest(list)) :
            j + 1 \in DOMAIN Rest(list) /\ Rest(Rest(list))[j] = Rest(list)[j + 1]
      /\ s = NoRange \/ \E k \in DOMAIN Rest(list) : s = Rest(list)[k]
  BY <1>3, TakeIs
<1>5. /\ \A j \in DOMAIN Rest(Rest(list)) : \E k \in DOMAIN list : Rest(Rest(list))[j] = list[k]
      /\ s = NoRange \/ \E k \in DOMAIN list : s = list[k]
  BY <1>3, <1>4
<1>6. /\ peer' = [peer EXCEPT ![g].main = r, ![g].spare = s]
      /\ list' = Rest(Rest(list))
      /\ toDb' = [toDb EXCEPT ![g] = Tail(@)]
      /\ toGame' = [toGame EXCEPT ![g] = Append(@, <<r, s>>)]
      /\ UNCHANGED <<own, game, items, stale, lost, refused>>
  BY DEF DbBoot
<1> HIDE DEF r, s
<1>7. /\ NewPeer \in [up : BOOLEAN, main : Ranges, spare : Ranges]
      /\ NewPeer.up /\ NewPeer.main = NoRange /\ NewPeer.spare = NoRange
      /\ NewGame.main = NoRange /\ NewGame.spare = NoRange
  BY NewIs
<1>8. /\ peer'[g].up /\ peer'[g].main = r /\ peer'[g].spare = s
      /\ toDb'[g] = <<>> /\ toGame'[g] = <<<<r, s>>>> /\ game'[g] = NewGame
      /\ peer' \in Peers
  <2>1. peer'[g].up /\ peer'[g].main = r /\ peer'[g].spare = s /\ peer' \in Peers
    BY <1>0, <1>2, <1>3, <1>4, <1>6, <1>7 DEF PeersOK, Peers
  <2>2. toDb'[g] = <<>>
    BY <1>0, <1>2, <1>6
  <2>3. toGame'[g] = <<<<r, s>>>>
    BY <1>0, <1>2, <1>6
  <2> QED  BY <1>2, <1>6, <2>1, <2>2, <2>3
<1>9. Elsewhere(g)
  BY <1>0, <1>6 DEF Elsewhere, PeersOK, Peers
<1>10. TypeOK'
  <2>1. <<<<r, s>>>> \in Seq(Seq(Ranges)) /\ <<>> \in Seq({"boot", "req"})
    BY <1>3, <1>4
  <2>2. toGame' \in [Games -> Seq(Seq(Ranges))] /\ toDb' \in [Games -> Seq({"boot", "req"})]
    BY <1>0, <1>6, <1>8, <2>1
  <2> QED
    BY <1>4, <1>6, <1>8, <2>2 DEF IInv, TypeOK, Stock, Peers, items
<1>11. BlocksOK'
  BY <1>3, <1>4, <1>6, <1>7, <1>8, <1>9, BlocksStep, NoRangeIs DEF IInv, BlocksOK
<1>12. Sync'
  <2>1. BootAnswered(peer'[g], game'[g], toDb'[g], toGame'[g])
    BY <1>8 DEF BootAnswered
  <2> QED  BY <1>6, <1>9, <2>1, SyncStep DEF IInv, SyncOf
<1>13. Apart(list, peer)'
  <2>1. \A h \in Games : /\ p[h].main = peer[h].main
                         /\ p[h].spare = IF h = g THEN r ELSE peer[h].spare
    BY <1>0 DEF PeersOK, Peers
  <2>2. Advanced(list, peer, p, g)
    BY <1>2, <1>7, <2>1 DEF Advanced, r
  <2>3. PeersOK(p)
    BY <1>0, <1>3 DEF PeersOK, Peers
  <2> HIDE DEF p
  <2>4. Apart(Rest(list), p)
    BY <1>0, <2>2, TakeApart DEF IInv
  <2>5. Advanced(Rest(list), p, peer', g)
    BY <1>8, <1>9, <2>1 DEF Advanced, Elsewhere, s
  <2>6. Apart(Rest(Rest(list)), peer')
    BY <1>3, <2>3, <2>4, <2>5, TakeApart
  <2> QED  BY <1>6, <2>6
<1>14. Unused'
  <2>1. Alive' = Alive
    BY <1>6, SameItems
  <2>2. \A k \in DOMAIN list : Clear(Issuable(list[k]), Alive, stale, lost)
    BY DEF IInv, Unused
  <2>3. Clear(Issuable(NoRange), Alive, stale, lost)
    BY NoRangeIs, ClearNone
  <2>4. Clear(Issuable(r), Alive, stale, lost) /\ Clear(Issuable(s), Alive, stale, lost)
    BY <1>3, <1>5, <2>2, <2>3
  <2>5. Clear(Drawn(NewGame), Alive, stale, lost)
    BY <1>7, NoRangeIs, ClearNone DEF Drawn
  <2>6. Clear(Drawing(game'[g], toGame'[g]), Alive, stale, lost)
    BY <1>7, <1>8, <2>3, <2>4, <2>5, UnderWayIs, DrawingClear
  <2> QED  BY <1>5, <1>6, <1>9, <2>1, <2>6, UnusedStep DEF IInv
<1> QED  BY <1>10, <1>11, <1>12, <1>13, <1>14 DEF IInv

LEMMA RequestStep ==
    ASSUME IInv, NEW g \in Games, DbRequest(g)
    PROVE  IInv'
<1> DEFINE r == GetRange(list)
<1>0. /\ Stock(list) /\ PeersOK(peer) /\ game \in [Games -> Processes]
      /\ toDb \in [Games -> Seq({"boot", "req"})]
      /\ toGame \in [Games -> Seq(Seq(Ranges))]
      /\ refused \subseteq Games
  BY Parts
<1>1. /\ toDb[g] = <<"req">> /\ toGame[g] = <<>>
      /\ \/ Cut(peer[g], game[g], toDb[g], toGame[g], lost) /\ game[g].spare = NoRange
         \/ SpareAsked(peer[g], game[g], toDb[g], toGame[g])
  BY WhenRequest DEF DbRequest
<1>2. /\ Stock(Rest(list)) /\ r \in Ranges /\ Given(r)
      /\ \A j \in DOMAIN Rest(list) : j + 1 \in DOMAIN list /\ Rest(list)[j] = list[j + 1]
      /\ r = NoRange \/ \E k \in DOMAIN list : r = list[k]
      /\ list = <<>> <=> r = NoRange
  BY <1>0, TakeIs
<1>3. /\ toDb' = [toDb EXCEPT ![g] = Tail(@)]
      /\ refused' = IF list = <<>> THEN refused \cup {g} ELSE refused
      /\ UNCHANGED <<own, game, items, stale, lost>>
  BY DEF DbRequest
<1>4. toDb'[g] = <<>> /\ toDb' \in [Games -> Seq({"boot", "req"})] /\ game'[g] = game[g]
  <2>1. Tail(<<"req">>) = <<>> /\ <<>> \in Seq({"boot", "req"})
    OBVIOUS
  <2> QED  BY <1>0, <1>1, <1>3, <2>1
<1>5. Alive' = Alive
  BY <1>3, SameItems
<1>6. /\ Given(game[g].main) /\ Given(game[g].spare) /\ Given(peer[g].spare)
      /\ game[g].up /\ IsSet(game[g].main) => game[g].cur >= game[g].main.use
      /\ own.min = OwnMin /\ own.max = OwnMax /\ own.use \in OwnMin..(OwnMax + 1)
  BY DEF IInv, BlocksOK, Booted
<1>7. /\ \A k \in DOMAIN list : Clear(Issuable(list[k]), Alive, stale, lost)
      /\ Clear(Drawn(game[g]), Alive, stale, lost)
      /\ Clear(Issuable(game[g].spare), Alive, stale, lost)
  <2>1. Clear(Drawing(game[g], toGame[g]), Alive, stale, lost)
    BY DEF IInv, Unused
  <2> QED  BY <2>1, DrawingParts, ClearLess DEF IInv, Unused
<1>8. Clear(Issuable(NoRange), Alive, stale, lost)
  BY NoRangeIs, ClearNone
<1>9. CASE IsSet(peer[g].spare)
  <2>1. /\ peer'   = [peer EXCEPT ![g].main = peer[g].spare, ![g].spare = r]
        /\ list'   = Rest(list)
        /\ toGame' = [toGame EXCEPT ![g] = Append(@, <<r>>)]
    BY <1>9 DEF DbRequest
  <2> HIDE DEF r
  <2>2. SpareAsked(peer[g], game[g], toDb[g], toGame[g])
    BY <1>1, <1>9, NoRangeIs DEF Cut
  <2>3. /\ peer'[g].up = peer[g].up /\ peer'[g].main = peer[g].spare /\ peer'[g].spare = r
        /\ peer' \in Peers
    BY <1>0, <1>2, <2>1 DEF PeersOK, Peers
  <2>4. toGame'[g] = <<<<r>>>>
    BY <1>0, <1>1, <2>1
  <2>5. toGame' \in [Games -> Seq(Seq(Ranges))]
    <3>1. <<<<r>>>> \in Seq(Seq(Ranges))
      BY <1>2
    <3> QED  BY <1>0, <2>1, <2>4, <3>1
  <2>6. Elsewhere(g)
    BY <1>0, <1>3, <2>1 DEF Elsewhere, PeersOK, Peers
  <2>7. TypeOK'
    BY <1>0, <1>2, <1>3, <1>4, <2>1, <2>3, <2>5 DEF IInv, TypeOK, Stock, Peers, items
  <2>8. BlocksOK'
    BY <1>2, <1>3, <1>4, <1>6, <2>1, <2>3, <2>6, BlocksStep DEF IInv
  <2>9. Sync'
    <3>1. IsSet(r) \/ g \in refused'
      BY <1>2, <1>3, GivenIs
    <3>2. SpareAnswered(peer'[g], game'[g], toDb'[g], toGame'[g], g \in refused')
      BY <1>4, <2>2, <2>3, <2>4, <3>1 DEF SpareAsked, SpareAnswered
    <3> QED  BY <1>3, <2>6, <3>2, SyncStep DEF IInv, SyncOf
  <2>10. Apart(list, peer)'
    <3>1. Advanced(list, peer, peer', g)
      BY <2>3, <2>6 DEF Advanced, Elsewhere, r
    <3> QED  BY <1>0, <2>1, <3>1, TakeApart DEF IInv
  <2>11. Unused'
    <3>1. Clear(Issuable(r), Alive, stale, lost)
      BY <1>2, <1>7, <1>8
    <3>2. Clear(Drawing(game[g], <<<<r>>>>), Alive, stale, lost)
      BY <1>7, <3>1, UnderWayIs, DrawingClear
    <3> QED  BY <1>2, <1>3, <1>4, <1>5, <2>1, <2>4, <2>6, <3>2, UnusedStep DEF IInv
  <2> QED  BY <2>7, <2>8, <2>9, <2>10, <2>11 DEF IInv
<1>10. CASE ~IsSet(peer[g].spare)
  <2>1. /\ UNCHANGED <<peer, list>>
        /\ toGame' = [toGame EXCEPT ![g] = Append(@, <<NoRange>>)]
    BY <1>10 DEF DbRequest
  <2>2. Cut(peer[g], game[g], toDb[g], toGame[g], lost) /\ game[g].spare = NoRange
    BY <1>1, <1>10 DEF SpareAsked
  <2>3. NoRange \in Ranges
    BY NoRangeIs
  <2> HIDE DEF NoRange
  <2>4. toGame'[g] = <<<<NoRange>>>>
    BY <1>0, <1>1, <2>1
  <2>5. toGame' \in [Games -> Seq(Seq(Ranges))]
    <3>1. <<<<NoRange>>>> \in Seq(Seq(Ranges))
      BY <2>3
    <3> QED  BY <1>0, <2>1, <2>4, <3>1
  <2>6. Elsewhere(g)
    BY <1>0, <1>3, <2>1 DEF Elsewhere, PeersOK, Peers
  <2>7. TypeOK'
    BY <1>0, <1>2, <1>3, <1>4, <2>1, <2>5 DEF IInv, TypeOK, items
  <2>8. BlocksOK'
    BY <1>0, <1>2, <1>3, <1>4, <1>6, <2>1, <2>6, BlocksStep DEF IInv, BlocksOK
  <2>9. Sync'
    <3>1. Cut(peer'[g], game'[g], toDb'[g], toGame'[g], lost')
      BY <1>3, <1>4, <2>1, <2>2, <2>4 DEF Cut
    <3> QED  BY <1>3, <2>6, <3>1, SyncStep DEF IInv, SyncOf
  <2>10. Apart(list, peer)'
    BY <2>1 DEF IInv
  <2>11. Unused'
    <3>1. Clear(Drawing(game[g], <<<<NoRange>>>>), Alive, stale, lost)
      BY <1>7, <1>8, UnderWayIs, DrawingClear
    <3> QED  BY <1>3, <1>4, <1>5, <2>1, <2>4, <2>6, <3>1, UnusedStep DEF IInv
  <2> QED  BY <2>7, <2>8, <2>9, <2>10, <2>11 DEF IInv
<1> QED  BY <1>9, <1>10

(* Steps that leave the list and the items alone, and of the CPeer at most *)
(* the flag.                                                               *)
LEMMA LocalStep ==
    ASSUME IInv, NEW g \in Games, Elsewhere(g), UNCHANGED <<list, own, items, stale, lost>>,
           peer' \in Peers, peer'[g].main = peer[g].main, peer'[g].spare = peer[g].spare,
           game' \in [Games -> Processes],
           toDb' \in [Games -> Seq({"boot", "req"})],
           toGame' \in [Games -> Seq(Seq(Ranges))],
           refused' \subseteq Games,
           Given(game'[g].main), Given(game'[g].spare),
           game'[g].up /\ IsSet(game'[g].main) => game'[g].cur >= game'[g].main.use,
           SyncOf(peer'[g], game'[g], toDb'[g], toGame'[g], lost', g \in refused'),
           Clear(Drawing(game'[g], toGame'[g]), Alive, stale, lost)
    PROVE  IInv'
<1>0. Stock(list)
  BY Parts
<1>1. TypeOK'
  BY DEF IInv, TypeOK, Peers, Processes, items
<1>2. BlocksOK'
  BY <1>0, BlocksStep DEF IInv, BlocksOK
<1>3. Sync'
  BY SyncStep DEF IInv
<1>4. Apart(list, peer)'
  <2>1. \A h \in Games : peer'[h].main = peer[h].main /\ peer'[h].spare = peer[h].spare
    BY DEF Elsewhere
  <2> QED  BY <2>1, SameApart DEF IInv
<1>5. Unused'
  BY UnusedStep, SameItems DEF IInv
<1> QED  BY <1>1, <1>2, <1>3, <1>4, <1>5 DEF IInv

LEMMA StartStep ==
    ASSUME IInv, NEW g \in Games, GameStart(g)
    PROVE  IInv'
<1>0. /\ PeersOK(peer) /\ game \in [Games -> Processes] /\ refused \subseteq Games
      /\ toDb \in [Games -> Seq({"boot", "req"})]
      /\ toGame \in [Games -> Seq(Seq(Ranges))]
  BY Parts
<1>1. /\ ~game[g].up
      /\ game' = [game EXCEPT ![g] = NewGame]
      /\ peer' = [peer EXCEPT ![g] = NewPeer]
      /\ toDb' = [toDb EXCEPT ![g] = <<"boot">>]
      /\ refused' = refused \ {g}
      /\ UNCHANGED <<list, own, toGame, items, stale, lost>>
  BY DEF GameStart
<1>2. /\ NewPeer \in [up : BOOLEAN, main : Ranges, spare : Ranges] /\ NewGame \in Processes
      /\ NewPeer.main = NoRange /\ NewPeer.spare = NoRange
      /\ NoPeer.main = NoRange /\ NoPeer.spare = NoRange
      /\ NewGame.main = NoRange /\ NewGame.spare = NoRange /\ NewGame.up
  BY NewIs
<1>3. Down(peer[g], game[g], toDb[g], toGame[g])
  BY <1>1, <1>2 DEF IInv, Sync, SyncOf, Cut, BootAsked, BootAnswered, Agreed, SpareAsked, SpareAnswered
<1>4. /\ peer'[g] = NewPeer /\ game'[g] = NewGame
      /\ toDb'[g] = <<"boot">> /\ toGame'[g] = <<>> /\ peer[g] = NoPeer
  BY <1>0, <1>1, <1>3 DEF Down, PeersOK, Peers
<1>5. SyncOf(peer'[g], game'[g], toDb'[g], toGame'[g], lost', g \in refused')
  BY <1>4 DEF SyncOf, BootAsked
<1>6. Elsewhere(g)
  BY <1>0, <1>1 DEF Elsewhere, PeersOK, Peers
<1>7. Clear(Drawing(game'[g], toGame'[g]), Alive, stale, lost)
  <2>1. Drawn(NewGame) = {}
    BY <1>2, NoRangeIs DEF Drawn
  <2>2. Clear({}, Alive, stale, lost) /\ Issuable(NewGame.spare) = {}
    BY <1>2, NoRangeIs, ClearNone
  <2> QED  BY <1>4, <2>1, <2>2, UnderWayIs, DrawingClear
<1>8. peer' \in Peers /\ game' \in [Games -> Processes]
  BY <1>0, <1>1, <1>2 DEF PeersOK, Peers
<1>9. toDb' \in [Games -> Seq({"boot", "req"})] /\ toGame' \in [Games -> Seq(Seq(Ranges))]
  <2>1. <<"boot">> \in Seq({"boot", "req"})
    OBVIOUS
  <2> QED  BY <1>0, <1>1, <2>1
<1> QED
  BY <1>0, <1>1, <1>2, <1>4, <1>5, <1>6, <1>7, <1>8, <1>9, LocalStep, NoRangeIs

LEMMA BootedStep ==
    ASSUME IInv, NEW g \in Games, GameBoot(g),
           IsSet(Head(toGame[g])[1]), IsSet(Head(toGame[g])[2])
    PROVE  IInv'
<1> DEFINE main == peer[g].main
           spare == peer[g].spare
           a == [up |-> TRUE, main |-> main, cur |-> main.use, spare |-> spare]
<1>0. /\ PeersOK(peer) /\ game \in [Games -> Processes] /\ refused \subseteq Games
      /\ toDb \in [Games -> Seq({"boot", "req"})]
      /\ toGame \in [Games -> Seq(Seq(Ranges))]
  BY Parts
<1>1. BootAnswered(peer[g], game[g], toDb[g], toGame[g])
  BY WhenBooted DEF GameBoot
<1>2. /\ game[g] = NewGame /\ peer[g].up /\ toDb[g] = <<>>
      /\ toGame[g] = <<<<main, spare>>>>
      /\ main \in Ranges /\ spare \in Ranges /\ Given(main) /\ Given(spare)
  BY <1>0, <1>1 DEF BootAnswered, PeersOK, Peers
<1>3. Head(toGame[g])[1] = main /\ Head(toGame[g])[2] = spare /\ Tail(toGame[g]) = <<>>
  BY <1>2
<1>4. /\ game' = [game EXCEPT ![g] = a]
      /\ toGame' = [toGame EXCEPT ![g] = Tail(@)]
      /\ UNCHANGED <<list, own, peer, toDb, items, stale, lost, refused>>
  BY <1>3 DEF GameBoot
<1> HIDE DEF main, spare
<1>5. /\ a \in Processes
      /\ a.up /\ a.main = main /\ a.cur = main.use /\ a.spare = spare
  BY <1>2 DEF Processes, Ranges
<1> HIDE DEF a
<1>6. game'[g] = a /\ toGame'[g] = <<>> /\ toDb'[g] = <<>> /\ peer'[g] = peer[g]
  BY <1>0, <1>2, <1>3, <1>4
<1>7. IsSet(main) /\ IsSet(spare) /\ Block(main)
  BY <1>2, <1>3, GivenIs
<1>8. SyncOf(peer'[g], game'[g], toDb'[g], toGame'[g], lost', g \in refused')
  <2>1. Agreed(peer'[g], game'[g], toDb'[g], toGame'[g], g \in refused')
    BY <1>2, <1>5, <1>6, <1>7 DEF Agreed, main, spare
  <2> QED  BY <2>1 DEF SyncOf
<1>9. Elsewhere(g)
  BY <1>0, <1>4 DEF Elsewhere
<1>10. Clear(Drawing(game'[g], toGame'[g]), Alive, stale, lost)
  <2>1. Clear(Drawing(game[g], toGame[g]), Alive, stale, lost)
    BY DEF IInv, Unused
  <2>2. UnderWay(toGame[g]) = {main, spare}
    BY <1>2, UnderWayIs
  <2>3. Clear(Issuable(main), Alive, stale, lost) /\ Clear(Issuable(spare), Alive, stale, lost)
    BY <2>1, <2>2, DrawingParts, ClearLess
  <2>4. Drawn(a) = Issuable(main)
    BY <1>5, <1>7 DEF Drawn, Issuable
  <2> QED  BY <1>5, <1>6, <2>3, <2>4, UnderWayIs, DrawingClear
<1>11. peer' \in Peers /\ game' \in [Games -> Processes]
  BY <1>0, <1>4, <1>5 DEF PeersOK
<1>12. toGame' \in [Games -> Seq(Seq(Ranges))] /\ toDb' \in [Games -> Seq({"boot", "req"})]
  <2>1. <<>> \in Seq(Seq(Ranges))
    OBVIOUS
  <2> QED  BY <1>0, <1>3, <1>4, <2>1
<1>13. game'[g].cur >= game'[g].main.use
  BY <1>2, <1>5, <1>6 DEF Ranges
<1> QED
  BY <1>0, <1>2, <1>4, <1>5, <1>6, <1>8, <1>9, <1>10, <1>11, <1>12, <1>13, LocalStep

LEMMA SpareStep ==
    ASSUME IInv, NEW g \in Games, GameSpare(g)
    PROVE  IInv'
<1> DEFINE r == Head(toGame[g])[1]
<1>0. /\ PeersOK(peer) /\ game \in [Games -> Processes] /\ refused \subseteq Games
      /\ toDb \in [Games -> Seq({"boot", "req"})]
      /\ toGame \in [Games -> Seq(Seq(Ranges))]
  BY Parts
<1>1. /\ game' = IF IsSet(r) THEN [game EXCEPT ![g].spare = r] ELSE game
      /\ toGame' = [toGame EXCEPT ![g] = Tail(@)]
      /\ UNCHANGED <<list, own, peer, toDb, items, stale, lost, refused>>
  BY DEF GameSpare
<1>2. \/ /\ Cut(peer[g], game[g], toDb[g], toGame[g], lost)
         /\ toGame[g] = <<<<NoRange>>>> /\ toDb[g] = <<>> /\ game[g].spare = NoRange
      \/ SpareAnswered(peer[g], game[g], toDb[g], toGame[g], g \in refused)
  BY WhenSpare DEF GameSpare
<1>3. /\ Given(game[g].main) /\ Given(game[g].spare) /\ Given(peer[g].spare)
      /\ peer[g].spare \in Ranges /\ game[g] \in Processes
      /\ game[g].up /\ IsSet(game[g].main) => game[g].cur >= game[g].main.use
  BY <1>0 DEF IInv, BlocksOK, Booted, PeersOK, Peers
<1>4. /\ Clear(Drawn(game[g]), Alive, stale, lost)
      /\ Clear(Issuable(game[g].spare), Alive, stale, lost)
      /\ \A x \in UnderWay(toGame[g]) : Clear(Issuable(x), Alive, stale, lost)
  <2>1. Clear(Drawing(game[g], toGame[g]), Alive, stale, lost)
    BY DEF IInv, Unused
  <2> QED  BY <2>1, DrawingParts, ClearLess
<1>5. Elsewhere(g)
  BY <1>0, <1>1 DEF Elsewhere
<1>6. toGame'[g] = <<>> /\ r \in UnderWay(toGame[g]) /\ toDb'[g] = <<>> /\ r \in Ranges /\ Given(r)
  <2> DEFINE x == IF toGame[g] = <<<<NoRange>>>> THEN NoRange ELSE peer[g].spare
  <2>1. toGame[g] = <<<<x>>>> /\ x \in Ranges /\ Given(x) /\ toDb[g] = <<>>
    BY <1>2, <1>3, NoRangeIs DEF SpareAnswered
  <2> HIDE DEF x
  <2>2. r = x /\ Tail(toGame[g]) = <<>>
    BY <2>1
  <2> QED  BY <1>0, <1>1, <2>1, <2>2, UnderWayIs
<1>7. toGame' \in [Games -> Seq(Seq(Ranges))]
  <2>1. <<>> \in Seq(Seq(Ranges))
    OBVIOUS
  <2>2. \A h \in Games : toGame'[h] = IF h = g THEN <<>> ELSE toGame[h]
    BY <1>0, <1>1, <1>6
  <2>3. toGame' = [h \in Games |-> toGame'[h]]
    BY <1>0, <1>1
  <2>4. \A h \in Games : toGame'[h] \in Seq(Seq(Ranges))
    BY <1>0, <2>1, <2>2
  <2> QED  BY <2>3, <2>4
<1>8. SyncOf(peer'[g], game'[g], toDb'[g], toGame'[g], lost', g \in refused')
  <2>1. CASE Cut(peer[g], game[g], toDb[g], toGame[g], lost) /\ toGame[g] = <<<<NoRange>>>>
    <3>1. ~IsSet(r) /\ toDb[g] = <<>>
      BY <1>2, <2>1, NoRangeIs DEF SpareAnswered
    <3>2. Cut(peer'[g], game'[g], toDb'[g], toGame'[g], lost')
      BY <1>1, <1>6, <2>1, <3>1 DEF Cut
    <3> QED  BY <3>2 DEF SyncOf
  <2>2. CASE SpareAnswered(peer[g], game[g], toDb[g], toGame[g], g \in refused)
    <3>1. r = peer[g].spare
      BY <2>2 DEF SpareAnswered
    <3>2. /\ game'[g].up = game[g].up /\ game'[g].main = game[g].main
          /\ game'[g].spare = peer[g].spare
      <4>1. CASE IsSet(r)
        BY <1>0, <1>1, <3>1, <4>1 DEF Processes
      <4>2. CASE ~IsSet(r)
        BY <1>1, <1>3, <2>2, <3>1, <4>2, GivenIs DEF SpareAnswered
      <4> QED  BY <4>1, <4>2
    <3>3. Agreed(peer'[g], game'[g], toDb'[g], toGame'[g], g \in refused')
      BY <1>1, <1>6, <2>2, <3>2 DEF Agreed, SpareAnswered
    <3> QED  BY <3>3 DEF SyncOf
  <2> QED  BY <1>2, <2>1, <2>2
<1> HIDE DEF r
<1>9. /\ game' \in [Games -> Processes]
      /\ game'[g].up = game[g].up /\ game'[g].main = game[g].main /\ game'[g].cur = game[g].cur
      /\ game'[g].spare = r \/ game'[g].spare = game[g].spare
  BY <1>0, <1>1, <1>6 DEF Processes
<1>10. Clear(Drawing(game'[g], toGame'[g]), Alive, stale, lost)
  <2>1. Drawn(game'[g]) = Drawn(game[g])
    BY <1>9 DEF Drawn
  <2>2. Clear(Issuable(game'[g].spare), Alive, stale, lost)
    BY <1>4, <1>6, <1>9
  <2> QED  BY <1>4, <1>6, <2>1, <2>2, UnderWayIs, DrawingClear
<1> QED
  BY <1>0, <1>1, <1>3, <1>5, <1>6, <1>7, <1>8, <1>9, <1>10, LocalStep DEF PeersOK

LEMMA ReconnectStep ==
    ASSUME IInv, NEW g \in Games, Reconnect(g)
    PROVE  IInv'
<1>0. /\ PeersOK(peer) /\ game \in [Games -> Processes] /\ refused \subseteq Games
      /\ toDb \in [Games -> Seq({"boot", "req"})]
      /\ toGame \in [Games -> Seq(Seq(Ranges))]
  BY Parts
<1>1. /\ game[g].up /\ ~peer[g].up
      /\ peer' = [peer EXCEPT ![g] = NewPeer]
      /\ UNCHANGED <<list, own, game, toDb, toGame, items, stale, lost, refused>>
  BY DEF Reconnect
<1>2. /\ NewPeer \in [up : BOOLEAN, main : Ranges, spare : Ranges]
      /\ NewPeer.main = NoRange /\ NewPeer.spare = NoRange /\ NewPeer.up /\ ~NoGame.up
  BY NewIs
<1>3. Cut(peer[g], game[g], toDb[g], toGame[g], lost)
  BY <1>1, <1>2 DEF IInv, Sync, SyncOf, Down, BootAsked, BootAnswered, Agreed, SpareAsked, SpareAnswered
<1>4. peer'[g] = NewPeer
  BY <1>0, <1>1 DEF PeersOK, Peers
<1>5. /\ peer'[g].main = peer[g].main /\ peer'[g].spare = peer[g].spare
      /\ Cut(peer'[g], game'[g], toDb'[g], toGame'[g], lost')
  BY <1>1, <1>2, <1>3, <1>4 DEF Cut
<1>6. Elsewhere(g) /\ peer' \in Peers
  BY <1>0, <1>1, <1>2 DEF Elsewhere, PeersOK, Peers
<1>7. /\ Given(game[g].main) /\ Given(game[g].spare)
      /\ game[g].up /\ IsSet(game[g].main) => game[g].cur >= game[g].main.use
      /\ Clear(Drawing(game[g], toGame[g]), Alive, stale, lost)
  BY DEF IInv, BlocksOK, Booted, Unused
<1>8. SyncOf(peer'[g], game'[g], toDb'[g], toGame'[g], lost', g \in refused')
  BY <1>5 DEF SyncOf
<1> QED
  BY <1>0, <1>1, <1>5, <1>6, <1>7, <1>8, LocalStep

(* Ids are destroyed, written, saved or lost, and nothing else happens.    *)
LEMMA FewerStep ==
    ASSUME IInv, UNCHANGED <<list, own, peer, game, toDb, toGame, stale, lost, refused>>,
           mem' \in [Games -> SUBSET Ids], cache' \subseteq Ids, sql' \subseteq Ids,
           Alive' \subseteq Alive
    PROVE  IInv'
<1>1. TypeOK'
  BY DEF IInv, TypeOK
<1>2. BlocksOK'
  BY DEF IInv, BlocksOK, Booted
<1>3. Sync'
  BY DEF IInv, Sync
<1>4. Apart(list, peer)'
  BY DEF IInv
<1>5. Unused'
  <2>1. \A j \in DOMAIN list : Clear(Issuable(list[j]), Alive', stale, lost)
    BY ClearLess DEF IInv, Unused
  <2>2. Clear(own.use..own.max, Alive', stale, lost)
    BY ClearLess DEF IInv, Unused
  <2>3. \A g \in Games : Clear(Drawing(game[g], toGame[g]), Alive', stale, lost)
    BY ClearLess DEF IInv, Unused
  <2> QED  BY <2>1, <2>2, <2>3 DEF Unused
<1> QED  BY <1>1, <1>2, <1>3, <1>4, <1>5 DEF IInv

LEMMA ItemsStep ==
    ASSUME IInv, ItemStep
    PROVE  IInv'
<1>0. /\ mem \in [Games -> SUBSET Ids] /\ cache \subseteq Ids /\ sql \subseteq Ids
      /\ Alive \subseteq Ids
  BY Parts
<1>1. PICK i \in Alive : (\E g \in Games : Save(g, i) \/ Destroy(g, i)) \/ Flush(i)
  BY DEF ItemStep
<1>2. UNCHANGED <<list, own, peer, game, toDb, toGame, stale, lost, refused>>
  BY DEF ItemStep
<1>3. ASSUME NEW g \in Games, Save(g, i) PROVE IInv'
  <2>1. i \in mem[g] /\ cache' = cache \cup {i} /\ UNCHANGED <<mem, sql>>
    BY <1>3 DEF Save
  <2>2. Alive' \subseteq Alive
    BY <2>1 DEF Alive
  <2>3. mem' \in [Games -> SUBSET Ids] /\ cache' \subseteq Ids /\ sql' \subseteq Ids
    BY <1>0, <2>1
  <2> QED  BY <1>2, <2>2, <2>3, FewerStep
<1>4. ASSUME NEW g \in Games, Destroy(g, i) PROVE IInv'
  <2>1. /\ mem' = [mem EXCEPT ![g] = @ \ {i}]
        /\ cache' = cache \ {i} /\ sql' = sql \ {i}
    BY <1>4 DEF Destroy
  <2>2. mem' \in [Games -> SUBSET Ids] /\ \A h \in Games : mem'[h] \subseteq mem[h]
    BY <1>0, <2>1
  <2>3. Alive' \subseteq Alive
    BY <2>1, <2>2 DEF Alive
  <2>4. cache' \subseteq Ids /\ sql' \subseteq Ids
    BY <1>0, <2>1
  <2> QED  BY <1>2, <2>2, <2>3, <2>4, FewerStep
<1>5. ASSUME Flush(i) PROVE IInv'
  <2>1. /\ i \in cache /\ sql' = sql \cup {i} /\ cache' = cache \ {i}
        /\ mem' = [g \in Games |-> mem[g] \ {i}]
    BY <1>5 DEF Flush
  <2>2. mem' \in [Games -> SUBSET Ids] /\ \A h \in Games : mem'[h] \subseteq mem[h]
    BY <1>0, <2>1
  <2>3. Alive' \subseteq Alive
    BY <2>1, <2>2 DEF Alive
  <2>4. cache' \subseteq Ids /\ sql' \subseteq Ids
    BY <1>0, <2>1
  <2> QED  BY <1>2, <2>2, <2>3, <2>4, FewerStep
<1> QED  BY <1>1, <1>3, <1>4, <1>5

-----------------------------------------------------------------------------
(* What is issued.                                                         *)

(* A range that a game holds, or is about to get, is one its CPeer has     *)
(* noted, or lost.                                                         *)
LEMMA Noted ==
    ASSUME IInv, NEW g \in Games,
           NEW r \in {game[g].main, game[g].spare} \cup UnderWay(toGame[g]), IsSet(r)
    PROVE  /\ r \in Ranges /\ Block(r)
           /\ r.min \in lost \/ r = peer[g].main \/ r = peer[g].spare
<1>1. /\ peer[g].main \in Ranges /\ peer[g].spare \in Ranges
      /\ game[g].main \in Ranges /\ game[g].spare \in Ranges
  BY Parts DEF PeersOK, Peers, Processes
<1>2. /\ Given(game[g].main) /\ Given(game[g].spare)
      /\ Given(peer[g].main) /\ Given(peer[g].spare)
  BY DEF IInv, BlocksOK
<1>3. /\ r \in {game[g].main, game[g].spare, peer[g].main, peer[g].spare}
      /\ r.min \in lost \/ r = peer[g].main \/ r = peer[g].spare
  <2>1. SyncOf(peer[g], game[g], toDb[g], toGame[g], lost, g \in refused)
    BY DEF IInv, Sync
  <2>2. /\ ~IsSet(NoRange)
        /\ NoGame.main = NoRange /\ NoGame.spare = NoRange
        /\ NewGame.main = NoRange /\ NewGame.spare = NoRange
    BY NewIs, NoRangeIs
  <2>3. CASE Down(peer[g], game[g], toDb[g], toGame[g])
    BY <2>2, <2>3, UnderWayIs DEF Down
  <2>4. CASE Cut(peer[g], game[g], toDb[g], toGame[g], lost)
    <3>1. UnderWay(toGame[g]) \subseteq {NoRange}
      BY <2>4, UnderWayIs DEF Cut
    <3> QED  BY <2>2, <2>4, <3>1 DEF Cut
  <2>5. CASE BootAsked(peer[g], game[g], toDb[g], toGame[g])
    BY <2>2, <2>5, UnderWayIs DEF BootAsked
  <2>6. CASE BootAnswered(peer[g], game[g], toDb[g], toGame[g])
    <3>1. UnderWay(toGame[g]) = {peer[g].main, peer[g].spare}
      BY <2>6, UnderWayIs DEF BootAnswered
    <3> QED  BY <2>2, <2>6, <3>1 DEF BootAnswered
  <2>7. CASE Agreed(peer[g], game[g], toDb[g], toGame[g], g \in refused)
    BY <2>7, UnderWayIs DEF Agreed
  <2>8. CASE SpareAsked(peer[g], game[g], toDb[g], toGame[g])
    BY <2>2, <2>8, UnderWayIs DEF SpareAsked
  <2>9. CASE SpareAnswered(peer[g], game[g], toDb[g], toGame[g], g \in refused)
    <3>1. UnderWay(toGame[g]) = {peer[g].spare}
      BY <2>9, UnderWayIs DEF SpareAnswered
    <3> QED  BY <2>2, <2>9, <3>1 DEF SpareAnswered
  <2> QED  BY <2>1, <2>3, <2>4, <2>5, <2>6, <2>7, <2>8, <2>9 DEF SyncOf
<1> QED  BY <1>1, <1>2, <1>3, GivenIs

(* An id that a game may come to issue is of a range it holds, or is about *)
(* to get.                                                                 *)
LEMMA DrawingFrom ==
    ASSUME IInv, NEW g \in Games, NEW i \in Drawing(game[g], toGame[g])
    PROVE  \E r \in {game[g].main, game[g].spare} \cup UnderWay(toGame[g]) :
               IsSet(r) /\ i \in Issuable(r)
<1>1. CASE i \in Drawn(game[g])
  <2>1. game[g].up /\ IsSet(game[g].main) /\ i \in game[g].cur..(game[g].main.max - 1)
    BY <1>1 DEF Drawn
  <2>2. game[g].cur >= game[g].main.use
    BY <2>1 DEF IInv, BlocksOK, Booted
  <2>3. game[g].main \in Ranges /\ game[g].cur \in Nat
    BY Parts DEF Processes
  <2>4. i \in Issuable(game[g].main)
    BY <2>1, <2>2, <2>3 DEF Issuable, Ranges
  <2> QED  BY <2>1, <2>4
<1>2. ASSUME NEW r \in {game[g].spare} \cup UnderWay(toGame[g]), i \in Issuable(r)
      PROVE  IsSet(r) /\ r \in {game[g].main, game[g].spare} \cup UnderWay(toGame[g])
  BY <1>2 DEF Issuable
<1>3. CASE i \notin Drawn(game[g])
  <2>1. PICK r \in {game[g].spare} \cup UnderWay(toGame[g]) : i \in Issuable(r)
    BY <1>3 DEF Drawing
  <2> QED  BY <1>2, <2>1
<1> QED  BY <1>1, <1>3

(* An id of a lost range is excused.                                       *)
LEMMA LostForgiven ==
    ASSUME NEW r \in Ranges, Block(r), NEW i \in Issuable(r), NEW st, NEW lo, r.min \in lo
    PROVE  Forgiven(i, st, lo)
<1>1. /\ r.min \in Nat /\ r.use \in Nat /\ r.max \in Nat /\ Issuable(r) = r.use..(r.max - 1)
      /\ r.max = r.min + MinimumRange - 1 /\ r.min <= r.use
  BY BlockIs
<1>2. i \in r.min..(r.min + MinimumRange - 1)
  BY <1>1, ItemIDRangeAssumption
<1> QED  BY <1>2 DEF Forgiven

(* The range in use is not one of the others of a game.                    *)
LEMMA OthersDiffer ==
    ASSUME IInv, NEW g \in Games, IsSet(game[g].main),
           NEW r \in {game[g].spare} \cup UnderWay(toGame[g]), IsSet(r)
    PROVE  game[g].main.min \in lost \/ r.min # game[g].main.min
<1>1. SyncOf(peer[g], game[g], toDb[g], toGame[g], lost, g \in refused)
  BY DEF IInv, Sync
<1>2. /\ ~IsSet(NoRange) /\ NoGame.main = NoRange /\ NewGame.main = NoRange
  BY NewIs, NoRangeIs
<1>3. IsSet(peer[g].main) => peer[g].main.min # peer[g].spare.min
  BY DEF IInv, Apart
<1>4. CASE Cut(peer[g], game[g], toDb[g], toGame[g], lost)
  BY <1>4 DEF Cut
<1>5. CASE Agreed(peer[g], game[g], toDb[g], toGame[g], g \in refused)
  BY <1>3, <1>5, UnderWayIs DEF Agreed
<1>6. CASE SpareAsked(peer[g], game[g], toDb[g], toGame[g])
  BY <1>2, <1>6, UnderWayIs DEF SpareAsked
<1>7. CASE SpareAnswered(peer[g], game[g], toDb[g], toGame[g], g \in refused)
  <2>1. UnderWay(toGame[g]) = {peer[g].spare}
    BY <1>7, UnderWayIs DEF SpareAnswered
  <2> QED  BY <1>2, <1>3, <1>7, <2>1 DEF SpareAnswered
<1> QED
  BY <1>1, <1>2, <1>4, <1>5, <1>6, <1>7 DEF SyncOf, Down, BootAsked, BootAnswered

(* A game issues the id i of its range b.                                  *)
LEMMA IssueStep ==
    ASSUME IInv, NEW g \in Games, NEW b \in {game[g].main, game[g].spare}, IsSet(b),
           NEW i \in Issuable(b),
           UNCHANGED <<list, own, peer, toGame, cache, sql, stale, lost, refused>>,
           mem' = [mem EXCEPT ![g] = @ \cup {i}],
           game' \in [Games -> Processes], \A h \in Games \ {g} : game'[h] = game[h],
           toDb' \in [Games -> Seq({"boot", "req"})],
           \A h \in Games \ {g} : toDb'[h] = toDb[h],
           Given(game'[g].main), Given(game'[g].spare),
           game'[g].up /\ IsSet(game'[g].main) => game'[g].cur >= game'[g].main.use,
           SyncOf(peer[g], game'[g], toDb'[g], toGame[g], lost, g \in refused),
           Drawing(game'[g], toGame[g]) \subseteq Drawing(game[g], toGame[g]),
           i \in Drawing(game'[g], toGame[g]) => Forgiven(i, stale, lost)
    PROVE  IInv'
<1>0. /\ Stock(list) /\ PeersOK(peer) /\ own \in Ranges
      /\ mem \in [Games -> SUBSET Ids]
  BY Parts
<1>1. /\ b \in Ranges /\ Block(b)
      /\ b.min \in lost \/ b = peer[g].main \/ b = peer[g].spare
  BY Noted
<1>2. i \in Ids /\ i \notin OwnMin..OwnMax
  <2>1. /\ b.min \in Nat \ {0} /\ b.use \in Nat /\ b.max \in Nat /\ b.min <= b.use
        /\ b.max <= MaxItemID
        /\ Issuable(b) = b.use..(b.max - 1) /\ Issuable(b) \cap (OwnMin..OwnMax) = {}
    BY <1>1, BlockIs
  <2>2. MaxItemID \in Nat
    BY ItemIDRangeAssumption
  <2> QED  BY <2>1, <2>2 DEF Ids
<1>3. b.min \in lost => Forgiven(i, stale, lost)
  BY <1>1, LostForgiven
<1>4. ASSUME NEW r \in Ranges, Block(r), r.min # b.min PROVE i \notin Issuable(r)
  BY <1>1, <1>4, BlocksApart
<1>5. Alive' \subseteq Alive \cup {i}
  <2>1. \A h \in Games : mem'[h] \subseteq mem[h] \cup {i}
    BY <1>0
  <2> QED  BY <2>1 DEF Alive
<1>6. TypeOK'
  <2>1. mem' \in [Games -> SUBSET Ids]
    BY <1>0, <1>2
  <2> QED  BY <2>1 DEF IInv, TypeOK, Processes
<1>7. BlocksOK'
  <2>1. \A h \in Games : /\ Given(game'[h].main) /\ Given(game'[h].spare)
                         /\ game'[h].up /\ IsSet(game'[h].main) => game'[h].cur >= game'[h].main.use
    BY DEF IInv, BlocksOK, Booted
  <2> QED  BY <2>1 DEF IInv, BlocksOK, Booted
<1>8. Sync'
  <2>1. Elsewhere(g)
    BY DEF Elsewhere
  <2> QED  BY <2>1, SyncStep DEF IInv
<1>9. Apart(list, peer)'
  BY DEF IInv
<1>10. Unused'
  <2>1. b.min \notin lost => IsSet(b) /\ b.min # 0
    BY <1>1, BlockIs
  <2>2. ASSUME NEW j \in DOMAIN list PROVE Clear(Issuable(list[j]), Alive', stale, lost)
    <3>1. Clear(Issuable(list[j]), Alive, stale, lost)
      BY DEF IInv, Unused
    <3>2. list[j] \in Ranges /\ Block(list[j])
      BY <1>0, StockIs
    <3>3. b.min \notin lost => list[j].min # b.min
      BY <1>1 DEF IInv, Apart
    <3>4. i \in Issuable(list[j]) => Forgiven(i, stale, lost)
      BY <1>3, <1>4, <3>2, <3>3
    <3> QED  BY <1>5, <3>1, <3>4, ClearIssue
  <2>3. Clear(own.use..own.max, Alive', stale, lost)
    <3>1. Clear(own.use..own.max, Alive, stale, lost)
      BY DEF IInv, Unused
    <3>2. i \notin own.use..own.max
      <4>1. own.max = OwnMax /\ own.use \in OwnMin..(OwnMax + 1)
        BY DEF IInv, BlocksOK
      <4>2. OwnMin \in Int /\ OwnMax \in Int
        BY ItemIDRangeAssumption DEF Ids
      <4> QED  BY <1>2, <4>1, <4>2
    <3> QED  BY <1>5, <3>1, <3>2, ClearIssue
  <2>4. ASSUME NEW h \in Games PROVE Clear(Drawing(game'[h], toGame[h]), Alive', stale, lost)
    <3>1. Clear(Drawing(game[h], toGame[h]), Alive, stale, lost)
      BY DEF IInv, Unused
    <3>2. CASE h = g
      <4>1. Clear(Drawing(game[g], toGame[g]), Alive, stale, lost)
        BY <3>1, <3>2
      <4>2. Clear(Drawing(game'[g], toGame[g]), Alive', stale, lost)
        BY <1>5, <4>1, ClearIssue
      <4> QED  BY <3>2, <4>2
    <3>3. CASE h # g
      <4>1. game'[h] = game[h]
        BY <3>3
      <4>2. ASSUME i \in Drawing(game[h], toGame[h]) PROVE Forgiven(i, stale, lost)
        <5>1. PICK r \in {game[h].main, game[h].spare} \cup UnderWay(toGame[h]) :
                  IsSet(r) /\ i \in Issuable(r)
          BY <4>2, DrawingFrom
        <5>2. /\ r \in Ranges /\ Block(r)
              /\ r.min \in lost \/ r = peer[h].main \/ r = peer[h].spare
          BY <5>1, Noted
        <5>3. CASE r.min \in lost
          BY <5>1, <5>2, <5>3, LostForgiven
        <5>4. CASE r.min \notin lost /\ b.min \notin lost
          <6>1. r.min # b.min
            BY <1>1, <3>3, <5>1, <5>2, <5>4 DEF IInv, Apart
          <6> QED  BY <1>4, <5>1, <5>2, <6>1
        <5> QED  BY <1>3, <5>3, <5>4
      <4> QED  BY <1>5, <3>1, <4>1, <4>2, ClearIssue
    <3> QED  BY <3>2, <3>3
  <2> QED  BY <2>2, <2>3, <2>4 DEF Unused
<1> QED  BY <1>6, <1>7, <1>8, <1>9, <1>10 DEF IInv

LEMMA NewIDStep ==
    ASSUME IInv, NEW g \in Games, GetNewID(g)
    PROVE  IInv'
<1> DEFINE i == game[g].cur
           b == game[g].main
<1>0. /\ game \in [Games -> Processes] /\ PeersOK(peer)
      /\ toDb \in [Games -> Seq({"boot", "req"})]
  BY Parts
<1>1. /\ game[g].up /\ IsSet(b) /\ i < b.max
      /\ game' = [game EXCEPT ![g].cur = @ + 1]
      /\ mem' = [mem EXCEPT ![g] = @ \cup {i}]
      /\ UNCHANGED <<list, own, peer, toDb, toGame, cache, sql, stale, lost, refused>>
  BY DEF GetNewID, Issue, Booted
<1>2. /\ b \in Ranges /\ b.use \in Nat /\ b.max \in Nat /\ i \in Nat
      /\ i >= b.use
  BY <1>0, <1>1 DEF Processes, Ranges, IInv, BlocksOK, Booted
<1>3. i \in Issuable(b)
  BY <1>1, <1>2 DEF Issuable
<1>4. /\ game' \in [Games -> Processes]
      /\ game'[g].up /\ game'[g].main = b /\ game'[g].spare = game[g].spare
      /\ game'[g].cur = i + 1
      /\ \A h \in Games \ {g} : game'[h] = game[h]
  <2>1. game' = [game EXCEPT ![g] = [game[g] EXCEPT !.cur = i + 1]]
    BY <1>1
  <2> DEFINE a == [game[g] EXCEPT !.cur = i + 1]
  <2>2. game[g] \in Processes /\ i + 1 \in Nat
    BY <1>0, <1>2
  <2>3. /\ a \in Processes /\ a.up = game[g].up /\ a.main = b /\ a.spare = game[g].spare
        /\ a.cur = i + 1
    BY <2>2 DEF Processes
  <2> HIDE DEF a, i
  <2>4. game' \in [Games -> Processes] /\ game'[g] = a /\ \A h \in Games \ {g} : game'[h] = game[h]
    BY <1>0, <2>1, <2>3 DEF a
  <2> QED  BY <1>1, <2>3, <2>4
<1>5. /\ Drawn(game'[g]) = (i + 1)..(b.max - 1) /\ Drawn(game[g]) = i..(b.max - 1)
  BY <1>1, <1>4 DEF Drawn
<1>6. Drawing(game'[g], toGame[g]) \subseteq Drawing(game[g], toGame[g])
  BY <1>2, <1>4, <1>5 DEF Drawing
<1>7. SyncOf(peer[g], game'[g], toDb'[g], toGame[g], lost, g \in refused)
  <2>1. SyncOf(peer[g], game[g], toDb[g], toGame[g], lost, g \in refused)
    BY DEF IInv, Sync
  <2>2. game[g] # NoGame /\ game[g] # NewGame
    BY <1>1, NewIs, NoRangeIs
  <2> QED
    BY <1>1, <1>4, <2>1, <2>2
    DEF SyncOf, Down, Cut, BootAsked, BootAnswered, Agreed, SpareAsked, SpareAnswered
<1>8. ASSUME i \in Drawing(game'[g], toGame[g]) PROVE Forgiven(i, stale, lost)
  <2>1. i \notin Drawn(game'[g])
    BY <1>2, <1>5
  <2>2. PICK r \in {game[g].spare} \cup UnderWay(toGame[g]) : i \in Issuable(r)
    BY <1>4, <1>8, <2>1 DEF Drawing
  <2>3. IsSet(r)
    BY <2>2 DEF Issuable
  <2>4. r \in Ranges /\ Block(r) /\ b \in Ranges /\ Block(b)
    BY <1>1, <2>2, <2>3, Noted
  <2>5. b.min \in lost \/ r.min # b.min
    BY <1>1, <2>2, <2>3, OthersDiffer
  <2>6. CASE b.min \in lost
    BY <1>3, <2>4, <2>6, LostForgiven
  <2>7. CASE r.min # b.min
    BY <1>3, <2>2, <2>4, <2>7, BlocksApart
  <2> QED  BY <2>5, <2>6, <2>7
<1>9. /\ Given(game'[g].main) /\ Given(game'[g].spare)
      /\ game'[g].cur >= game'[g].main.use
  BY <1>2, <1>4 DEF IInv, BlocksOK
<1> HIDE DEF i
<1> QED
  BY <1>0, <1>1, <1>3, <1>4, <1>6, <1>7, <1>8, <1>9, IssueStep

LEMMA SwitchStep ==
    ASSUME IInv, NEW g \in Games, SwitchRange(g)
    PROVE  IInv'
<1> DEFINE b == game[g].spare
           i == b.use
           a == [[[game[g] EXCEPT !.main = b] EXCEPT !.cur = i + 1] EXCEPT !.spare = NoRange]
<1>0. /\ game \in [Games -> Processes] /\ PeersOK(peer)
      /\ toDb \in [Games -> Seq({"boot", "req"})]
  BY Parts
<1>1. /\ game[g].up /\ IsSet(game[g].main) /\ IsSet(b)
      /\ game' = [game EXCEPT ![g].main = b, ![g].cur = i + 1, ![g].spare = NoRange]
      /\ mem' = [mem EXCEPT ![g] = @ \cup {i}]
      /\ toDb' = IF peer[g].up THEN [toDb EXCEPT ![g] = Append(@, "req")] ELSE toDb
      /\ UNCHANGED <<list, own, peer, toGame, cache, sql, stale, lost, refused>>
  BY DEF SwitchRange, Issue, Booted
<1>2. /\ b \in Ranges /\ Block(b) /\ i \in Nat /\ b.max \in Nat
      /\ Issuable(b) = i..(b.max - 1) /\ i \in Issuable(b)
  <2>1. b \in Ranges /\ Given(b)
    BY <1>0 DEF Processes, IInv, BlocksOK
  <2>2. Block(b)
    BY <1>1, <2>1, GivenIs
  <2> QED  BY <2>1, <2>2, BlockIs
<1>3. NoRange \in Ranges /\ ~IsSet(NoRange) /\ Issuable(NoRange) = {}
  BY NoRangeIs
<1>4. game' = [game EXCEPT ![g] = a]
  BY <1>0, <1>1
<1> HIDE DEF NoRange, i
<1>5. /\ a \in Processes /\ a.up /\ a.main = b /\ a.cur = i + 1 /\ a.spare = NoRange
  BY <1>0, <1>1, <1>2, <1>3 DEF Processes
<1> HIDE DEF a
<1>6. /\ game' \in [Games -> Processes] /\ game'[g] = a
      /\ \A h \in Games \ {g} : game'[h] = game[h]
  BY <1>0, <1>4, <1>5
<1>7. Drawn(a) = (i + 1)..(b.max - 1)
  BY <1>1, <1>5 DEF Drawn
<1>8. Drawing(a, toGame[g]) = Drawn(a) \cup UNION {Issuable(r) : r \in UnderWay(toGame[g])}
  BY <1>3, <1>5 DEF Drawing
<1>9. Drawing(a, toGame[g]) \subseteq Drawing(game[g], toGame[g])
  <2>1. Drawn(a) \subseteq Issuable(game[g].spare)
    BY <1>2, <1>7
  <2> QED  BY <1>8, <2>1 DEF Drawing
<1>10. \/ /\ Agreed(peer[g], game[g], toDb[g], toGame[g], g \in refused)
          /\ toGame[g] = <<>>
       \/ /\ Cut(peer[g], game[g], toDb[g], toGame[g], lost)
          /\ toGame[g] = <<>> /\ toDb[g] = <<>> /\ b.min \in lost
  <2>1. SyncOf(peer[g], game[g], toDb[g], toGame[g], lost, g \in refused)
    BY DEF IInv, Sync
  <2>2. /\ NoGame.spare = NoRange /\ NewGame.spare = NoRange
    BY NewIs
  <2> QED
    BY <1>1, <1>3, <2>1, <2>2
    DEF SyncOf, Down, Cut, BootAsked, BootAnswered, Agreed, SpareAsked, SpareAnswered
<1>11. Drawing(a, toGame[g]) = Drawn(a)
  BY <1>8, <1>10, UnderWayIs
<1>12. i \notin Drawing(a, toGame[g])
  BY <1>2, <1>7, <1>11
<1>13. /\ toDb' \in [Games -> Seq({"boot", "req"})]
       /\ \A h \in Games \ {g} : toDb'[h] = toDb[h]
       /\ toDb'[g] = IF peer[g].up THEN <<"req">> ELSE <<>>
  <2>1. toDb[g] = <<>> /\ Append(<<>>, "req") = <<"req">>
    BY <1>10 DEF Agreed
  <2>2. <<"req">> \in Seq({"boot", "req"}) /\ <<>> \in Seq({"boot", "req"})
    OBVIOUS
  <2> QED  BY <1>0, <1>1, <2>1, <2>2
<1>14. SyncOf(peer[g], a, toDb'[g], toGame[g], lost, g \in refused)
  <2>1. CASE Agreed(peer[g], game[g], toDb[g], toGame[g], g \in refused)
    <3>1. SpareAsked(peer[g], a, toDb'[g], toGame[g])
      BY <1>1, <1>5, <1>10, <1>13, <2>1 DEF Agreed, SpareAsked
    <3> QED  BY <3>1 DEF SyncOf
  <2>2. CASE Cut(peer[g], game[g], toDb[g], toGame[g], lost) /\ toGame[g] = <<>> /\ b.min \in lost
    <3>1. Cut(peer[g], a, toDb'[g], toGame[g], lost)
      BY <1>3, <1>5, <1>13, <2>2 DEF Cut
    <3> QED  BY <3>1 DEF SyncOf
  <2> QED  BY <1>10, <2>1, <2>2
<1>15. Given(a.main) /\ Given(a.spare) /\ a.cur >= a.main.use
  BY <1>2, <1>5, NoRangeIs DEF Given, i
<1> HIDE DEF b
<1>16. b \in {game[g].main, game[g].spare}
  BY DEF b
<1> QED
  <2>1. /\ UNCHANGED <<list, own, peer, toGame, cache, sql, stale, lost, refused>>
        /\ mem' = [mem EXCEPT ![g] = @ \cup {i}] /\ IsSet(b)
    BY <1>1
  <2>2. /\ Given(game'[g].main) /\ Given(game'[g].spare)
        /\ game'[g].cur >= game'[g].main.use
        /\ SyncOf(peer[g], game'[g], toDb'[g], toGame[g], lost, g \in refused)
        /\ Drawing(game'[g], toGame[g]) \subseteq Drawing(game[g], toGame[g])
        /\ i \notin Drawing(game'[g], toGame[g])
    BY <1>6, <1>9, <1>12, <1>14, <1>15
  <2>3. i \in Issuable(b)
    BY <1>2
  <2> QED
    BY <1>6, <1>13, <1>16, <2>1, <2>2, <2>3, IssueStep

(* The db issues an id of its own range.                                   *)
LEMMA AwardStep ==
    ASSUME IInv, Award
    PROVE  IInv'
<1> DEFINE i == own.use
<1>0. /\ Stock(list) /\ own \in Ranges /\ sql \subseteq Ids
  BY Parts
<1>1. /\ i <= own.max
      /\ sql' = sql \cup {i}
      /\ own' = [own EXCEPT !.use = @ + 1]
      /\ UNCHANGED <<list, peer, game, toDb, toGame, mem, cache, stale, lost, refused>>
  BY DEF Award
<1>2. /\ own.min = OwnMin /\ own.max = OwnMax /\ i \in OwnMin..OwnMax
      /\ OwnMin \in Nat \ {0} /\ OwnMax \in Nat /\ OwnMax <= MaxItemID /\ MaxItemID \in Nat
  BY <1>1, ItemIDRangeAssumption DEF IInv, BlocksOK, Ids
<1>3. /\ own' \in Ranges
      /\ own'.min = OwnMin /\ own'.max = OwnMax /\ own'.use = i + 1
  BY <1>0, <1>1, <1>2 DEF Ranges
<1>4. i \in Ids /\ i \in Nat
  BY <1>2 DEF Ids
<1> HIDE DEF i
<1>5. Alive' \subseteq Alive \cup {i}
  BY <1>1 DEF Alive
<1>6. TypeOK'
  BY <1>0, <1>1, <1>3, <1>4 DEF IInv, TypeOK
<1>7. BlocksOK'
  BY <1>1, <1>2, <1>3 DEF IInv, BlocksOK, Booted
<1>8. Sync'
  BY <1>1 DEF IInv, Sync
<1>9. Apart(list, peer)'
  BY <1>1 DEF IInv
<1>10. Unused'
  <2>1. ASSUME NEW r \in Ranges, Block(r) PROVE i \notin Issuable(r)
    BY <1>2, <2>1, BlockIs
  <2>2. ASSUME NEW j \in DOMAIN list PROVE Clear(Issuable(list[j]), Alive', stale, lost)
    <3>1. Clear(Issuable(list[j]), Alive, stale, lost)
      BY DEF IInv, Unused
    <3>2. i \notin Issuable(list[j])
      BY <1>0, <2>1, StockIs
    <3> QED  BY <1>5, <3>1, <3>2, ClearIssue
  <2>3. Clear(own'.use..own'.max, Alive', stale, lost)
    <3> DEFINE S == own.use..own.max
               T == (i + 1)..OwnMax
    <3>1. Clear(S, Alive, stale, lost)
      BY DEF IInv, Unused
    <3>2. T \subseteq S /\ i \notin T
      BY <1>2, <1>4 DEF i
    <3> HIDE DEF S, T
    <3>3. Clear(T, Alive', stale, lost)
      BY <1>5, <3>1, <3>2, ClearIssue
    <3> QED  BY <1>3, <3>3 DEF T
  <2>4. ASSUME NEW h \in Games PROVE Clear(Drawing(game[h], toGame[h]), Alive', stale, lost)
    <3>1. Clear(Drawing(game[h], toGame[h]), Alive, stale, lost)
      BY DEF IInv, Unused
    <3>2. i \notin Drawing(game[h], toGame[h])
      <4> SUFFICES ASSUME i \in Drawing(game[h], toGame[h]) PROVE FALSE
        OBVIOUS
      <4>1. PICK r \in {game[h].main, game[h].spare} \cup UnderWay(toGame[h]) :
                IsSet(r) /\ i \in Issuable(r)
        BY DrawingFrom
      <4> QED  BY <2>1, <4>1, Noted
    <3> QED  BY <1>5, <3>1, <3>2, ClearIssue
  <2> QED  BY <1>1, <2>2, <2>3, <2>4 DEF Unused
<1> QED  BY <1>6, <1>7, <1>8, <1>9, <1>10 DEF IInv

-----------------------------------------------------------------------------
(* Connections that close, and the db that starts again.                   *)

(* The connection of g is gone, and the game too, or the ranges it has are *)
(* lost.                                                                   *)
LEMMA ClosingStep ==
    ASSUME IInv, NEW g \in Games, OnClose(g), UNCHANGED <<own, sql, refused>>,
           mem' \in [Games -> SUBSET Ids], cache' \subseteq Ids, Alive' \subseteq Alive,
           lost \subseteq lost', lost' \subseteq Nat,
           game' \in [Games -> Processes], \A h \in Games \ {g} : game'[h] = game[h],
           Given(game'[g].main), Given(game'[g].spare),
           game'[g].up /\ IsSet(game'[g].main) => game'[g].cur >= game'[g].main.use,
           SyncOf(NoPeer, game'[g], <<>>, <<>>, lost', g \in refused),
           Clear(Drawing(game'[g], <<>>), Alive', stale, lost')
    PROVE  IInv'
<1> DEFINE b == peer[g].main
           r == BuildRange(b.min, b.max, sql)
<1>0. /\ Stock(list) /\ PeersOK(peer) /\ own \in Ranges
      /\ toDb \in [Games -> Seq({"boot", "req"})]
      /\ toGame \in [Games -> Seq(Seq(Ranges))]
      /\ sql \in SUBSET Nat /\ Alive \subseteq Ids /\ stale \subseteq Ids
  BY Parts
<1>1. /\ list' = IF IsSet(r) THEN Append(list, r) ELSE list
      /\ stale' = stale \cup IF IsSet(r) THEN (Alive' \ sql) \cap IdsOf(r) ELSE {}
      /\ peer' = [peer EXCEPT ![g] = NoPeer]
      /\ toDb' = [toDb EXCEPT ![g] = <<>>]
      /\ toGame' = [toGame EXCEPT ![g] = <<>>]
  BY DEF OnClose
<1>2. b \in Ranges /\ Given(b)
  BY <1>0 DEF PeersOK, Peers
<1>3. r \in Ranges /\ (IsSet(r) => Block(r) /\ r.min = b.min /\ IdsOf(r) \cap sql = {})
  <2>1. CASE b = NoRange
    <3>1. b.min = 0 /\ b.max = 0
      BY <2>1 DEF NoRange
    <3>2. r = NoRange
      BY <1>0, <3>1, NothingReturns
    <3> QED  BY <3>2, NoRangeIs
  <2>2. CASE Block(b)
    <3>1. \/ r = NoRange
          \/ /\ r \in Ranges /\ r.min = b.min /\ r.max = b.max
             /\ r.use \in b.min..(b.max - 1)
             /\ (r.use..r.max) \cap sql = {}
      <4>1. b.min \in Nat /\ b.max \in Nat
        BY <1>2 DEF Ranges
      <4> HIDE DEF b
      <4> QED  BY <1>0, <4>1, BuildRangeIs
    <3> HIDE DEF r, b
    <3>2. ASSUME r # NoRange PROVE Block(r)
      BY <2>2, <3>1, <3>2 DEF Block
    <3> QED  BY <3>1, <3>2, NoRangeIs DEF IdsOf
  <2> QED  BY <1>2, <2>1, <2>2 DEF Given
<1> HIDE DEF r
<1>4. /\ NoPeer \in [up : BOOLEAN, main : Ranges, spare : Ranges]
      /\ NoPeer.main = NoRange /\ NoPeer.spare = NoRange
  BY NewIs
<1>5. /\ peer' \in Peers /\ peer'[g] = NoPeer
      /\ toDb' \in [Games -> Seq({"boot", "req"})] /\ toDb'[g] = <<>>
      /\ toGame' \in [Games -> Seq(Seq(Ranges))] /\ toGame'[g] = <<>>
  <2>1. <<>> \in Seq({"boot", "req"}) /\ <<>> \in Seq(Seq(Ranges))
    OBVIOUS
  <2>2. peer' \in Peers /\ peer'[g] = NoPeer
    BY <1>0, <1>1, <1>4 DEF PeersOK, Peers
  <2>3. toDb' \in [Games -> Seq({"boot", "req"})] /\ toDb'[g] = <<>>
    BY <1>0, <1>1, <2>1
  <2>4. toGame' \in [Games -> Seq(Seq(Ranges))] /\ toGame'[g] = <<>>
    BY <1>0, <1>1, <2>1
  <2> QED  BY <2>2, <2>3, <2>4
<1>6. Elsewhere(g)
  BY <1>0, <1>1 DEF Elsewhere, PeersOK, Peers
<1>7. /\ Stock(list')
      /\ \A j \in DOMAIN list' : \/ \E k \in DOMAIN list : list'[j] = list[k]
                                 \/ IsSet(r) /\ list'[j] = r
  <2>1. CASE IsSet(r)
    <3>1. /\ Stock(Append(list, r))
          /\ Len(list) \in Nat /\ DOMAIN list = 1..Len(list)
          /\ DOMAIN Append(list, r) = 1..(Len(list) + 1)
          /\ \A j \in 1..Len(list) : Append(list, r)[j] = list[j]
          /\ Append(list, r)[Len(list) + 1] = r
      BY <1>0, <1>3, <2>1, StockAppend
    <3>2. list' = Append(list, r)
      BY <1>1, <2>1
    <3>3. ASSUME NEW j \in DOMAIN list', j # Len(list) + 1
          PROVE  \E k \in DOMAIN list : list'[j] = list[k]
      <4>1. j \in 1..Len(list)
        BY <3>1, <3>2, <3>3
      <4> QED  BY <3>1, <3>2, <4>1
    <3> QED  BY <2>1, <3>1, <3>2, <3>3
  <2>2. CASE ~IsSet(r)
    BY <1>0, <1>1, <2>2
  <2> QED  BY <2>1, <2>2
<1>8. TypeOK'
  <2>1. stale' \subseteq Ids
    BY <1>0, <1>1
  <2> QED  BY <1>0, <1>5, <1>7, <2>1 DEF IInv, TypeOK, Stock, Peers, Processes
<1>9. BlocksOK'
  BY <1>4, <1>5, <1>6, <1>7, BlocksStep, NoRangeIs DEF IInv, BlocksOK
<1>10. Sync'
  BY <1>5, <1>6, SyncStep DEF IInv
<1>11. Apart(list, peer)'
  <2>1. CASE IsSet(r)
    BY <1>0, <1>1, <1>3, <2>1, ReturnApart DEF IInv
  <2>2. CASE ~IsSet(r)
    BY <1>0, <1>1, <2>2, NoReturnApart DEF IInv
  <2> QED  BY <2>1, <2>2
<1>12. Unused'
  <2>1. ASSUME IsSet(r) PROVE Clear(Issuable(r), Alive', stale', lost')
    <3>1. Issuable(r) \subseteq IdsOf(r)
      BY <1>3 DEF Issuable, IdsOf, Ranges
    <3>2. Issuable(r) \cap Alive' \subseteq stale'
      BY <1>1, <1>3, <2>1, <3>1
    <3> QED  BY <3>2 DEF Clear
  <2>2. stale \subseteq stale'
    BY <1>1
  <2>3. Clear(Drawing(game'[g], toGame'[g]), Alive', stale', lost')
    BY <1>5, <2>2, ClearLess
  <2> QED  BY <1>6, <1>7, <2>1, <2>2, <2>3, UnusedStep DEF IInv
<1> QED  BY <1>8, <1>9, <1>10, <1>11, <1>12 DEF IInv

(* The process of g ends.                                                  *)
LEMMA StoppedStep ==
    ASSUME IInv, NEW g \in Games, NEW keep \in {{}, mem[g]}, Stopped(g, keep)
    PROVE  IInv'
<1>0. /\ game \in [Games -> Processes] /\ mem \in [Games -> SUBSET Ids]
      /\ cache \subseteq Ids /\ lost \subseteq Nat
  BY Parts
<1>1. /\ game' = [game EXCEPT ![g] = NoGame]
      /\ mem' = [mem EXCEPT ![g] = {}]
      /\ cache' = cache \cup keep
      /\ UNCHANGED <<own, sql, lost, refused>>
      /\ OnClose(g)
  BY DEF Stopped
<1>2. NoGame \in Processes /\ NoGame.main = NoRange /\ NoGame.spare = NoRange /\ ~NoGame.up
  BY NewIs
<1>3. /\ game' \in [Games -> Processes] /\ game'[g] = NoGame
      /\ \A h \in Games \ {g} : game'[h] = game[h]
  BY <1>0, <1>1, <1>2
<1>4. mem' \in [Games -> SUBSET Ids] /\ \A h \in Games : mem'[h] \subseteq mem[h]
  BY <1>0, <1>1
<1>5. keep \subseteq mem[g] /\ cache' \subseteq Ids
  BY <1>0, <1>1
<1>6. Alive' \subseteq Alive
  BY <1>1, <1>4, <1>5 DEF Alive
<1>7. SyncOf(NoPeer, game'[g], <<>>, <<>>, lost', g \in refused)
  BY <1>3 DEF SyncOf, Down
<1>8. Clear(Drawing(game'[g], <<>>), Alive', stale, lost')
  <2>1. Drawn(NoGame) = {} /\ Issuable(NoGame.spare) = {}
    BY <1>2, NoRangeIs DEF Drawn
  <2>2. Clear({}, Alive', stale, lost')
    BY ClearNone
  <2> QED  BY <1>3, <2>1, <2>2, UnderWayIs, DrawingClear
<1>9. Given(game'[g].main) /\ Given(game'[g].spare) /\ ~game'[g].up
  BY <1>2, <1>3, NoRangeIs
<1> QED
  BY <1>0, <1>1, <1>3, <1>4, <1>5, <1>6, <1>7, <1>8, <1>9, ClosingStep

LEMMA LostStep ==
    ASSUME IInv, NEW g \in Games, ConnectionLost(g)
    PROVE  IInv'
<1>0. /\ game \in [Games -> Processes] /\ mem \in [Games -> SUBSET Ids]
      /\ cache \subseteq Ids /\ lost \subseteq Nat
  BY Parts
<1>1. /\ game[g].up
      /\ UNCHANGED <<own, game, items, refused>>
      /\ lost' = lost \cup Held(g)
      /\ OnClose(g)
  BY DEF ConnectionLost
<1>2. Held(g) \subseteq Nat
  BY <1>0 DEF Held, Processes, Ranges
<1>3. Alive' = Alive
  BY <1>1, SameItems
<1>4. /\ IsSet(game[g].main) => game[g].main.min \in lost'
      /\ IsSet(game[g].spare) => game[g].spare.min \in lost'
  BY <1>1 DEF Held
<1>5. SyncOf(NoPeer, game'[g], <<>>, <<>>, lost', g \in refused)
  BY <1>1, <1>4, NewIs DEF SyncOf, Cut
<1>6. /\ Given(game[g].main) /\ Given(game[g].spare)
      /\ game[g].up /\ IsSet(game[g].main) => game[g].cur >= game[g].main.use
  BY DEF IInv, BlocksOK, Booted
<1>7. Clear(Drawing(game'[g], <<>>), Alive', stale, lost')
  <2>1. Clear(Drawing(game[g], toGame[g]), Alive, stale, lost)
    BY DEF IInv, Unused
  <2>2. Drawing(game[g], <<>>) \subseteq Drawing(game[g], toGame[g])
    BY UnderWayIs DEF Drawing
  <2>3. lost \subseteq lost'
    BY <1>1
  <2> QED  BY <1>1, <1>3, <2>1, <2>2, <2>3, ClearLess
<1>8. UNCHANGED <<mem, cache, sql>>
  BY <1>1 DEF items
<1> QED
  BY <1>0, <1>1, <1>2, <1>3, <1>5, <1>6, <1>7, <1>8, ClosingStep

(* The ids of a range that is lost are excused.                            *)
LEMMA LostClear ==
    ASSUME NEW r \in Ranges, Given(r), NEW A, NEW st, NEW lo, IsSet(r) => r.min \in lo
    PROVE  Clear(Issuable(r), A, st, lo)
<1>1. CASE IsSet(r)
  <2>1. Block(r)
    BY <1>1, GivenIs
  <2> QED  BY <1>1, <2>1, LostForgiven DEF Clear, Forgiven
<1>2. CASE ~IsSet(r)
  BY <1>2, GivenIs, NoRangeIs, ClearNone
<1> QED  BY <1>1, <1>2

(* What the db finds when it starts with the table rows: nothing of it is  *)
(* in use, but for the ids that are not in the table.                      *)
LEMMA Started ==
    ASSUME NEW rows \in SUBSET Ids, NEW A, NEW st, NEW lo, A \subseteq rows \cup st,
           IsSet(BuildRange(OwnMin, OwnMax, rows))
    PROVE  LET l == Build(rows)
               o == BuildRange(OwnMin, OwnMax, rows)
           IN /\ Stock(l) /\ \A j \in DOMAIN l : Clear(Issuable(l[j]), A, st, lo)
              /\ Apart(l, [g \in Games |-> NoPeer])
              /\ o \in Ranges /\ o.min = OwnMin /\ o.max = OwnMax
              /\ o.use \in OwnMin..(OwnMax + 1)
              /\ Clear(o.use..o.max, A, st, lo)
<1> DEFINE l == Build(rows)
           o == BuildRange(OwnMin, OwnMax, rows)
           p == [g \in Games |-> NoPeer]
<1>0. rows \in SUBSET Nat /\ OwnMin \in Nat /\ OwnMax \in Nat
  BY ItemIDRangeAssumption DEF Ids
<1>1. Built(l, NBuild, rows)
  BY <1>0, BuildIs
<1>2. /\ o \in Ranges /\ o.min = OwnMin /\ o.max = OwnMax
      /\ o.use \in OwnMin..(OwnMax - 1)
      /\ (o.use..o.max) \cap rows = {}
  <2>1. o # NoRange
    BY NoRangeIs
  <2> QED  BY <1>0, <2>1, BuildRangeIs
<1> HIDE DEF l, o
<1>3. Stock(l)
  BY <1>1 DEF Built
<1>4. \A j \in DOMAIN l : Clear(Issuable(l[j]), A, st, lo)
  BY <1>1 DEF Built, Clear
<1>5. o.use \in OwnMin..(OwnMax + 1) /\ Clear(o.use..o.max, A, st, lo)
  <2>1. o.use \in OwnMin..(OwnMax + 1)
    BY <1>0, <1>2
  <2> DEFINE S == o.use..o.max
  <2>2. S \cap rows = {}
    BY <1>2
  <2> HIDE DEF S
  <2>3. Clear(S, A, st, lo)
    BY <2>2 DEF Clear
  <2> QED  BY <2>1, <2>3 DEF S
<1>6. \A g \in Games : p[g].main = NoRange /\ p[g].spare = NoRange
  BY NewIs
<1> HIDE DEF p
<1>7. /\ ~IsSet(NoRange) /\ NoRange.min = 0
      /\ \A j \in DOMAIN l : l[j].min # 0
  BY <1>3, NoRangeIs, StockIs
<1>8. \A j \in DOMAIN l : \A k \in DOMAIN l : j # k => l[j].min # l[k].min
  BY <1>1 DEF Built
<1>9. \A j \in DOMAIN l, g \in Games : l[j].min # p[g].main.min /\ l[j].min # p[g].spare.min
  BY <1>6, <1>7
<1>10. Apart(l, p)
  BY <1>6, <1>7, <1>8, <1>9 DEF Apart
<1> QED  BY <1>2, <1>3, <1>4, <1>5, <1>10 DEF l, o, p

LEMMA RestartStep ==
    ASSUME IInv, NEW written \in {{}, cache}, DbRestart(written)
    PROVE  IInv'
<1>0. /\ game \in [Games -> Processes] /\ mem \in [Games -> SUBSET Ids]
      /\ cache \subseteq Ids /\ sql \subseteq Ids /\ lost \subseteq Nat
      /\ stale \subseteq Ids /\ refused \subseteq Games
  BY Parts
<1>1. /\ sql' = sql \cup written /\ cache' = {}
      /\ own' = BuildRange(OwnMin, OwnMax, sql') /\ IsSet(own')
      /\ list' = Build(sql')
      /\ UNCHANGED <<game, mem, refused>>
      /\ stale' = stale \cup (Alive' \ sql')
      /\ lost' = lost \cup UNION {Held(g) : g \in Games}
      /\ peer' = [g \in Games |-> NoPeer]
      /\ toDb' = [g \in Games |-> <<>>] /\ toGame' = [g \in Games |-> <<>>]
  BY DEF DbRestart
<1>2. sql' \in SUBSET Ids
  BY <1>0, <1>1
<1>3. Alive' \subseteq Ids
  <2>1. \A g \in Games : mem'[g] \subseteq Ids
    BY <1>0, <1>1
  <2> QED  BY <1>1, <1>2, <2>1 DEF Alive
<1>4. Alive' \subseteq sql' \cup stale'
  BY <1>1
<1>5. /\ Stock(list') /\ \A j \in DOMAIN list' : Clear(Issuable(list'[j]), Alive', stale', lost')
      /\ Apart(list', peer')
      /\ own' \in Ranges /\ own'.min = OwnMin /\ own'.max = OwnMax
      /\ own'.use \in OwnMin..(OwnMax + 1)
      /\ Clear(own'.use..own'.max, Alive', stale', lost')
  <2>1. IsSet(BuildRange(OwnMin, OwnMax, sql'))
    BY <1>1
  <2> QED  BY <1>1, <1>2, <1>4, <2>1, Started
<1>6. lost' \subseteq Nat /\ \A g \in Games : Held(g) \subseteq lost'
  <2>1. \A g \in Games : Held(g) \subseteq Nat
    BY <1>0 DEF Held, Processes, Ranges
  <2> QED  BY <1>0, <1>1, <2>1
<1>7. NoPeer \in [up : BOOLEAN, main : Ranges, spare : Ranges]
      /\ NoPeer.main = NoRange /\ NoPeer.spare = NoRange
  BY NewIs
<1>8. \A g \in Games : peer'[g] = NoPeer /\ toDb'[g] = <<>> /\ toGame'[g] = <<>>
  BY <1>1
<1>9. TypeOK'
  <2>1. <<>> \in Seq({"boot", "req"}) /\ <<>> \in Seq(Seq(Ranges))
    OBVIOUS
  <2>2. /\ toDb' \in [Games -> Seq({"boot", "req"})] /\ toGame' \in [Games -> Seq(Seq(Ranges))]
        /\ peer' \in [Games -> [up : BOOLEAN, main : Ranges, spare : Ranges]]
    BY <1>1, <1>7, <2>1
  <2>3. stale' \subseteq Ids
    BY <1>0, <1>1, <1>3
  <2> QED  BY <1>0, <1>1, <1>2, <1>5, <1>6, <2>2, <2>3 DEF TypeOK, Stock, Processes
<1>10. \A g \in Games : /\ Given(game[g].main) /\ Given(game[g].spare)
                        /\ game[g].up /\ IsSet(game[g].main) => game[g].cur >= game[g].main.use
  BY DEF IInv, BlocksOK, Booted
<1>11. BlocksOK'
  BY <1>1, <1>5, <1>7, <1>8, <1>10, NoRangeIs DEF BlocksOK, Stock, Booted
<1>12. ASSUME NEW g \in Games
       PROVE  /\ IsSet(game[g].main) => game[g].main.min \in lost'
              /\ IsSet(game[g].spare) => game[g].spare.min \in lost'
  BY <1>6 DEF Held
<1>13. Sync'
  <2>1. ASSUME NEW g \in Games
        PROVE  SyncOf(peer'[g], game'[g], toDb'[g], toGame'[g], lost', g \in refused')
    <3>1. CASE game[g].up
      <4>1. Cut(peer'[g], game'[g], toDb'[g], toGame'[g], lost')
        BY <1>1, <1>7, <1>8, <1>12, <3>1 DEF Cut
      <4> QED  BY <4>1 DEF SyncOf
    <3>2. CASE ~game[g].up
      <4>1. game[g] = NoGame
        BY <3>2, NewIs
        DEF IInv, Sync, SyncOf, Down, Cut, BootAsked, BootAnswered, Agreed, SpareAsked, SpareAnswered
      <4>2. Down(peer'[g], game'[g], toDb'[g], toGame'[g])
        BY <1>1, <1>8, <4>1 DEF Down
      <4> QED  BY <4>2 DEF SyncOf
    <3> QED  BY <3>1, <3>2
  <2> QED  BY <2>1 DEF Sync
<1>14. Unused'
  <2>1. ASSUME NEW g \in Games PROVE Clear(Drawing(game[g], <<>>), Alive', stale', lost')
    <3>1. /\ Clear(Issuable(game[g].main), Alive', stale', lost')
          /\ Clear(Issuable(game[g].spare), Alive', stale', lost')
      BY <1>0, <1>10, <1>12, LostClear DEF Processes
    <3>2. Drawn(game[g]) \subseteq Issuable(game[g].main)
      BY <1>0, <1>10 DEF Drawn, Issuable, Processes, Ranges
    <3>3. Clear(Drawn(game[g]), Alive', stale', lost')
      BY <3>1, <3>2, ClearLess
    <3> QED  BY <3>1, <3>3, UnderWayIs, DrawingClear
  <2> QED  BY <1>1, <1>5, <1>8, <2>1 DEF Unused
<1> QED  BY <1>5, <1>9, <1>11, <1>13, <1>14 DEF IInv

-----------------------------------------------------------------------------
(* The invariant.                                                          *)

LEMMA FirstState == ASSUME Init PROVE IInv
<1>1. /\ list = Build(Rows) /\ own = BuildRange(OwnMin, OwnMax, Rows) /\ IsSet(own)
      /\ peer = [g \in Games |-> NoPeer]
      /\ game = [g \in Games |-> NoGame]
      /\ toDb = [g \in Games |-> <<>>] /\ toGame = [g \in Games |-> <<>>]
      /\ mem = [g \in Games |-> {}] /\ cache = {} /\ sql = Rows
      /\ stale = {} /\ lost = {} /\ refused = {}
  BY DEF Init
<1>2. Rows \in SUBSET Ids
  BY ItemIDRangeAssumption
<1>3. Alive \subseteq sql \cup stale
  BY <1>1 DEF Alive
<1>4. /\ Stock(list) /\ \A j \in DOMAIN list : Clear(Issuable(list[j]), Alive, stale, lost)
      /\ Apart(list, peer)
      /\ own \in Ranges /\ own.min = OwnMin /\ own.max = OwnMax
      /\ own.use \in OwnMin..(OwnMax + 1)
      /\ Clear(own.use..own.max, Alive, stale, lost)
  <2>1. IsSet(BuildRange(OwnMin, OwnMax, Rows)) /\ Alive \subseteq Rows \cup stale
    BY <1>1, <1>3
  <2> QED  BY <1>1, <1>2, <2>1, Started
<1>5. /\ NoPeer \in [up : BOOLEAN, main : Ranges, spare : Ranges]
      /\ NoPeer.main = NoRange /\ NoPeer.spare = NoRange
      /\ NoGame \in Processes /\ ~NoGame.up
      /\ NoGame.main = NoRange /\ NoGame.spare = NoRange
  BY NewIs
<1>6. \A g \in Games : /\ peer[g] = NoPeer /\ game[g] = NoGame
                       /\ toDb[g] = <<>> /\ toGame[g] = <<>>
  BY <1>1
<1>7. TypeOK
  <2>1. <<>> \in Seq({"boot", "req"}) /\ <<>> \in Seq(Seq(Ranges))
    OBVIOUS
  <2>2. /\ toDb \in [Games -> Seq({"boot", "req"})] /\ toGame \in [Games -> Seq(Seq(Ranges))]
        /\ peer \in [Games -> [up : BOOLEAN, main : Ranges, spare : Ranges]]
        /\ game \in [Games -> Processes]
    BY <1>1, <1>5, <2>1
  <2>3. mem \in [Games -> SUBSET Ids] /\ cache \subseteq Ids /\ sql \subseteq Ids
    BY <1>1, <1>2
  <2> QED  BY <1>1, <1>4, <2>2, <2>3 DEF TypeOK, Stock, Processes
<1>8. BlocksOK
  BY <1>4, <1>5, <1>6, NoRangeIs DEF BlocksOK, Stock, Booted
<1>9. Sync
  BY <1>6 DEF Sync, SyncOf, Down
<1>10. Unused
  <2>1. Drawn(NoGame) = {} /\ Issuable(NoGame.spare) = {}
    BY <1>5, NoRangeIs DEF Drawn
  <2>2. Clear({}, Alive, stale, lost)
    BY ClearNone
  <2>3. Clear(Drawing(NoGame, <<>>), Alive, stale, lost)
    BY <2>1, <2>2, UnderWayIs, DrawingClear
  <2> QED  BY <1>4, <1>6, <2>3 DEF Unused
<1> QED  BY <1>4, <1>7, <1>8, <1>9, <1>10 DEF IInv

LEMMA Idle == ASSUME IInv, UNCHANGED vars PROVE IInv'
<1>1. /\ UNCHANGED <<list, own, peer, game, toDb, toGame, stale, lost, refused>>
      /\ UNCHANGED items
  BY DEF vars, items
<1>2. Alive' = Alive
  BY <1>1, SameItems
<1>3. mem' \in [Games -> SUBSET Ids] /\ cache' \subseteq Ids /\ sql' \subseteq Ids
  BY <1>1, Parts DEF items
<1> QED  BY <1>1, <1>2, <1>3, FewerStep

LEMMA GameSteps ==
    ASSUME IInv, NEW g \in Games, GameStep(g)
    PROVE  IInv'
<1>1. CASE DbBoot(g)
  BY <1>1, BootStep
<1>2. CASE DbRequest(g)
  BY <1>2, RequestStep
<1>3. CASE GameStart(g)
  BY <1>3, StartStep
<1>4. CASE GameBoot(g)
  <2>1. CASE IsSet(Head(toGame[g])[1]) /\ IsSet(Head(toGame[g])[2])
    BY <1>4, <2>1, BootedStep
  <2>2. CASE ~(IsSet(Head(toGame[g])[1]) /\ IsSet(Head(toGame[g])[2]))
    <3>1. Stopped(g, {})
      BY <1>4, <2>2 DEF GameBoot
    <3> QED  BY <3>1, StoppedStep
  <2> QED  BY <2>1, <2>2
<1>5. CASE GameSpare(g)
  BY <1>5, SpareStep
<1>6. CASE GetNewID(g)
  BY <1>6, NewIDStep
<1>7. CASE SwitchRange(g)
  BY <1>7, SwitchStep
<1>8. CASE RunDry(g)
  <2>1. Stopped(g, IF peer[g].up THEN mem[g] ELSE {})
    BY <1>8 DEF RunDry
  <2>2. CASE peer[g].up
    BY <2>1, <2>2, StoppedStep
  <2>3. CASE ~peer[g].up
    BY <2>1, <2>3, StoppedStep
  <2> QED  BY <2>2, <2>3
<1>9. CASE ConnectionLost(g)
  BY <1>9, LostStep
<1>10. CASE Reconnect(g)
  BY <1>10, ReconnectStep
<1>11. ASSUME NEW keep \in {{}, mem[g]}, GameStop(g, keep) PROVE IInv'
  BY <1>11, StoppedStep DEF GameStop
<1> QED
  BY <1>1, <1>2, <1>3, <1>4, <1>5, <1>6, <1>7, <1>8, <1>9, <1>10, <1>11 DEF GameStep

(* It holds in every state.                                                *)
LEMMA Invariant == Spec => []IInv
<1>1. Init => IInv
  BY FirstState
<1>2. IInv /\ [Next]_vars => IInv'
  <2> SUFFICES ASSUME IInv, [Next]_vars PROVE IInv'
    OBVIOUS
  <2>1. CASE UNCHANGED vars
    BY <2>1, Idle
  <2>2. ASSUME NEW g \in Games, GameStep(g) PROVE IInv'
    BY <2>2, GameSteps
  <2>3. CASE Award
    BY <2>3, AwardStep
  <2>4. ASSUME NEW written \in {{}, cache}, DbRestart(written) PROVE IInv'
    BY <2>4, RestartStep
  <2>5. CASE ItemStep
    BY <2>5, ItemsStep
  <2> QED  BY <2>1, <2>2, <2>3, <2>4, <2>5 DEF Next
<1> QED  BY <1>1, <1>2, PTL DEF Spec

-----------------------------------------------------------------------------
(* The theorems.                                                           *)

(* Every part of the state has its type.                                   *)
THEOREM TypeCorrect == Spec => []TypeOK
<1>1. IInv => TypeOK
  BY DEF IInv
<1> QED  BY <1>1, Invariant, PTL

(* No range is in m_listData and noted for a game at once, or twice in     *)
(* either, and none reaches into the range of the db.                      *)
THEOREM RangesGivenOnce == Spec => []GivenOnce
<1>1. IInv => GivenOnce
  <2> SUFFICES ASSUME IInv PROVE GivenOnce
    OBVIOUS
  <2>1. /\ Stock(list) /\ PeersOK(peer)
    BY Parts
  <2>2. Apart(list, peer)
    BY DEF IInv
  <2>3. own.min = OwnMin /\ own.max = OwnMax
    BY DEF IInv, BlocksOK
  <2>4. \A j \in DOMAIN list : Issuable(list[j]) \cap (own.min..own.max) = {}
    BY <2>1, <2>3, StockIs, BlockIs
  <2>5. \A g \in Games : PeerRanges(g)[1] = peer[g].main /\ PeerRanges(g)[2] = peer[g].spare
    BY DEF PeerRanges
  <2>6. ASSUME NEW j \in DOMAIN list
        PROVE  /\ \A k \in DOMAIN list : j # k => list[j].min # list[k].min
               /\ \A g \in Games, k \in 1..2 : list[j].min # PeerRanges(g)[k].min
    BY <2>2, <2>5 DEF Apart
  <2>7. \A g \in Games : /\ IsSet(peer[g].main) => peer[g].main.min # 0
                         /\ IsSet(peer[g].spare) => peer[g].spare.min # 0
                         /\ ~IsSet(peer[g].main) => peer[g].main.min = 0
    BY <2>1, GivenIs, NoRangeIs DEF PeersOK, Peers
  <2>8. ASSUME NEW g \in Games, NEW h \in Games, NEW j \in 1..2, NEW k \in 1..2,
               <<g, j>> # <<h, k>>, IsSet(PeerRanges(g)[j])
        PROVE  PeerRanges(g)[j].min # PeerRanges(h)[k].min
    <3>1. /\ IsSet(peer[g].main) => peer[g].main.min # peer[g].spare.min
          /\ h # g =>
                /\ IsSet(peer[g].main) => peer[g].main.min \notin {peer[h].main.min, peer[h].spare.min}
                /\ IsSet(peer[g].spare) => peer[g].spare.min \notin {peer[h].main.min, peer[h].spare.min}
      BY <2>2 DEF Apart
    <3>2. CASE g # h
      BY <2>5, <2>8, <3>1, <3>2
    <3>3. CASE g = h
      <4>1. (j = 1 /\ k = 2) \/ (j = 2 /\ k = 1)
        BY <2>8, <3>3
      <4> QED  BY <2>5, <2>7, <2>8, <3>1, <3>3, <4>1
    <3> QED  BY <3>2, <3>3
  <2> QED  BY <2>4, <2>6, <2>8 DEF GivenOnce
<1> QED  BY <1>1, Invariant, PTL

(* What a game draws on is noted in its CPeer, or lost.                    *)
THEOREM RangesNoted == Spec => []HeldIsNoted
<1>1. IInv => HeldIsNoted
  <2> SUFFICES ASSUME IInv, NEW g \in Games, NEW x \in Held(g)
               PROVE  x \in {peer[g].main.min, peer[g].spare.min} \cup lost
    BY DEF HeldIsNoted
  <2>1. PICK r \in {game[g].main, game[g].spare} : IsSet(r) /\ x = r.min
    BY DEF Held
  <2> QED  BY <2>1, Noted
<1> QED  BY <1>1, Invariant, PTL

(* A game without a spare range awaits one, was refused, or was cut off.   *)
THEOREM SpareComes == Spec => []SpareOnItsWay
<1>1. IInv => SpareOnItsWay
  <2> SUFFICES ASSUME IInv, NEW g \in Games, Booted(g), ~IsSet(game[g].spare)
               PROVE  \/ toDb[g] # <<>> \/ toGame[g] # <<>>
                      \/ g \in refused \/ game[g].main.min \in lost
    BY DEF SpareOnItsWay
  <2>1. SyncOf(peer[g], game[g], toDb[g], toGame[g], lost, g \in refused)
    BY DEF IInv, Sync
  <2> QED
    BY <2>1, NewIs
    DEF Booted, SyncOf, Down, Cut, BootAsked, BootAnswered, Agreed, SpareAsked, SpareAnswered
<1> QED  BY <1>1, Invariant, PTL

(* No id is issued that an item has, but for the two excuses.              *)
THEOREM IdsAreFresh == Spec => FreshId
<1> DEFINE A == /\ \A g \in Games : /\ GetNewID(g) => Fresh(game[g].cur)
                                    /\ SwitchRange(g) => Fresh(game[g].spare.use)
                /\ Award => Fresh(own.use)
<1>1. IInv => A
  <2> SUFFICES ASSUME IInv PROVE A
    OBVIOUS
  <2>1. ASSUME NEW S, Clear(S, Alive, stale, lost), NEW i \in S PROVE Fresh(i)
    BY <2>1 DEF Clear, Fresh, Excused
  <2>2. ASSUME NEW g \in Games, GetNewID(g) PROVE Fresh(game[g].cur)
    <3>1. game[g].cur \in Nat /\ game[g].main.max \in Nat
      BY Parts DEF Processes, Ranges
    <3>2. game[g].cur \in Drawn(game[g])
      BY <2>2, <3>1 DEF GetNewID, Booted, Drawn
    <3>3. Clear(Drawing(game[g], toGame[g]), Alive, stale, lost)
      BY DEF IInv, Unused
    <3> QED  BY <2>1, <3>2, <3>3, DrawingParts
  <2>3. ASSUME NEW g \in Games, SwitchRange(g) PROVE Fresh(game[g].spare.use)
    <3>1. IsSet(game[g].spare)
      BY <2>3 DEF SwitchRange
    <3>2. game[g].spare \in Ranges /\ Block(game[g].spare)
      BY <3>1, Noted
    <3>3. game[g].spare.use \in Issuable(game[g].spare)
      BY <3>2, BlockIs
    <3>4. Clear(Drawing(game[g], toGame[g]), Alive, stale, lost)
      BY DEF IInv, Unused
    <3> QED  BY <2>1, <3>3, <3>4, DrawingParts
  <2>4. ASSUME Award PROVE Fresh(own.use)
    <3>1. own.use \in Nat /\ own.max \in Nat /\ own.use <= own.max
      BY <2>4, Parts DEF Award, Ranges
    <3>2. own.use \in own.use..own.max
      BY <3>1
    <3>3. Clear(own.use..own.max, Alive, stale, lost)
      BY DEF IInv, Unused
    <3> QED  BY <2>1, <3>2, <3>3
  <2> QED  BY <2>2, <2>3, <2>4
<1> HIDE DEF A
<1>2. IInv /\ [Next]_vars => [A]_vars
  BY <1>1
<1>3. Spec => [][A]_vars
  BY <1>2, Invariant, PTL DEF Spec
<1> QED  BY <1>3 DEF FreshId, A
=============================================================================

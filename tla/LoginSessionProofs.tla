------------------------- MODULE LoginSessionProofs -------------------------
(***************************************************************************)
(* Proofs about LoginSession, for any number of game processes, client     *)
(* descriptors, authentications and lost connections.                      *)
(*                                                                         *)
(* The account's sessions hang together by what is under way: a login is   *)
(* asked for once per descriptor, an answer goes to the game whose         *)
(* descriptor asked, and each packet kind finds its descriptor in a phase  *)
(* in which the answer does no harm.  The inductive invariant, IInv, says  *)
(* so; that the logon entry is released by exactly one token follows step  *)
(* by step from it.                                                        *)
(***************************************************************************)
EXTENDS LoginSession, SequenceTheorems, FiniteSetTheorems, TLAPS

-----------------------------------------------------------------------------
(* Packets in a queue.                                                     *)

(* Where packets of S are in the queue q; whether there is at most one.    *)
In(q, S) == {i \in DOMAIN q : q[i] \in S}
Few(A)   == \A x, y \in A : x = y

LEMMA InAppend ==
    ASSUME NEW T, NEW q \in Seq(T), NEW m \in T, NEW S
    PROVE  /\ Append(q, m) \in Seq(T)
           /\ m \notin S => In(Append(q, m), S) = In(q, S)
           /\ m \in S => In(Append(q, m), S) = In(q, S) \cup {Len(q) + 1}
<1>1. /\ Append(q, m) \in Seq(T) /\ Len(Append(q, m)) = Len(q) + 1
      /\ \A i \in 1..Len(q) : Append(q, m)[i] = q[i]
      /\ Append(q, m)[Len(q) + 1] = m
  BY AppendProperties
<1>2. Len(q) \in Nat /\ DOMAIN q = 1..Len(q) /\ DOMAIN Append(q, m) = 1..(Len(q) + 1)
  BY <1>1, LenProperties
<1>3. 1..(Len(q) + 1) = 1..Len(q) \cup {Len(q) + 1}
  BY <1>2
<1> QED  BY <1>1, <1>2, <1>3 DEF In

(* The queue without its head.                                             *)
LEMMA InTail ==
    ASSUME NEW T, NEW q \in Seq(T), q # <<>>, NEW S
    PROVE  /\ Tail(q) \in Seq(T) /\ Head(q) \in T /\ Head(q) = q[1] /\ 1 \in DOMAIN q
           /\ \A i \in In(Tail(q), S) : i + 1 \in In(q, S)
           /\ Few(In(q, S)) => Few(In(Tail(q), S))
           /\ In(q, S) = {} => In(Tail(q), S) = {}
           /\ Head(q) \notin S /\ In(Tail(q), S) = {} => In(q, S) = {}
           /\ Head(q) \in S => In(q, S) # {} /\ (Few(In(q, S)) => In(Tail(q), S) = {})
<1>1. /\ Head(q) \in T /\ Tail(q) \in Seq(T) /\ Len(Tail(q)) = Len(q) - 1
      /\ \A i \in 1..Len(Tail(q)) : Tail(q)[i] = q[i + 1]
  BY HeadTailProperties
<1>2. Len(q) \in Nat \ {0} /\ DOMAIN q = 1..Len(q) /\ Head(q) = q[1]
  BY EmptySeq, LenProperties
<1>3. DOMAIN Tail(q) = 1..(Len(q) - 1)
  BY <1>1, <1>2, LenProperties
<1>4. \A i \in In(Tail(q), S) : i \in Nat \ {0} /\ i + 1 \in In(q, S)
  BY <1>1, <1>2, <1>3 DEF In
<1>5. \A i \in In(q, S) : i # 1 => i - 1 \in In(Tail(q), S)
  BY <1>1, <1>2, <1>3 DEF In
<1>6. \A i \in In(q, S) : i \in Nat
  BY <1>2 DEF In
<1>7. 1 \in DOMAIN q
  BY <1>2
<1>8. Few(In(q, S)) => Few(In(Tail(q), S))
  BY <1>4 DEF Few
<1>9. In(q, S) = {} => In(Tail(q), S) = {}
  BY <1>4
<1>10. Head(q) \notin S => 1 \notin In(q, S)
  BY <1>2 DEF In
<1>11. Head(q) \in S => 1 \in In(q, S)
  BY <1>2, <1>7 DEF In
<1>12. ASSUME Head(q) \in S, Few(In(q, S)) PROVE In(Tail(q), S) = {}
  <2> SUFFICES ASSUME NEW i \in In(Tail(q), S) PROVE FALSE
    OBVIOUS
  <2>1. i + 1 = 1
    BY <1>4, <1>11, <1>12 DEF Few
  <2> QED  BY <1>4, <2>1
<1> QED  BY <1>1, <1>2, <1>4, <1>5, <1>7, <1>8, <1>9, <1>10, <1>11, <1>12

(* The queue with another packet in front.                                 *)
LEMMA InHead ==
    ASSUME NEW T, NEW q \in Seq(T), q # <<>>, NEW m \in T, NEW S, q[1] \notin S, m \notin S
    PROVE  /\ [q EXCEPT ![1] = m] \in Seq(T)
           /\ In([q EXCEPT ![1] = m], S) = In(q, S)
<1>1. Len(q) \in Nat \ {0} /\ DOMAIN q = 1..Len(q)
  BY EmptySeq, LenProperties
<1> DEFINE r == [q EXCEPT ![1] = m]
<1>2. /\ r \in Seq(T) /\ Len(r) = Len(q)
      /\ \A j \in 1..Len(q) : r[j] = IF j = 1 THEN m ELSE q[j]
  BY <1>1, ExceptSeq
<1>3. DOMAIN r = 1..Len(q)
  BY <1>2, LenProperties
<1> HIDE DEF r
<1>4. In(r, S) = In(q, S)
  BY <1>1, <1>2, <1>3 DEF In
<1> QED  BY <1>2, <1>4 DEF r

LEMMA InEmpty == \A S : In(<<>>, S) = {}
  BY DEF In

-----------------------------------------------------------------------------
(* The login tables.                                                       *)

(* No map of t holds a pointer to a CLoginData that was deleted, and the   *)
(* two maps that DeleteLoginData clears hold none that waits to be.        *)
Pointers(t) ==
    /\ \A k \in Keys : t.byKey[k] # NULL =>
          /\ t.byKey[k] \in DOMAIN t.ld
          /\ t.ld[t.byKey[k]].alive /\ ~t.ld[t.byKey[k]].deleted
          /\ t.ld[t.byKey[k]].key = k
    /\ t.byLogin # NULL =>
          t.byLogin \in DOMAIN t.ld /\ t.ld[t.byLogin].alive /\ ~t.ld[t.byLogin].deleted
    /\ t.logon # NULL => t.logon \in DOMAIN t.ld /\ t.ld[t.logon].alive

(* Also, an account that is logged on has a CLoginData that is not deleted.*)
Sound(t) == Pointers(t) /\ (t.logon # NULL => t.byLogin # NULL)

(* The key of the n-th authentication is the only one.                     *)
Latest(t, n) ==
    IF t.byLogin = NULL THEN n = 0 /\ \A k \in Keys : t.byKey[k] = NULL
    ELSE t.ld[t.byLogin].key = n /\ \A k \in Keys : t.byKey[k] # NULL => k = n

(* The account is logged on in u as it is in t.                            *)
SameLogon(t, u) ==
    /\ u.logon = t.logon
    /\ t.logon # NULL => u.ld[u.logon].peer = t.ld[t.logon].peer

LEMMA TableParts ==
    ASSUME NEW t \in LoginTables
    PROVE  /\ t.byKey \in [Keys -> Nat] /\ t.byLogin \in Nat /\ t.logon \in Nat
           /\ t.ld \in Seq(LoginData) /\ DOMAIN t.ld = 1..Len(t.ld) /\ Len(t.ld) \in Nat
           /\ \A l \in DOMAIN t.ld : t.ld[l] \in LoginData
<1>1. t.ld \in Seq(LoginData)
  BY DEF LoginTables
<1>2. t.ld \in [1..Len(t.ld) -> LoginData] /\ Len(t.ld) \in Nat /\ DOMAIN t.ld = 1..Len(t.ld)
  BY <1>1, LenProperties
<1> QED  BY <1>1, <1>2 DEF LoginTables

(* A CLoginData is replaced.                                               *)
LEMMA SetLd ==
    ASSUME NEW t \in LoginTables, NEW l \in DOMAIN t.ld, NEW o \in LoginData
    PROVE  /\ [t EXCEPT !.ld[l] = o] \in LoginTables
           /\ [t EXCEPT !.ld[l] = o].byKey = t.byKey
           /\ [t EXCEPT !.ld[l] = o].byLogin = t.byLogin
           /\ [t EXCEPT !.ld[l] = o].logon = t.logon
           /\ DOMAIN [t EXCEPT !.ld[l] = o].ld = DOMAIN t.ld
           /\ \A i \in DOMAIN t.ld :
                 [t EXCEPT !.ld[l] = o].ld[i] = IF i = l THEN o ELSE t.ld[i]
<1>1. /\ [t.ld EXCEPT ![l] = o] \in Seq(LoginData)
      /\ DOMAIN [t.ld EXCEPT ![l] = o] = DOMAIN t.ld
      /\ \A i \in DOMAIN t.ld : [t.ld EXCEPT ![l] = o][i] = IF i = l THEN o ELSE t.ld[i]
  BY TableParts, ExceptSeq
<1>2. [t EXCEPT !.ld[l] = o] = [t EXCEPT !.ld = [t.ld EXCEPT ![l] = o]]
  OBVIOUS
<1> DEFINE s == [t.ld EXCEPT ![l] = o]
<1> HIDE DEF s
<1>3. /\ [t EXCEPT !.ld = s].ld = s /\ [t EXCEPT !.ld = s].byKey = t.byKey
      /\ [t EXCEPT !.ld = s].byLogin = t.byLogin /\ [t EXCEPT !.ld = s].logon = t.logon
      /\ s \in Seq(LoginData) => [t EXCEPT !.ld = s] \in LoginTables
  BY DEF LoginTables
<1> QED  BY <1>1, <1>2, <1>3 DEF s

(* A CLoginData for key k is made; it is the account's if there is none.   *)
LEMMA InsertNew ==
    ASSUME NEW t \in LoginTables, Pointers(t), NEW k \in Keys
    PROVE  LET l == Len(t.ld) + 1
               u == InsertLoginData(NewLoginData(t, k), l)
           IN  /\ u \in LoginTables /\ Sound(u) /\ u.byLogin # NULL
               /\ u.logon = t.logon
               /\ \A i \in DOMAIN t.ld : i \in DOMAIN u.ld /\ u.ld[i] = t.ld[i]
               /\ l \in DOMAIN u.ld /\ u.ld[l] = CLoginData(k)
               /\ u.byLogin = IF t.byLogin = NULL THEN l ELSE t.byLogin
               /\ \A j \in Keys : u.byKey[j] # NULL <=> t.byKey[j] # NULL \/ j = k
<1> DEFINE l == Len(t.ld) + 1
           n == NewLoginData(t, k)
           u == InsertLoginData(n, l)
<1>0. CLoginData(k) \in LoginData /\ CLoginData(k).key = k
      /\ CLoginData(k).alive /\ ~CLoginData(k).deleted
  BY DEF CLoginData, LoginData
<1>1. /\ Append(t.ld, CLoginData(k)) \in Seq(LoginData)
      /\ DOMAIN Append(t.ld, CLoginData(k)) = 1..(Len(t.ld) + 1)
      /\ \A i \in DOMAIN t.ld : Append(t.ld, CLoginData(k))[i] = t.ld[i]
      /\ Append(t.ld, CLoginData(k))[l] = CLoginData(k)
  BY <1>0, TableParts, AppendProperties, LenProperties
<1>2. /\ n.ld = Append(t.ld, CLoginData(k)) /\ n.byKey = t.byKey
      /\ n.byLogin = t.byLogin /\ n.logon = t.logon /\ n \in LoginTables
  BY <1>1 DEF NewLoginData, LoginTables
<1>3. DOMAIN t.ld = 1..Len(t.ld) /\ Len(t.ld) \in Nat /\ l \in DOMAIN n.ld /\ l \in Nat
      /\ l # NULL /\ DOMAIN t.ld \subseteq DOMAIN n.ld
  BY <1>1, <1>2, TableParts DEF NULL
<1>4. n.ld[l].key = k
  BY <1>0, <1>1, <1>2
<1> HIDE DEF n, l
<1>5. u = [n EXCEPT !.byKey = [n.byKey EXCEPT ![k] = IF @ = NULL THEN l ELSE @],
                    !.byLogin = IF n.byLogin = NULL THEN l ELSE n.byLogin]
  BY <1>2, <1>4 DEF InsertLoginData, LoginTables
<1> HIDE DEF u
<1>6. /\ u.ld = n.ld /\ u.logon = n.logon
      /\ u.byKey = [n.byKey EXCEPT ![k] = IF @ = NULL THEN l ELSE @]
      /\ u.byLogin = IF n.byLogin = NULL THEN l ELSE n.byLogin
      /\ u \in LoginTables
  BY <1>2, <1>3, <1>5 DEF LoginTables
<1>7. \A j \in Keys : u.byKey[j] = IF j = k /\ t.byKey[j] = NULL THEN l ELSE t.byKey[j]
  BY <1>2, <1>6, TableParts
<1>8. u.ld[l] = CLoginData(k) /\ \A i \in DOMAIN t.ld : i \in DOMAIN u.ld /\ u.ld[i] = t.ld[i]
  BY <1>1, <1>2, <1>3, <1>6 DEF l
<1>9. Sound(u)
  <2>1. ASSUME NEW j \in Keys, u.byKey[j] # NULL
        PROVE  /\ u.byKey[j] \in DOMAIN u.ld
               /\ u.ld[u.byKey[j]].alive /\ ~u.ld[u.byKey[j]].deleted
               /\ u.ld[u.byKey[j]].key = j
    <3>1. CASE j = k /\ t.byKey[j] = NULL
      BY <1>0, <1>3, <1>6, <1>7, <1>8, <3>1
    <3>2. CASE ~(j = k /\ t.byKey[j] = NULL)
      BY <1>7, <1>8, <2>1, <3>2 DEF Pointers
    <3> QED  BY <3>1, <3>2
  <2>2. u.byLogin \in DOMAIN u.ld /\ u.ld[u.byLogin].alive /\ ~u.ld[u.byLogin].deleted
    BY <1>0, <1>2, <1>3, <1>6, <1>8 DEF Pointers
  <2>3. u.byLogin # NULL
    BY <1>3, <1>6
  <2>4. u.logon # NULL => u.logon \in DOMAIN u.ld /\ u.ld[u.logon].alive
    BY <1>2, <1>6, <1>8 DEF Pointers
  <2> QED  BY <2>1, <2>2, <2>3, <2>4 DEF Pointers, Sound
<1> QED  BY <1>2, <1>3, <1>6, <1>7, <1>8, <1>9 DEF u, n, l
(* DeleteLoginData of the account's CLoginData: it is out of the maps, and *)
(* what is logged on stays.                                                *)
LEMMA DeleteFacts ==
    ASSUME NEW t \in LoginTables, Sound(t), t.byLogin # NULL
    PROVE  LET u == DeleteLoginData(t, t.byLogin)
           IN  /\ u \in LoginTables /\ Pointers(u) /\ u.byLogin = NULL
               /\ SameLogon(t, u)
               /\ \A k \in Keys : u.byKey[k] # NULL =>
                     t.byKey[k] # NULL /\ k # t.ld[t.byLogin].key
<1> DEFINE l == t.byLogin
           o == IF t.logon = NULL THEN Freed(t.ld[l]) ELSE [t.ld[l] EXCEPT !.deleted = TRUE]
           m == [t EXCEPT !.ld[l] = o]
           u == DeleteLoginData(t, l)
<1>1. l \in DOMAIN t.ld /\ t.ld[l].alive /\ ~t.ld[l].deleted /\ t.ld[l] \in LoginData
      /\ t.ld[l].key \in Keys
  BY TableParts DEF Sound, Pointers, LoginData
<1>2. o \in LoginData /\ (t.logon # NULL => o.alive /\ o.peer = t.ld[l].peer)
  BY <1>1 DEF Freed, CLoginData, LoginData
<1> HIDE DEF o
<1>3. /\ m \in LoginTables /\ m.byKey = t.byKey /\ m.byLogin = t.byLogin
      /\ m.logon = t.logon /\ DOMAIN m.ld = DOMAIN t.ld
      /\ \A i \in DOMAIN t.ld : m.ld[i] = IF i = l THEN o ELSE t.ld[i]
  BY <1>1, <1>2, SetLd
<1>4. u = [m EXCEPT !.byKey = [t.byKey EXCEPT ![t.ld[l].key] = NULL], !.byLogin = NULL]
  BY DEF DeleteLoginData, o, LoginTables
<1> HIDE DEF m, u
<1>5. /\ u.ld = m.ld /\ u.logon = t.logon /\ u.byLogin = NULL
      /\ u.byKey = [t.byKey EXCEPT ![t.ld[l].key] = NULL]
      /\ u \in LoginTables
  BY <1>1, <1>3, <1>4, TableParts DEF LoginTables, NULL
<1>6. \A k \in Keys : u.byKey[k] = IF k = t.ld[l].key THEN NULL ELSE t.byKey[k]
  BY <1>1, <1>5, TableParts
<1>7. u.logon # NULL => /\ u.logon \in DOMAIN u.ld /\ u.ld[u.logon].alive
                        /\ u.ld[u.logon].peer = t.ld[t.logon].peer
  BY <1>2, <1>3, <1>5 DEF Sound, Pointers
<1>8. ASSUME NEW k \in Keys, u.byKey[k] # NULL
      PROVE  /\ t.byKey[k] # NULL /\ k # t.ld[l].key
             /\ u.byKey[k] \in DOMAIN u.ld
             /\ u.ld[u.byKey[k]].alive /\ ~u.ld[u.byKey[k]].deleted
             /\ u.ld[u.byKey[k]].key = k
  <2>1. u.byKey[k] = t.byKey[k] /\ k # t.ld[l].key /\ t.byKey[k] # NULL
    BY <1>6, <1>8
  <2>2. /\ t.byKey[k] \in DOMAIN t.ld /\ t.ld[t.byKey[k]].alive
        /\ ~t.ld[t.byKey[k]].deleted /\ t.ld[t.byKey[k]].key = k
    BY <2>1 DEF Sound, Pointers
  <2>3. t.byKey[k] # l
    BY <2>1, <2>2
  <2>4. u.ld[u.byKey[k]] = t.ld[t.byKey[k]]
    BY <1>3, <1>5, <2>1, <2>2, <2>3
  <2> QED  BY <1>3, <1>5, <2>1, <2>2, <2>4
<1>9. Pointers(u)
  BY <1>5, <1>7, <1>8 DEF Pointers
<1> QED  BY <1>5, <1>7, <1>8, <1>9 DEF SameLogon, u

(* QUERY_AUTH_LOGIN: the key before is revoked, and the account stays      *)
(* logged on or not as it was.                                             *)
LEMMA AuthTables ==
    ASSUME NEW t \in LoginTables, Sound(t), NEW k \in Keys
    PROVE  LET v == IF t.byLogin = NULL THEN t ELSE DeleteLoginData(t, t.byLogin)
               u == InsertLoginData(NewLoginData(v, k), Len(v.ld) + 1)
           IN  /\ u \in LoginTables /\ Sound(u) /\ SameLogon(t, u)
               /\ \A n \in Nat : Latest(t, n) => Latest(u, k)
<1> DEFINE v == IF t.byLogin = NULL THEN t ELSE DeleteLoginData(t, t.byLogin)
           l == Len(v.ld) + 1
           u == InsertLoginData(NewLoginData(v, k), l)
<1>1. /\ v \in LoginTables /\ Pointers(v) /\ v.byLogin = NULL /\ SameLogon(t, v)
      /\ \A j \in Keys : v.byKey[j] # NULL /\ t.byLogin # NULL =>
             t.byKey[j] # NULL /\ j # t.ld[t.byLogin].key
      /\ t.byLogin = NULL => v = t
  BY DeleteFacts DEF SameLogon, Sound
<1> HIDE DEF v
<1>2. /\ u \in LoginTables /\ Sound(u) /\ u.byLogin = l /\ l \in DOMAIN u.ld
      /\ u.ld[l] = CLoginData(k) /\ u.logon = v.logon
      /\ \A i \in DOMAIN v.ld : i \in DOMAIN u.ld /\ u.ld[i] = v.ld[i]
      /\ \A j \in Keys : u.byKey[j] # NULL <=> v.byKey[j] # NULL \/ j = k
      /\ u.byLogin # NULL
  BY <1>1, InsertNew
<1> HIDE DEF u
<1>3. SameLogon(t, u)
  BY <1>1, <1>2 DEF SameLogon, Pointers
<1>4. ASSUME NEW n \in Nat, Latest(t, n) PROVE Latest(u, k)
  <2>1. u.byLogin # NULL /\ u.ld[u.byLogin].key = k
    BY <1>2 DEF CLoginData
  <2>2. \A j \in Keys : v.byKey[j] = NULL
    <3>1. CASE t.byLogin = NULL
      <4>1. v = t
        BY <1>1, <3>1
      <4> QED  BY <1>4, <3>1, <4>1 DEF Latest
    <3>2. CASE t.byLogin # NULL
      <4> SUFFICES ASSUME NEW j \in Keys, v.byKey[j] # NULL PROVE FALSE
        OBVIOUS
      <4>1. t.byKey[j] # NULL /\ j # t.ld[t.byLogin].key
        BY <1>1, <3>2
      <4> QED  BY <1>4, <3>2, <4>1 DEF Latest
    <3> QED  BY <3>1, <3>2
  <2>3. \A j \in Keys : u.byKey[j] # NULL => j = k
    BY <1>2, <2>2
  <2> QED  BY <2>1, <2>3 DEF Latest
<1> QED  BY <1>2, <1>3, <1>4 DEF u, l, v

(* RESULT_LOGIN and QUERY_SETUP: the account is logged on by peer h, and   *)
(* its CLoginData noted as loaded or played.                               *)
LogonLoaded(t, h, l) == [InsertLogonAccount(t, h) EXCEPT !.ld[l].loaded = TRUE]
LogonPlayed(t, h, l) == [InsertLogonAccount(t, h) EXCEPT !.ld[l].play = TRUE]

LEMMA LogonTables ==
    ASSUME NEW t \in LoginTables, Sound(t), t.byLogin # NULL, NEW h \in Nat,
           NEW l \in DOMAIN t.ld
    PROVE  LET v == LogonLoaded(t, h, l)
               w == LogonPlayed(t, h, l)
           IN  /\ v \in LoginTables /\ Sound(v)
               /\ v.logon # NULL /\ v.ld[v.logon].peer = h
               /\ \A n \in Nat : Latest(t, n) => Latest(v, n)
               /\ w \in LoginTables /\ Sound(w)
               /\ w.logon # NULL /\ w.ld[w.logon].peer = h
<1> DEFINE o == [t.ld[t.byLogin] EXCEPT !.peer = h]
           m == [t EXCEPT !.ld[t.byLogin] = o]
           u == InsertLogonAccount(t, h)
           Same(x) == /\ x \in LoginTables /\ x.byKey = t.byKey /\ x.byLogin = t.byLogin
                      /\ x.logon = t.byLogin /\ DOMAIN x.ld = DOMAIN t.ld
                      /\ x.ld[t.byLogin].peer = h
                      /\ \A i \in DOMAIN t.ld : /\ x.ld[i].alive = t.ld[i].alive
                                                /\ x.ld[i].deleted = t.ld[i].deleted
                                                /\ x.ld[i].key = t.ld[i].key
<1>1. t.byLogin \in DOMAIN t.ld /\ t.byLogin \in Nat /\ t.ld[t.byLogin] \in LoginData
      /\ \A i \in DOMAIN t.ld : t.ld[i] \in LoginData
  BY TableParts DEF Sound, Pointers
<1>2. /\ o \in LoginData /\ o.peer = h /\ o.alive = t.ld[t.byLogin].alive
      /\ o.deleted = t.ld[t.byLogin].deleted /\ o.key = t.ld[t.byLogin].key
  BY <1>1 DEF LoginData
<1>3. u = [m EXCEPT !.logon = t.byLogin]
  BY <1>1 DEF InsertLogonAccount, LoginTables, LoginData
<1> HIDE DEF o
<1>4. /\ m \in LoginTables /\ m.byKey = t.byKey /\ m.byLogin = t.byLogin
      /\ m.logon = t.logon /\ DOMAIN m.ld = DOMAIN t.ld
      /\ \A i \in DOMAIN t.ld : m.ld[i] = IF i = t.byLogin THEN o ELSE t.ld[i]
  BY <1>1, <1>2, SetLd
<1> HIDE DEF m, u
<1>5. u \in LoginTables /\ u.byKey = m.byKey /\ u.byLogin = m.byLogin
      /\ u.logon = t.byLogin /\ u.ld = m.ld
  BY <1>1, <1>3, <1>4 DEF LoginTables
<1>6. Same(u)
  BY <1>1, <1>2, <1>4, <1>5
<1>7. ASSUME NEW p, p \in LoginData, p.peer = u.ld[l].peer, p.alive = u.ld[l].alive,
             p.deleted = u.ld[l].deleted, p.key = u.ld[l].key
      PROVE  Same([u EXCEPT !.ld[l] = p])
  <2> DEFINE x == [u EXCEPT !.ld[l] = p]
  <2>1. /\ x \in LoginTables /\ x.byKey = u.byKey /\ x.byLogin = u.byLogin
        /\ x.logon = u.logon /\ DOMAIN x.ld = DOMAIN u.ld
        /\ \A i \in DOMAIN u.ld : x.ld[i] = IF i = l THEN p ELSE u.ld[i]
    BY <1>6, <1>7, SetLd
  <2> HIDE DEF x
  <2>2. Same(x)
    BY <1>1, <1>6, <1>7, <2>1
  <2> QED  BY <2>2 DEF x
<1>8. u.ld[l] \in LoginData
  BY <1>6, TableParts
<1>9. /\ Same([u EXCEPT !.ld[l].loaded = TRUE])
      /\ Same([u EXCEPT !.ld[l].play = TRUE])
  <2>1. /\ [u.ld[l] EXCEPT !.loaded = TRUE] \in LoginData
        /\ [u.ld[l] EXCEPT !.play = TRUE] \in LoginData
    BY <1>8 DEF LoginData
  <2>2. /\ Same([u EXCEPT !.ld[l] = [u.ld[l] EXCEPT !.loaded = TRUE]])
        /\ Same([u EXCEPT !.ld[l] = [u.ld[l] EXCEPT !.play = TRUE]])
    <3> HIDE DEF Same
    <3>1. /\ [u.ld[l] EXCEPT !.loaded = TRUE].peer = u.ld[l].peer
          /\ [u.ld[l] EXCEPT !.loaded = TRUE].alive = u.ld[l].alive
          /\ [u.ld[l] EXCEPT !.loaded = TRUE].deleted = u.ld[l].deleted
          /\ [u.ld[l] EXCEPT !.loaded = TRUE].key = u.ld[l].key
          /\ [u.ld[l] EXCEPT !.play = TRUE].peer = u.ld[l].peer
          /\ [u.ld[l] EXCEPT !.play = TRUE].alive = u.ld[l].alive
          /\ [u.ld[l] EXCEPT !.play = TRUE].deleted = u.ld[l].deleted
          /\ [u.ld[l] EXCEPT !.play = TRUE].key = u.ld[l].key
      BY <1>8 DEF LoginData
    <3> QED  BY <1>7, <2>1, <3>1
  <2>3. /\ [u EXCEPT !.ld[l].loaded = TRUE] = [u EXCEPT !.ld[l] = [u.ld[l] EXCEPT !.loaded = TRUE]]
        /\ [u EXCEPT !.ld[l].play = TRUE] = [u EXCEPT !.ld[l] = [u.ld[l] EXCEPT !.play = TRUE]]
    OBVIOUS
  <2> HIDE DEF Same
  <2> QED  BY <2>2, <2>3
<1>10. ASSUME NEW x, Same(x)
       PROVE  /\ x \in LoginTables /\ Sound(x)
              /\ x.logon # NULL /\ x.ld[x.logon].peer = h
              /\ \A n \in Nat : Latest(t, n) => Latest(x, n)
  <2>1. Pointers(x)
    BY <1>1, <1>10 DEF Sound, Pointers
  <2>2. \A n \in Nat : Latest(t, n) => Latest(x, n)
    BY <1>1, <1>10 DEF Latest
  <2> QED  BY <1>10, <2>1, <2>2 DEF Sound
<1> HIDE DEF Same
<1> QED  BY <1>9, <1>10 DEF u, LogonLoaded, LogonPlayed

(* The loaded player is played: SetPlay(true).                             *)
LEMMA PlayTables ==
    ASSUME NEW t \in LoginTables, Sound(t), t.byLogin # NULL
    PROVE  LET u == [t EXCEPT !.ld[t.byLogin].play = TRUE]
           IN  /\ u \in LoginTables /\ Sound(u) /\ SameLogon(t, u)
               /\ \A n \in Nat : Latest(t, n) => Latest(u, n)
<1> DEFINE l == t.byLogin
           o == [t.ld[l] EXCEPT !.play = TRUE]
           u == [t EXCEPT !.ld[l] = o]
<1>1. l \in DOMAIN t.ld /\ t.ld[l] \in LoginData
  BY TableParts DEF Sound, Pointers
<1>2. /\ o \in LoginData /\ o.peer = t.ld[l].peer /\ o.alive = t.ld[l].alive
      /\ o.deleted = t.ld[l].deleted /\ o.key = t.ld[l].key
  BY <1>1 DEF LoginData
<1>3. [t EXCEPT !.ld[t.byLogin].play = TRUE] = u
  OBVIOUS
<1> HIDE DEF o
<1>4. /\ u \in LoginTables /\ u.byKey = t.byKey /\ u.byLogin = t.byLogin
      /\ u.logon = t.logon /\ DOMAIN u.ld = DOMAIN t.ld
      /\ \A i \in DOMAIN t.ld : u.ld[i] = IF i = l THEN o ELSE t.ld[i]
  BY <1>1, <1>2, SetLd
<1> HIDE DEF u
<1>5. Pointers(u)
  BY <1>1, <1>2, <1>4 DEF Sound, Pointers
<1>6. SameLogon(t, u)
  BY <1>2, <1>4 DEF SameLogon, Sound, Pointers
<1>7. \A n \in Nat : Latest(t, n) => Latest(u, n)
  BY <1>1, <1>2, <1>4 DEF Latest
<1> QED  BY <1>3, <1>4, <1>5, <1>6, <1>7 DEF Sound

(* The account is logged out.                                              *)
LEMMA ClearTables ==
    ASSUME NEW t \in LoginTables, Sound(t), t.logon # NULL
    PROVE  LET u == ClearLogon(t)
           IN  /\ u \in LoginTables /\ Sound(u) /\ u.logon = NULL
               /\ \A n \in Nat : Latest(t, n) => Latest(u, n)
<1> DEFINE l == t.logon
           o == IF t.ld[l].deleted THEN Freed(t.ld[l]) ELSE [t.ld[l] EXCEPT !.play = FALSE]
           m == [t EXCEPT !.ld[l] = o]
           u == ClearLogon(t)
<1>1. l \in DOMAIN t.ld /\ t.ld[l].alive /\ t.ld[l] \in LoginData
  BY TableParts DEF Sound, Pointers
<1>2. /\ o \in LoginData /\ o.key = t.ld[l].key
      /\ ~t.ld[l].deleted => o.alive = t.ld[l].alive /\ o.deleted = t.ld[l].deleted
  BY <1>1 DEF Freed, CLoginData, LoginData
<1>3. u = [m EXCEPT !.logon = NULL]
  BY DEF ClearLogon, LoginTables
<1> HIDE DEF o
<1>4. /\ m \in LoginTables /\ m.byKey = t.byKey /\ m.byLogin = t.byLogin
      /\ m.logon = t.logon /\ DOMAIN m.ld = DOMAIN t.ld
      /\ \A i \in DOMAIN t.ld : m.ld[i] = IF i = l THEN o ELSE t.ld[i]
  BY <1>1, <1>2, SetLd
<1> HIDE DEF m, u
<1>5. /\ u \in LoginTables /\ u.byKey = t.byKey /\ u.byLogin = t.byLogin
      /\ u.logon = NULL /\ u.ld = m.ld
  BY <1>3, <1>4 DEF LoginTables, NULL
<1>6. \A i \in DOMAIN t.ld :
         /\ i \in DOMAIN u.ld /\ u.ld[i].key = t.ld[i].key
         /\ t.ld[i].alive /\ ~t.ld[i].deleted => u.ld[i].alive /\ ~u.ld[i].deleted
  BY <1>1, <1>2, <1>4, <1>5
<1>7. Pointers(u)
  <2>1. ASSUME NEW k \in Keys, u.byKey[k] # NULL
        PROVE  /\ u.byKey[k] \in DOMAIN u.ld
               /\ u.ld[u.byKey[k]].alive /\ ~u.ld[u.byKey[k]].deleted
               /\ u.ld[u.byKey[k]].key = k
    BY <1>5, <1>6, <2>1 DEF Sound, Pointers
  <2>2. u.byLogin # NULL => /\ u.byLogin \in DOMAIN u.ld
                            /\ u.ld[u.byLogin].alive /\ ~u.ld[u.byLogin].deleted
    BY <1>5, <1>6 DEF Sound, Pointers
  <2> QED  BY <1>5, <2>1, <2>2 DEF Pointers
<1>8. \A n \in Nat : Latest(t, n) => Latest(u, n)
  BY <1>5, <1>6 DEF Latest, Sound, Pointers
<1> QED  BY <1>5, <1>7, <1>8 DEF Sound, u

-----------------------------------------------------------------------------
(* What is under way.                                                      *)

(* A question to log d on, which goes from toDb through results to an      *)
(* answer in toGame; a question for d's player, which does too; logouts.   *)
LoginQids    == {"LOGIN_BY_KEY", "LOGIN", "PLAYER_INDEX_CREATE"}
LoginAnswers == {"LOGIN_NOT_EXIST", "LOGIN_ALREADY", "LOGIN_SUCCESS"}
LoadAnswers  == {"PLAYER_LOAD_SUCCESS", "PLAYER_LOAD_FAILED"}

AskOf(d)      == [op : {"LOGIN_BY_KEY"}, desc : {d}, key : Keys]
PendOf(h, d)  == [qid : LoginQids, peer : {h}, desc : {d}]
HearOf(d)     == [op : LoginAnswers, desc : {d}]

LoadOf(d)     == [op : {"PLAYER_LOAD"}, desc : {d}]
FetchOf(h, d) == [qid : {"PLAYER"}, peer : {h}, desc : {d}]
ShowOf(d)     == [op : LoadAnswers, desc : {d}]

Logouts   == [op : {"LOGOUT"}, desc : Descs]
Setups    == [op : {"SETUP"}, keys : Seq(Keys)]
Successes == [op : {"LOGIN_SUCCESS"}, desc : Descs]

ToGameMsg == [op : Answer, desc : Descs]
Pending   == [qid : Qid, peer : Nat, desc : Descs]

(* Of three places there is at most one element in all.                    *)
Sole(A, B, C) ==
    /\ Few(A) /\ Few(B) /\ Few(C)
    /\ A = {} \/ B = {}
    /\ A = {} \/ C = {}
    /\ B = {} \/ C = {}
Some(A, B, C) == A # {} \/ B # {} \/ C # {}

(* In Y there is no more than in X; as much.                               *)
Less(X, Y) == (Few(X) => Few(Y)) /\ (X = {} => Y = {})
Same(X, Y) == Less(X, Y) /\ (Y = {} => X = {})

LEMMA SoleLess ==
    ASSUME NEW A, NEW B, NEW C, NEW X, NEW Y, NEW Z,
           Less(A, X), Less(B, Y), Less(C, Z)
    PROVE  /\ Sole(A, B, C) => Sole(X, Y, Z)
           /\ Some(X, Y, Z) => Some(A, B, C)
  BY DEF Sole, Some, Less

LEMMA SameSelf == \A X : Same(X, X) /\ Less(X, X)
  BY DEF Same, Less

LEMMA FewOne == \A x : Few({x}) /\ {x} # {}
  BY DEF Few

LEMMA FewNone == Few({})
  BY DEF Few

-----------------------------------------------------------------------------
(* The steps of the connections.                                           *)

QueuesOK == /\ toDb \in [Games -> Seq(ToDbMsg)]
            /\ toGame \in [Games -> Seq(ToGameMsg)]
            /\ results \in Seq(Pending)

LEMMA SendDbFacts ==
    ASSUME QueuesOK, NEW g \in Games, NEW m \in ToDbMsg, SendDb(g, m)
    PROVE  /\ toDb' \in [Games -> Seq(ToDbMsg)]
           /\ \A h \in Games : h # g => toDb'[h] = toDb[h]
           /\ handle[g] = 0 => toDb' = toDb
           /\ \A S : m \notin S => In(toDb'[g], S) = In(toDb[g], S)
           /\ \A S : m \in S /\ handle[g] # 0 =>
                 In(toDb'[g], S) = In(toDb[g], S) \cup {Len(toDb[g]) + 1}
           /\ toDb[g] # <<>> => toDb'[g] # <<>> /\ Head(toDb'[g]) = Head(toDb[g])
           /\ toDb[g] = <<>> /\ handle[g] # 0 => Head(toDb'[g]) = m
<1>1. toDb[g] \in Seq(ToDbMsg)
  BY DEF QueuesOK
<1>2. CASE handle[g] = 0
  BY <1>2 DEF SendDb, QueuesOK
<1>3. CASE handle[g] # 0
  <2>1. toDb' = [toDb EXCEPT ![g] = Append(toDb[g], m)]
    BY <1>3 DEF SendDb
  <2>2. toDb'[g] = Append(toDb[g], m) /\ Append(toDb[g], m) \in Seq(ToDbMsg)
    BY <1>1, <2>1, InAppend DEF QueuesOK
  <2>3. toDb' \in [Games -> Seq(ToDbMsg)] /\ \A h \in Games : h # g => toDb'[h] = toDb[h]
    BY <2>1, <2>2 DEF QueuesOK
  <2>4. \A S : /\ m \notin S => In(toDb'[g], S) = In(toDb[g], S)
               /\ m \in S => In(toDb'[g], S) = In(toDb[g], S) \cup {Len(toDb[g]) + 1}
    BY <1>1, <2>2, InAppend
  <2>5. /\ toDb[g] # <<>> => toDb'[g] # <<>> /\ Head(toDb'[g]) = Head(toDb[g])
        /\ toDb[g] = <<>> => Head(toDb'[g]) = m
    <3>1. /\ Len(toDb'[g]) = Len(toDb[g]) + 1 /\ Len(toDb[g]) \in Nat
          /\ \A i \in 1..Len(toDb[g]) : toDb'[g][i] = toDb[g][i]
          /\ toDb'[g][Len(toDb[g]) + 1] = m
      BY <1>1, <2>2, AppendProperties, LenProperties
    <3>2. toDb[g] # <<>> => Len(toDb[g]) # 0
      BY <1>1, EmptySeq
    <3>3. toDb'[g] # <<>>
      BY <3>1, EmptySeq
    <3>4. toDb[g] = <<>> => Len(toDb[g]) = 0
      BY EmptySeq
    <3>5. Head(toDb[g]) = toDb[g][1] /\ Head(toDb'[g]) = toDb'[g][1]
      BY <1>1, <2>2
    <3> QED  BY <3>1, <3>2, <3>3, <3>4, <3>5
  <2> QED  BY <1>3, <2>3, <2>4, <2>5
<1> QED  BY <1>2, <1>3

LEMMA ConsumeFacts ==
    ASSUME QueuesOK, NEW g \in Games, toDb[g] # <<>>, Consume(g)
    PROVE  /\ toDb' \in [Games -> Seq(ToDbMsg)]
           /\ Head(toDb[g]) \in ToDbMsg
           /\ \A h \in Games : h # g => toDb'[h] = toDb[h]
           /\ \A S : Less(In(toDb[g], S), In(toDb'[g], S))
           /\ \A S : Head(toDb[g]) \notin S => Same(In(toDb[g], S), In(toDb'[g], S))
           /\ \A S : Head(toDb[g]) \in S =>
                 In(toDb[g], S) # {} /\ (Few(In(toDb[g], S)) => In(toDb'[g], S) = {})
<1>1. toDb[g] \in Seq(ToDbMsg)
  BY DEF QueuesOK
<1>2. toDb' = [toDb EXCEPT ![g] = Tail(toDb[g])]
  BY DEF Consume
<1>3. toDb'[g] = Tail(toDb[g]) /\ Tail(toDb[g]) \in Seq(ToDbMsg) /\ Head(toDb[g]) \in ToDbMsg
  BY <1>1, <1>2, HeadTailProperties DEF QueuesOK
<1>4. toDb' \in [Games -> Seq(ToDbMsg)] /\ \A h \in Games : h # g => toDb'[h] = toDb[h]
  BY <1>2, <1>3 DEF QueuesOK
<1>5. ASSUME NEW S
      PROVE  /\ Less(In(toDb[g], S), In(toDb'[g], S))
             /\ Head(toDb[g]) \notin S => Same(In(toDb[g], S), In(toDb'[g], S))
             /\ Head(toDb[g]) \in S =>
                   In(toDb[g], S) # {} /\ (Few(In(toDb[g], S)) => In(toDb'[g], S) = {})
  <2>1. /\ Few(In(toDb[g], S)) => Few(In(Tail(toDb[g]), S))
        /\ In(toDb[g], S) = {} => In(Tail(toDb[g]), S) = {}
        /\ Head(toDb[g]) \notin S /\ In(Tail(toDb[g]), S) = {} => In(toDb[g], S) = {}
        /\ Head(toDb[g]) \in S =>
              In(toDb[g], S) # {} /\ (Few(In(toDb[g], S)) => In(Tail(toDb[g]), S) = {})
    BY <1>1, InTail
  <2> QED  BY <1>3, <2>1 DEF Less, Same
<1> QED  BY <1>3, <1>4, <1>5

LEMMA ReplyFacts ==
    ASSUME QueuesOK, NEW g \in Games, NEW d \in Descs, NEW op \in Answer, Reply(g, d, op)
    PROVE  /\ toGame' \in [Games -> Seq(ToGameMsg)]
           /\ \A h \in Games : h # g => toGame'[h] = toGame[h]
           /\ \A S : [op |-> op, desc |-> d] \notin S =>
                 In(toGame'[g], S) = In(toGame[g], S)
           /\ \A S : [op |-> op, desc |-> d] \in S =>
                 In(toGame'[g], S) = In(toGame[g], S) \cup {Len(toGame[g]) + 1}
<1> DEFINE m == [op |-> op, desc |-> d]
<1>1. toGame[g] \in Seq(ToGameMsg) /\ m \in ToGameMsg
  BY DEF QueuesOK, ToGameMsg
<1>2. toGame' = [toGame EXCEPT ![g] = Append(toGame[g], m)]
  BY DEF Reply
<1> HIDE DEF m
<1>3. toGame'[g] = Append(toGame[g], m) /\ Append(toGame[g], m) \in Seq(ToGameMsg)
  BY <1>1, <1>2, InAppend DEF QueuesOK
<1>4. toGame' \in [Games -> Seq(ToGameMsg)] /\ \A h \in Games : h # g => toGame'[h] = toGame[h]
  BY <1>2, <1>3 DEF QueuesOK
<1>5. \A S : /\ m \notin S => In(toGame'[g], S) = In(toGame[g], S)
             /\ m \in S => In(toGame'[g], S) = In(toGame[g], S) \cup {Len(toGame[g]) + 1}
  BY <1>1, <1>3, InAppend
<1> QED  BY <1>4, <1>5 DEF m

LEMMA AnsweredFacts ==
    ASSUME QueuesOK, NEW g \in Games, toGame[g] # <<>>,
           toGame' = [toGame EXCEPT ![g] = Tail(@)]
    PROVE  /\ toGame' \in [Games -> Seq(ToGameMsg)]
           /\ Head(toGame[g]) \in ToGameMsg
           /\ \A h \in Games : h # g => toGame'[h] = toGame[h]
           /\ \A S : Less(In(toGame[g], S), In(toGame'[g], S))
           /\ \A S : Head(toGame[g]) \notin S => Same(In(toGame[g], S), In(toGame'[g], S))
           /\ \A S : Head(toGame[g]) \in S =>
                 In(toGame[g], S) # {} /\ (Few(In(toGame[g], S)) => In(toGame'[g], S) = {})
<1>1. toGame[g] \in Seq(ToGameMsg)
  BY DEF QueuesOK
<1>2. toGame' = [toGame EXCEPT ![g] = Tail(toGame[g])]
  OBVIOUS
<1>3. toGame'[g] = Tail(toGame[g]) /\ Tail(toGame[g]) \in Seq(ToGameMsg)
      /\ Head(toGame[g]) \in ToGameMsg
  BY <1>1, <1>2, HeadTailProperties DEF QueuesOK
<1>4. toGame' \in [Games -> Seq(ToGameMsg)] /\ \A h \in Games : h # g => toGame'[h] = toGame[h]
  BY <1>2, <1>3 DEF QueuesOK
<1>5. ASSUME NEW S
      PROVE  /\ Less(In(toGame[g], S), In(toGame'[g], S))
             /\ Head(toGame[g]) \notin S => Same(In(toGame[g], S), In(toGame'[g], S))
             /\ Head(toGame[g]) \in S =>
                   In(toGame[g], S) # {} /\ (Few(In(toGame[g], S)) => In(toGame'[g], S) = {})
  <2>1. /\ Few(In(toGame[g], S)) => Few(In(Tail(toGame[g]), S))
        /\ In(toGame[g], S) = {} => In(Tail(toGame[g]), S) = {}
        /\ Head(toGame[g]) \notin S /\ In(Tail(toGame[g]), S) = {} => In(toGame[g], S) = {}
        /\ Head(toGame[g]) \in S =>
              In(toGame[g], S) # {} /\ (Few(In(toGame[g], S)) => In(Tail(toGame[g]), S) = {})
    BY <1>1, InTail
  <2> QED  BY <1>3, <2>1 DEF Less, Same
<1> QED  BY <1>3, <1>4, <1>5

LEMMA QueryFacts ==
    ASSUME QueuesOK, NEW r \in Pending, results' = Append(results, r)
    PROVE  /\ results' \in Seq(Pending)
           /\ \A S : r \notin S => In(results', S) = In(results, S)
           /\ \A S : r \in S => In(results', S) = In(results, S) \cup {Len(results) + 1}
  BY InAppend DEF QueuesOK

LEMMA ResultFacts ==
    ASSUME QueuesOK, results # <<>>
    PROVE  /\ Tail(results) \in Seq(Pending)
           /\ Head(results) \in Pending
           /\ \A S : Less(In(results, S), In(Tail(results), S))
           /\ \A S : Head(results) \in S =>
                 In(results, S) # {} /\ (Few(In(results, S)) => In(Tail(results), S) = {})
           /\ \A r \in Pending : /\ Append(Tail(results), r) \in Seq(Pending)
                                 /\ \A S : r \notin S =>
                                       In(Append(Tail(results), r), S) = In(Tail(results), S)
                                 /\ \A S : r \in S =>
                                       In(Append(Tail(results), r), S)
                                          = In(Tail(results), S) \cup {Len(results)}
<1>1. results \in Seq(Pending)
  BY DEF QueuesOK
<1>2. /\ Tail(results) \in Seq(Pending) /\ Head(results) \in Pending
      /\ Len(Tail(results)) = Len(results) - 1
  BY <1>1, HeadTailProperties
<1>3. Len(results) \in Nat
  BY <1>1, LenProperties
<1>4. ASSUME NEW S
      PROVE  /\ Less(In(results, S), In(Tail(results), S))
             /\ Head(results) \in S =>
                   In(results, S) # {} /\ (Few(In(results, S)) => In(Tail(results), S) = {})
  BY <1>1, InTail DEF Less
<1>5. ASSUME NEW r \in Pending
      PROVE  /\ Append(Tail(results), r) \in Seq(Pending)
             /\ \A S : r \notin S => In(Append(Tail(results), r), S) = In(Tail(results), S)
             /\ \A S : r \in S => In(Append(Tail(results), r), S)
                                     = In(Tail(results), S) \cup {Len(results)}
  <2>1. Len(Tail(results)) + 1 = Len(results)
    BY <1>2, <1>3
  <2> DEFINE q == Tail(results)
  <2>2. q \in Seq(Pending) /\ Len(q) + 1 = Len(results)
    BY <1>2, <2>1
  <2> HIDE DEF q
  <2>3. Append(q, r) \in Seq(Pending)
    BY <2>2, InAppend
  <2>4. ASSUME NEW S
        PROVE  /\ r \notin S => In(Append(q, r), S) = In(q, S)
               /\ r \in S => In(Append(q, r), S) = In(q, S) \cup {Len(results)}
    BY <2>2, InAppend
  <2> QED  BY <2>3, <2>4 DEF q
<1> QED  BY <1>2, <1>4, <1>5
-----------------------------------------------------------------------------
(* The inductive invariant.                                                *)

Asks(g, d)    == In(toDb[g], AskOf(d))
Pends(g, d)   == In(results, PendOf(handle[g], d))
Hears(g, d)   == In(toGame[g], HearOf(d))
Loads(g, d)   == In(toDb[g], LoadOf(d))
Fetches(g, d) == In(results, FetchOf(handle[g], d))
Shows(g, d)   == In(toGame[g], ShowOf(d))
Wins(g)       == In(toGame[g], Successes)
Leaves(g)     == In(toDb[g], Logouts)

(* Handles name connections; of a connection that is down nothing is left, *)
(* and answers to it are for nobody.                                       *)
NetInv ==
    /\ \A g \in Games : handle[g] <= nHandle
    /\ \A g, h \in Games : handle[g] = handle[h] /\ handle[g] # 0 => g = h
    /\ \A g \in Games : handle[g] = 0 => toDb[g] = <<>> /\ toGame[g] = <<>>
    /\ \A h \in Nat, d \in Descs :
          In(results, PendOf(h, d)) # {} \/ In(results, FetchOf(h, d)) # {} =>
              h # 0 /\ h <= nHandle
    /\ losses = 0 => \A g \in Games : handle[g] # 0

KeyInv == \A d \in Descs : desc[d].phase # "free" =>
             desc[d].key \in Keys /\ desc[d].game \in Games

(* There is one question for d at most, at the game where d is, as long as *)
(* d waits for the answer; d has not left its account while its player is  *)
(* asked for.                                                              *)
AskInv(g, d) ==
    /\ Sole(Asks(g, d), Pends(g, d), Hears(g, d))
    /\ Some(Asks(g, d), Pends(g, d), Hears(g, d)) =>
          desc[d].game = g /\ desc[d].phase \in {"asked", "closed"}

LoadInv(g, d) ==
    Some(Loads(g, d), Fetches(g, d), Shows(g, d)) =>
        desc[d].game = g /\ desc[d].phase \in Bound \cup {"closed"}

(* SETUP is the first packet of a connection after a loss, and a key in it *)
(* is that of a descriptor which still has a token.                        *)
Held(g) == Some(BoundDescs(g), Wins(g), Leaves(g))

SetupInv(g) ==
    /\ In(toDb[g], Setups) \subseteq {1}
    /\ In(toDb[g], Setups) # {} =>
          losses # 0 /\ (Head(toDb[g]).keys # <<>> => Held(g))

(* The tokens.                                                             *)
TokenInv(g) ==
    losses = 0 => /\ Sole(BoundDescs(g), Wins(g), Leaves(g))
                  /\ Held(g) <=> LogonOfPeer(db, handle[g])

BackInv ==
    db.logon # NULL => /\ db.ld[db.logon].peer # 0
                       /\ \E g \in Games : LogonOfPeer(db, handle[g]) /\ Held(g)

LatestInv == losses = 0 => Latest(db, nAuth)

GameInv(g) ==
    /\ \A d \in Descs : AskInv(g, d) /\ LoadInv(g, d)
    /\ SetupInv(g) /\ TokenInv(g)

IInv == /\ TypeOK /\ Sound(db) /\ NetInv /\ KeyInv
        /\ \A g \in Games : GameInv(g)
        /\ BackInv /\ LatestInv

-----------------------------------------------------------------------------
(* Kinds of packets.                                                       *)

LEMMA ToDbKinds ==
    ASSUME NEW m \in ToDbMsg
    PROVE  /\ m.op = "LOGIN_BY_KEY" =>
                 /\ m.desc \in Descs /\ m.key \in Keys /\ m \in AskOf(m.desc)
                 /\ \A d : (m \in AskOf(d) => d = m.desc) /\ m \notin LoadOf(d)
                 /\ m \notin Logouts /\ m \notin Setups
           /\ m.op = "PLAYER_LOAD" =>
                 /\ m.desc \in Descs /\ m \in LoadOf(m.desc)
                 /\ \A d : (m \in LoadOf(d) => d = m.desc) /\ m \notin AskOf(d)
                 /\ m \notin Logouts /\ m \notin Setups
           /\ m.op = "LOGOUT" =>
                 /\ m.desc \in Descs /\ m \in Logouts /\ m \notin Setups
                 /\ \A d : m \notin AskOf(d) /\ m \notin LoadOf(d)
           /\ m.op = "SETUP" =>
                 /\ m.keys \in Seq(Keys) /\ m \in Setups /\ m \notin Logouts
                 /\ \A d : m \notin AskOf(d) /\ m \notin LoadOf(d)
<1>1. CASE m \in [op : {"LOGIN_BY_KEY"}, desc : Descs, key : Keys]
  BY <1>1 DEF AskOf, LoadOf, Logouts, Setups
<1>2. CASE m \in [op : {"LOGOUT", "PLAYER_LOAD"}, desc : Descs]
  BY <1>2 DEF AskOf, LoadOf, Logouts, Setups
<1>3. CASE m \in [op : {"SETUP"}, keys : Seq(Keys)]
  BY <1>3 DEF AskOf, LoadOf, Logouts, Setups
<1> QED  BY <1>1, <1>2, <1>3 DEF ToDbMsg

LEMMA ToDbMade ==
    ASSUME NEW d \in Descs
    PROVE  /\ \A k \in Keys : [op |-> "LOGIN_BY_KEY", desc |-> d, key |-> k] \in ToDbMsg
           /\ [op |-> "LOGOUT", desc |-> d] \in ToDbMsg
           /\ [op |-> "PLAYER_LOAD", desc |-> d] \in ToDbMsg
           /\ \A keys \in Seq(Keys) : [op |-> "SETUP", keys |-> keys] \in ToDbMsg
  BY DEF ToDbMsg

LEMMA ToGameKinds ==
    ASSUME NEW m \in ToGameMsg
    PROVE  /\ m.desc \in Descs /\ m.op \in Answer
           /\ m.op \in LoginAnswers =>
                 /\ m \in HearOf(m.desc)
                 /\ \A d : (m \in HearOf(d) => d = m.desc) /\ m \notin ShowOf(d)
           /\ m.op \in LoadAnswers =>
                 /\ m \in ShowOf(m.desc)
                 /\ \A d : (m \in ShowOf(d) => d = m.desc) /\ m \notin HearOf(d)
           /\ m.op = "LOGIN_SUCCESS" <=> m \in Successes
  BY DEF ToGameMsg, HearOf, ShowOf, Successes, LoginAnswers, LoadAnswers, Answer

LEMMA ResultKinds ==
    ASSUME NEW r \in Pending
    PROVE  /\ r.desc \in Descs /\ r.peer \in Nat
           /\ r.qid \in LoginQids =>
                 /\ r \in PendOf(r.peer, r.desc)
                 /\ \A h, d : (r \in PendOf(h, d) => h = r.peer /\ d = r.desc)
                              /\ r \notin FetchOf(h, d)
           /\ r.qid = "PLAYER" =>
                 /\ r \in FetchOf(r.peer, r.desc)
                 /\ \A h, d : (r \in FetchOf(h, d) => h = r.peer /\ d = r.desc)
                              /\ r \notin PendOf(h, d)
  BY DEF Pending, PendOf, FetchOf, LoginQids, Qid

-----------------------------------------------------------------------------
(* What leaves a part of the invariant as it is.                           *)

LEMMA AskStays ==
    ASSUME NEW g \in Games, NEW d \in Descs, AskInv(g, d),
           Less(Asks(g, d), Asks(g, d)'), Less(Pends(g, d), Pends(g, d)'),
           Less(Hears(g, d), Hears(g, d)'),
           Some(Asks(g, d), Pends(g, d), Hears(g, d)) =>
              /\ desc'[d].game = desc[d].game
              /\ desc'[d].phase \in {desc[d].phase, "closed"}
    PROVE  AskInv(g, d)'
<1>1. Sole(Asks(g, d)', Pends(g, d)', Hears(g, d)')
  BY SoleLess DEF AskInv
<1>2. Some(Asks(g, d)', Pends(g, d)', Hears(g, d)') =>
         Some(Asks(g, d), Pends(g, d), Hears(g, d))
  BY SoleLess
<1> HIDE DEF Asks, Pends, Hears
<1> QED  BY <1>1, <1>2 DEF AskInv, Sole, Some

LEMMA LoadStays ==
    ASSUME NEW g \in Games, NEW d \in Descs, LoadInv(g, d),
           Less(Loads(g, d), Loads(g, d)'), Less(Fetches(g, d), Fetches(g, d)'),
           Less(Shows(g, d), Shows(g, d)'),
           Some(Loads(g, d), Fetches(g, d), Shows(g, d)) =>
              /\ desc'[d].game = desc[d].game
              /\ desc[d].phase \in Bound \cup {"closed"} =>
                    desc'[d].phase \in Bound \cup {"closed"}
    PROVE  LoadInv(g, d)'
<1>1. Some(Loads(g, d)', Fetches(g, d)', Shows(g, d)') =>
         Some(Loads(g, d), Fetches(g, d), Shows(g, d))
  BY SoleLess
<1> QED  BY <1>1 DEF LoadInv, Some

LEMMA HeldStays ==
    ASSUME NEW g \in Games, Same(BoundDescs(g), BoundDescs(g)'),
           Same(Wins(g), Wins(g)'), Same(Leaves(g), Leaves(g)')
    PROVE  /\ Sole(BoundDescs(g), Wins(g), Leaves(g)) =>
                 Sole(BoundDescs(g), Wins(g), Leaves(g))'
           /\ Held(g)' <=> Held(g)
<1>1. Sole(BoundDescs(g), Wins(g), Leaves(g)) =>
         Sole(BoundDescs(g)', Wins(g)', Leaves(g)')
  BY SoleLess DEF Same
<1>2. Some(BoundDescs(g)', Wins(g)', Leaves(g)') <=> Some(BoundDescs(g), Wins(g), Leaves(g))
  BY DEF Same, Less, Some
<1> QED  BY <1>1, <1>2 DEF Sole, Held, Some

LEMMA TokenStays ==
    ASSUME NEW g \in Games, TokenInv(g), losses' = losses,
           Same(BoundDescs(g), BoundDescs(g)'),
           Same(Wins(g), Wins(g)'), Same(Leaves(g), Leaves(g)'),
           LogonOfPeer(db, handle[g])' <=> LogonOfPeer(db, handle[g])
    PROVE  TokenInv(g)'
  BY HeldStays DEF TokenInv

LEMMA SetupStays ==
    ASSUME NEW g \in Games, SetupInv(g), losses # 0 => losses' # 0,
           In(toDb[g], Setups)' = In(toDb[g], Setups),
           In(toDb[g], Setups) # {} => Head(toDb'[g]).keys = Head(toDb[g]).keys,
           In(toDb[g], Setups) # {} /\ Held(g) => Held(g)'
    PROVE  SetupInv(g)'
  BY DEF SetupInv

LEMMA BackStays ==
    ASSUME BackInv, SameLogon(db, db'), handle' = handle,
           \A g \in Games : Held(g) => Held(g)'
    PROVE  BackInv'
<1>1. \A g \in Games : LogonOfPeer(db, handle[g]) => LogonOfPeer(db, handle[g])'
  BY DEF SameLogon, LogonOfPeer
<1> QED  BY <1>1 DEF BackInv, SameLogon

-----------------------------------------------------------------------------
(* Games that a step does not concern, and packets that are no SETUP.      *)

LEMMA Parts ==
    ASSUME IInv
    PROVE  /\ TypeOK /\ QueuesOK /\ Sound(db) /\ NetInv /\ KeyInv /\ BackInv /\ LatestInv
           /\ db \in LoginTables /\ nAuth \in 0..MaxAuth
           /\ \A g \in Games : /\ GameInv(g) /\ SetupInv(g) /\ TokenInv(g)
                               /\ \A d \in Descs : AskInv(g, d) /\ LoadInv(g, d)
                               /\ toDb[g] # <<>> \/ toGame[g] # <<>> => handle[g] # 0
  BY DEF IInv, GameInv, NetInv, QueuesOK, TypeOK, ToGameMsg, Pending

LEMMA NetStays ==
    ASSUME NetInv, UNCHANGED <<net, losses>>,
           \A g \in Games : handle[g] = 0 => toDb'[g] = <<>> /\ toGame'[g] = <<>>,
           \A h \in Nat, d \in Descs :
              /\ In(results', PendOf(h, d)) # {} =>
                    In(results, PendOf(h, d)) # {} \/ (h # 0 /\ h <= nHandle)
              /\ In(results', FetchOf(h, d)) # {} =>
                    In(results, FetchOf(h, d)) # {} \/ (h # 0 /\ h <= nHandle)
    PROVE  NetInv'
  BY DEF NetInv, net

LEMMA OtherGame ==
    ASSUME NEW h \in Games, GameInv(h), losses # 0 => losses' # 0,
           toDb'[h] = toDb[h], toGame'[h] = toGame[h],
           \A d \in Descs : /\ Less(Pends(h, d), Pends(h, d)')
                            /\ Less(Fetches(h, d), Fetches(h, d)'),
           \A d \in Descs : /\ desc[d].game = h /\ desc[d].phase # "free" => desc'[d] = desc[d]
                            /\ desc'[d].game = h => desc'[d] = desc[d],
           \/ losses' # 0
           \/ losses' = losses /\ (LogonOfPeer(db, handle[h])' <=> LogonOfPeer(db, handle[h]))
    PROVE  GameInv(h)' /\ (Held(h)' <=> Held(h))
<1>1. BoundDescs(h)' = BoundDescs(h)
  BY DEF BoundDescs, Bound
<1>2. Wins(h)' = Wins(h) /\ Leaves(h)' = Leaves(h)
      /\ In(toDb[h], Setups)' = In(toDb[h], Setups)
      /\ \A d \in Descs : /\ Asks(h, d)' = Asks(h, d) /\ Hears(h, d)' = Hears(h, d)
                          /\ Loads(h, d)' = Loads(h, d) /\ Shows(h, d)' = Shows(h, d)
  BY DEF Wins, Leaves, Asks, Hears, Loads, Shows
<1>3. ASSUME NEW d \in Descs PROVE AskInv(h, d)'
  <2>1. /\ AskInv(h, d) /\ Less(Asks(h, d), Asks(h, d)') /\ Less(Hears(h, d), Hears(h, d)')
        /\ Less(Pends(h, d), Pends(h, d)')
    BY <1>2, SameSelf DEF GameInv
  <2>2. Some(Asks(h, d), Pends(h, d), Hears(h, d)) =>
              /\ desc'[d].game = desc[d].game
              /\ desc'[d].phase \in {desc[d].phase, "closed"}
    BY <2>1 DEF AskInv
  <2> QED  BY <2>1, <2>2, AskStays
<1>4. ASSUME NEW d \in Descs PROVE LoadInv(h, d)'
  <2>1. /\ LoadInv(h, d) /\ Less(Loads(h, d), Loads(h, d)') /\ Less(Shows(h, d), Shows(h, d)')
        /\ Less(Fetches(h, d), Fetches(h, d)')
    BY <1>2, SameSelf DEF GameInv
  <2>2. Some(Loads(h, d), Fetches(h, d), Shows(h, d)) =>
              /\ desc'[d].game = desc[d].game
              /\ desc[d].phase \in Bound \cup {"closed"} =>
                    desc'[d].phase \in Bound \cup {"closed"}
    BY <2>1 DEF LoadInv, Bound
  <2> QED  BY <2>1, <2>2, LoadStays
<1>5. Held(h)' <=> Held(h)
  BY <1>1, <1>2 DEF Held
<1>6. TokenInv(h)'
  <2>1. CASE losses' # 0
    BY <2>1 DEF TokenInv
  <2>2. CASE losses' = losses /\ (LogonOfPeer(db, handle[h])' <=> LogonOfPeer(db, handle[h]))
    BY <1>1, <1>2, <2>2, SameSelf, TokenStays DEF GameInv
  <2> QED  BY <2>1, <2>2
<1>7. SetupInv(h)'
  BY <1>2, <1>5, SetupStays DEF GameInv
<1> QED  BY <1>3, <1>4, <1>5, <1>6, <1>7 DEF GameInv

LEMMA ConsumeSetup ==
    ASSUME QueuesOK, NEW g \in Games, SetupInv(g), toDb[g] # <<>>,
           Head(toDb[g]) \notin Setups, Consume(g)
    PROVE  SetupInv(g)'
<1>1. toDb[g] \in Seq(ToDbMsg)
  BY DEF QueuesOK
<1>2. Head(toDb[g]) = toDb[g][1]
  BY <1>1, InTail
<1>3. In(toDb[g], Setups) = {}
  BY <1>2 DEF SetupInv, In
<1>4. In(toDb'[g], Setups) = {}
  BY <1>3, ConsumeFacts DEF Less
<1> QED  BY <1>4 DEF SetupInv

LEMMA SendSetup ==
    ASSUME QueuesOK, NEW g \in Games, SetupInv(g), NEW m \in ToDbMsg, m \notin Setups,
           SendDb(g, m), losses' = losses, toDb[g] # <<>> /\ Held(g) => Held(g)'
    PROVE  SetupInv(g)'
<1>1. In(toDb'[g], Setups) = In(toDb[g], Setups)
  BY SendDbFacts
<1>2. In(toDb[g], Setups) # {} => toDb[g] # <<>>
  BY InEmpty
<1>3. In(toDb[g], Setups) # {} => Head(toDb'[g]) = Head(toDb[g])
  BY <1>2, SendDbFacts
<1> QED  BY <1>1, <1>2, <1>3, SetupStays

-----------------------------------------------------------------------------
(* The steps of the db process for one game.                               *)

LEMMA DbStep ==
    ASSUME IInv, NEW g \in Games, UNCHANGED <<net, losses, desc>>, handle[g] # 0,
           \A h \in Games : h # g => toDb'[h] = toDb[h] /\ toGame'[h] = toGame[h],
           \A h \in Nat, e \in Descs : h # handle[g] =>
              /\ Less(In(results, PendOf(h, e)), In(results', PendOf(h, e)))
              /\ Less(In(results, FetchOf(h, e)), In(results', FetchOf(h, e))),
           \A e \in Descs :
              /\ Some(Asks(g, e), Pends(g, e), Hears(g, e))' =>
                    Some(Asks(g, e), Pends(g, e), Hears(g, e))
              /\ Sole(Asks(g, e), Pends(g, e), Hears(g, e))',
           \A e \in Descs :
              Some(Loads(g, e), Fetches(g, e), Shows(g, e))' =>
                 Some(Loads(g, e), Fetches(g, e), Shows(g, e)),
           \A h \in Games : h # g =>
              (LogonOfPeer(db, handle[h])' <=> LogonOfPeer(db, handle[h]))
    PROVE  /\ NetInv' /\ KeyInv'
           /\ \A h \in Games : h # g => GameInv(h)' /\ (Held(h)' <=> Held(h))
           /\ \A e \in Descs : AskInv(g, e)' /\ LoadInv(g, e)'
<1>1. /\ NetInv /\ KeyInv
      /\ \A h \in Games : GameInv(h) /\ \A e \in Descs : AskInv(h, e) /\ LoadInv(h, e)
  BY Parts
<1>2. handle' = handle /\ desc' = desc
  BY DEF net
<1>3. handle \in [Games -> Nat]
  BY DEF IInv, TypeOK
<1>4. NetInv'
  <2>1. \A h \in Games : handle[h] = 0 => toDb'[h] = <<>> /\ toGame'[h] = <<>>
    BY <1>1 DEF NetInv
  <2>2. handle[g] \in Nat /\ handle[g] <= nHandle
    BY <1>1, <1>3 DEF NetInv
  <2>3. \A h \in Nat, e \in Descs :
           /\ In(results', PendOf(h, e)) # {} =>
                 In(results, PendOf(h, e)) # {} \/ (h # 0 /\ h <= nHandle)
           /\ In(results', FetchOf(h, e)) # {} =>
                 In(results, FetchOf(h, e)) # {} \/ (h # 0 /\ h <= nHandle)
    BY <2>2 DEF Less
  <2> QED  BY <1>1, <2>1, <2>3, NetStays
<1>5. KeyInv'
  BY <1>1, <1>2 DEF KeyInv
<1>6. ASSUME NEW h \in Games, h # g PROVE GameInv(h)' /\ (Held(h)' <=> Held(h))
  <2>1. handle[h] # handle[g] /\ handle[h] \in Nat
    BY <1>1, <1>3, <1>6 DEF NetInv
  <2>2. \A e \in Descs : /\ Less(Pends(h, e), Pends(h, e)')
                         /\ Less(Fetches(h, e), Fetches(h, e)')
    BY <1>2, <2>1 DEF Pends, Fetches
  <2>3. GameInv(h) /\ toDb'[h] = toDb[h] /\ toGame'[h] = toGame[h]
        /\ (LogonOfPeer(db, handle[h])' <=> LogonOfPeer(db, handle[h])) /\ losses' = losses
    BY <1>1, <1>6
  <2> QED  BY <1>2, <2>2, <2>3, OtherGame
<1>7. ASSUME NEW e \in Descs PROVE AskInv(g, e)' /\ LoadInv(g, e)'
  BY <1>1, <1>2 DEF AskInv, LoadInv, Sole, Some
<1> QED  BY <1>4, <1>5, <1>6, <1>7

(* Such a step, when it leaves the account logged on as it was.            *)
LEMMA QuietStep ==
    ASSUME IInv, NEW g \in Games, TypeOK',
           NetInv', KeyInv', SetupInv(g)', handle' = handle, losses' = losses,
           nAuth' = nAuth,
           \A h \in Games : h # g => GameInv(h)' /\ (Held(h)' <=> Held(h)),
           \A e \in Descs : AskInv(g, e)' /\ LoadInv(g, e)',
           Same(BoundDescs(g), BoundDescs(g)'),
           Same(Wins(g), Wins(g)'), Same(Leaves(g), Leaves(g)'),
           Sound(db'), SameLogon(db, db'),
           \A n \in Nat : Latest(db, n) => Latest(db', n)
    PROVE  IInv'
<1>1. TokenInv(g) /\ BackInv /\ LatestInv /\ nAuth \in Nat
  BY Parts
<1>2. Held(g)' <=> Held(g)
  BY HeldStays
<1>3. LogonOfPeer(db, handle[g])' <=> LogonOfPeer(db, handle[g])
  BY DEF SameLogon, LogonOfPeer
<1>4. TokenInv(g)'
  BY <1>1, <1>3, TokenStays
<1>5. \A h \in Games : Held(h) => Held(h)'
  BY <1>2
<1>6. BackInv'
  BY <1>1, <1>5, BackStays
<1>7. LatestInv'
  BY <1>1 DEF LatestInv
<1>8. \A h \in Games : GameInv(h)'
  BY <1>4 DEF GameInv
<1> QED  BY <1>6, <1>7, <1>8 DEF IInv

LEMMA SameLogonSelf == \A t : SameLogon(t, t)
  BY DEF SameLogon

(* An answer to d, and a query for d, among what is under way.             *)
LEMMA ReplyMade ==
    ASSUME QueuesOK, NEW g \in Games, NEW d \in Descs, NEW op \in Answer, Reply(g, d, op)
    PROVE  /\ toGame' \in [Games -> Seq(ToGameMsg)]
           /\ \A h \in Games : h # g => toGame'[h] = toGame[h]
           /\ op \in LoginAnswers =>
                 /\ Hears(g, d)' = Hears(g, d) \cup {Len(toGame[g]) + 1}
                 /\ \A e : e # d => Hears(g, e)' = Hears(g, e)
                 /\ \A e : Shows(g, e)' = Shows(g, e)
           /\ op \in LoadAnswers =>
                 /\ \A e : Hears(g, e)' = Hears(g, e)
                 /\ \A e : e # d => Shows(g, e)' = Shows(g, e)
           /\ op = "LOGIN_SUCCESS" => Wins(g)' = Wins(g) \cup {Len(toGame[g]) + 1}
           /\ op # "LOGIN_SUCCESS" => Wins(g)' = Wins(g)
<1> DEFINE a == [op |-> op, desc |-> d]
<1>1. a \in ToGameMsg /\ a.op = op /\ a.desc = d
  BY DEF ToGameMsg
<1>2. /\ op \in LoginAnswers => /\ a \in HearOf(d)
                                /\ \A e : (a \in HearOf(e) => e = d) /\ a \notin ShowOf(e)
      /\ op \in LoadAnswers => \A e : (a \in ShowOf(e) => e = d) /\ a \notin HearOf(e)
      /\ op = "LOGIN_SUCCESS" <=> a \in Successes
  BY <1>1, ToGameKinds
<1>3. /\ toGame' \in [Games -> Seq(ToGameMsg)]
      /\ \A h \in Games : h # g => toGame'[h] = toGame[h]
      /\ \A S : a \notin S => In(toGame'[g], S) = In(toGame[g], S)
      /\ \A S : a \in S => In(toGame'[g], S) = In(toGame[g], S) \cup {Len(toGame[g]) + 1}
  BY ReplyFacts
<1> HIDE DEF a
<1>4. ASSUME op \in LoginAnswers
      PROVE  /\ Hears(g, d)' = Hears(g, d) \cup {Len(toGame[g]) + 1}
             /\ \A e : e # d => Hears(g, e)' = Hears(g, e)
             /\ \A e : Shows(g, e)' = Shows(g, e)
  BY <1>2, <1>3, <1>4 DEF Hears, Shows
<1>5. ASSUME op \in LoadAnswers
      PROVE  /\ \A e : Hears(g, e)' = Hears(g, e)
             /\ \A e : e # d => Shows(g, e)' = Shows(g, e)
  BY <1>2, <1>3, <1>5 DEF Hears, Shows
<1>6. /\ op = "LOGIN_SUCCESS" => Wins(g)' = Wins(g) \cup {Len(toGame[g]) + 1}
      /\ op # "LOGIN_SUCCESS" => Wins(g)' = Wins(g)
  BY <1>2, <1>3 DEF Wins
<1> QED  BY <1>3, <1>4, <1>5, <1>6

(* QUERY_LOGIN_BY_KEY: the question becomes a query or an answer.          *)
LEMMA AskStep ==
    ASSUME IInv, NEW g \in Games, QUERY_LOGIN_BY_KEY(g)
    PROVE  IInv'
<1>1. toDb[g] # <<>> /\ Head(toDb[g]).op = "LOGIN_BY_KEY" /\ Consume(g)
      /\ UNCHANGED <<db, busy, player_index, logoutTimer, net, desc, nAuth, losses>>
  BY DEF QUERY_LOGIN_BY_KEY, Packet
<1>2. /\ TypeOK /\ QueuesOK /\ Sound(db) /\ SetupInv(g) /\ handle[g] # 0 /\ handle[g] \in Nat
      /\ \A e \in Descs : AskInv(g, e) /\ LoadInv(g, e)
  BY <1>1, Parts DEF TypeOK
<1>3. PICK m \in ToDbMsg :
      /\ m = Head(toDb[g])
      /\ toDb' \in [Games -> Seq(ToDbMsg)]
      /\ \A h \in Games : h # g => toDb'[h] = toDb[h]
      /\ \A S : Less(In(toDb[g], S), In(toDb'[g], S))
      /\ \A S : m \notin S => Same(In(toDb[g], S), In(toDb'[g], S))
      /\ \A S : m \in S =>
             In(toDb[g], S) # {} /\ (Few(In(toDb[g], S)) => In(toDb'[g], S) = {})
  BY <1>1, <1>2, ConsumeFacts
<1>4. PICK d \in Descs :
      /\ d = m.desc /\ m \in AskOf(d) /\ m \notin Logouts /\ m \notin Setups
      /\ \A e : (m \in AskOf(e) => e = d) /\ m \notin LoadOf(e)
  BY <1>1, <1>3, ToDbKinds
<1> DEFINE r == [qid |-> "LOGIN_BY_KEY", peer |-> handle[g], desc |-> d]
<1>5. /\ \A e : Less(Asks(g, e), Asks(g, e)') /\ Less(Loads(g, e), Loads(g, e)')
      /\ Same(Leaves(g), Leaves(g)')
      /\ Asks(g, d) # {} /\ (Few(Asks(g, d)) => Asks(g, d)' = {})
  BY <1>3, <1>4 DEF Asks, Loads, Leaves
<1>6. /\ Asks(g, d)' = {} /\ Pends(g, d) = {} /\ Hears(g, d) = {}
  BY <1>2, <1>4, <1>5 DEF AskInv, Sole
<1>7. \/ \E op \in {"LOGIN_NOT_EXIST", "LOGIN_ALREADY"} :
             Reply(g, d, op) /\ results' = results
      \/ results' = Append(results, r) /\ toGame' = toGame
  BY <1>3, <1>4 DEF QUERY_LOGIN_BY_KEY, Query
<1>8. r \in Pending /\ r.qid = "LOGIN_BY_KEY" /\ r.peer = handle[g] /\ r.desc = d
  BY <1>2, <1>4 DEF Pending, Qid
<1>9. /\ r \in PendOf(handle[g], d)
      /\ \A h, e : r \in PendOf(h, e) => h = handle[g] /\ e = d
      /\ \A h, e : r \notin FetchOf(h, e)
  BY <1>8, ResultKinds DEF LoginQids
<1> HIDE DEF r
<1> DEFINE Became ==
       /\ QueuesOK'
       /\ \A h \in Games : h # g => toGame'[h] = toGame[h]
       /\ Wins(g)' = Wins(g)
       /\ \A e : Shows(g, e)' = Shows(g, e)
       /\ \A e \in Descs : e # d => Hears(g, e)' = Hears(g, e)
       /\ \A h, e : In(results', FetchOf(h, e)) = In(results, FetchOf(h, e))
       /\ \A h, e : h # handle[g] \/ e # d =>
             In(results', PendOf(h, e)) = In(results, PendOf(h, e))
       /\ Few(In(results', PendOf(handle[g], d))) /\ Few(Hears(g, d)')
       /\ In(results', PendOf(handle[g], d)) = {} \/ Hears(g, d)' = {}
<1>10. ASSUME NEW op \in {"LOGIN_NOT_EXIST", "LOGIN_ALREADY"},
              Reply(g, d, op), results' = results
       PROVE  Became
  <2>1. op \in Answer /\ op \in LoginAnswers /\ op # "LOGIN_SUCCESS"
    BY DEF Answer, LoginAnswers
  <2>3. /\ toGame' \in [Games -> Seq(ToGameMsg)]
        /\ \A h \in Games : h # g => toGame'[h] = toGame[h]
        /\ \A e : Shows(g, e)' = Shows(g, e)
        /\ \A e : e # d => Hears(g, e)' = Hears(g, e)
        /\ Hears(g, d)' = Hears(g, d) \cup {Len(toGame[g]) + 1}
        /\ Wins(g)' = Wins(g)
    BY <1>2, <1>10, <2>1, ReplyMade
  <2>5. Hears(g, d)' = {Len(toGame[g]) + 1}
    BY <1>6, <2>3
  <2>6. In(results', PendOf(handle[g], d)) = {}
    BY <1>6, <1>10 DEF Pends
  <2> QED  BY <1>2, <1>3, <1>10, <2>3, <2>5, <2>6, FewOne, FewNone DEF QueuesOK
<1>11. ASSUME results' = Append(results, r), toGame' = toGame PROVE Became
  <2>1. /\ results' \in Seq(Pending)
        /\ \A S : r \notin S => In(results', S) = In(results, S)
        /\ \A S : r \in S => In(results', S) = In(results, S) \cup {Len(results) + 1}
    BY <1>2, <1>8, <1>11, QueryFacts
  <2>2. In(results', PendOf(handle[g], d)) = {Len(results) + 1}
    BY <1>6, <1>9, <2>1 DEF Pends
  <2>3. /\ \A h, e : In(results', FetchOf(h, e)) = In(results, FetchOf(h, e))
        /\ \A h, e : h # handle[g] \/ e # d =>
             In(results', PendOf(h, e)) = In(results, PendOf(h, e))
    BY <1>9, <2>1
  <2>4. Wins(g)' = Wins(g) /\ \A e : Shows(g, e)' = Shows(g, e) /\ Hears(g, e)' = Hears(g, e)
    BY <1>11 DEF Wins, Shows, Hears
  <2>5. Hears(g, d)' = {} /\ Few({})
    BY <1>6, <2>4, FewNone
  <2> QED  BY <1>2, <1>3, <1>11, <2>1, <2>2, <2>3, <2>4, <2>5, FewOne DEF QueuesOK
<1>12. Became
  BY <1>7, <1>10, <1>11
<1>13. handle' = handle /\ \A e : /\ Pends(g, e)' = In(results', PendOf(handle[g], e))
                                  /\ Fetches(g, e)' = Fetches(g, e)
  BY <1>1, <1>12 DEF net, Pends, Fetches
<1>14. /\ NetInv' /\ KeyInv'
       /\ \A h \in Games : h # g => GameInv(h)' /\ (Held(h)' <=> Held(h))
       /\ \A e \in Descs : AskInv(g, e)' /\ LoadInv(g, e)'
  <2>1. ASSUME NEW e \in Descs
        PROVE  /\ Some(Asks(g, e), Pends(g, e), Hears(g, e))' =>
                    Some(Asks(g, e), Pends(g, e), Hears(g, e))
               /\ Sole(Asks(g, e), Pends(g, e), Hears(g, e))'
    <3>1. CASE e = d
      <4>1. /\ Asks(g, d)' = {} /\ Few(Pends(g, d)') /\ Few(Hears(g, d)')
            /\ Pends(g, d)' = {} \/ Hears(g, d)' = {}
            /\ Asks(g, d) # {}
        BY <1>5, <1>6, <1>12, <1>13
      <4> HIDE DEF Became
      <4> QED  BY <3>1, <4>1, FewNone DEF Sole, Some
    <3>2. CASE e # d
      <4>1. Pends(g, e)' = Pends(g, e) /\ Hears(g, e)' = Hears(g, e)
        BY <1>12, <1>13, <3>2 DEF Pends
      <4> QED  BY <1>2, <1>5, <4>1 DEF Less, Sole, Some, AskInv
    <3> QED  BY <3>1, <3>2
  <2>2. \A e \in Descs : Some(Loads(g, e), Fetches(g, e), Shows(g, e))' =>
                 Some(Loads(g, e), Fetches(g, e), Shows(g, e))
    BY <1>5, <1>12, <1>13 DEF Less, Some
  <2>3. \A h \in Nat, e \in Descs : h # handle[g] =>
              /\ Less(In(results, PendOf(h, e)), In(results', PendOf(h, e)))
              /\ Less(In(results, FetchOf(h, e)), In(results', FetchOf(h, e)))
    BY <1>12, SameSelf
  <2>4. \A h \in Games : LogonOfPeer(db, handle[h])' <=> LogonOfPeer(db, handle[h])
    BY <1>1, <1>13
  <2> QED  BY <1>1, <1>2, <1>3, <1>12, <2>1, <2>2, <2>3, <2>4, DbStep
<1>15. SetupInv(g)'
  BY <1>1, <1>2, <1>3, <1>4, ConsumeSetup
<1>16. TypeOK'
  BY <1>1, <1>2, <1>12 DEF TypeOK, net, QueuesOK, ToGameMsg, Pending
<1>17. BoundDescs(g)' = BoundDescs(g)
  BY <1>1 DEF BoundDescs
<1> QED  BY <1>1, <1>2, <1>5, <1>12, <1>13, <1>14, <1>15, <1>16, <1>17, SameSelf,
            SameLogonSelf, QuietStep

(* The peer that logged the account on is known by its handle.             *)
LEMMA OnePeer ==
    ASSUME NetInv, handle \in [Games -> Nat], NEW g \in Games, NEW h \in Games, h # g,
           handle[g] # 0, LogonOfPeer(db, handle[g])
    PROVE  ~LogonOfPeer(db, handle[h])
  BY DEF NetInv, LogonOfPeer

(* QUERY_LOGOUT: the token that the logout was is gone, and so is the      *)
(* logon entry.                                                            *)
LEMMA LogoutStep ==
    ASSUME IInv, NEW g \in Games, QUERY_LOGOUT(g)
    PROVE  IInv'
<1>1. toDb[g] # <<>> /\ Head(toDb[g]).op = "LOGOUT" /\ Consume(g)
      /\ UNCHANGED <<busy, player_index, results, net, toGame, desc, nAuth, losses>>
  BY DEF QUERY_LOGOUT, Packet
<1>2. /\ TypeOK /\ QueuesOK /\ Sound(db) /\ SetupInv(g) /\ handle[g] # 0
      /\ handle \in [Games -> Nat] /\ NetInv /\ TokenInv(g) /\ BackInv /\ LatestInv
      /\ db \in LoginTables /\ nAuth \in Nat
      /\ \A h \in Games, e \in Descs : AskInv(h, e) /\ LoadInv(h, e)
  <2>1. handle \in [Games -> Nat]
    BY DEF IInv, TypeOK
  <2> QED  BY <1>1, <2>1, Parts
<1>3. PICK m \in ToDbMsg :
      /\ m = Head(toDb[g])
      /\ toDb' \in [Games -> Seq(ToDbMsg)]
      /\ \A h \in Games : h # g => toDb'[h] = toDb[h]
      /\ \A S : Less(In(toDb[g], S), In(toDb'[g], S))
      /\ \A S : m \in S =>
             In(toDb[g], S) # {} /\ (Few(In(toDb[g], S)) => In(toDb'[g], S) = {})
  BY <1>1, <1>2, ConsumeFacts
<1>4. m \in Logouts /\ m \notin Setups
  BY <1>1, <1>3, ToDbKinds
<1>5. /\ \A e : Less(Asks(g, e), Asks(g, e)') /\ Less(Loads(g, e), Loads(g, e)')
      /\ Leaves(g) # {} /\ (Few(Leaves(g)) => Leaves(g)' = {})
  BY <1>3, <1>4 DEF Asks, Loads, Leaves
<1>6. /\ handle' = handle /\ Wins(g)' = Wins(g) /\ BoundDescs(g)' = BoundDescs(g)
      /\ \A e : /\ Pends(g, e)' = Pends(g, e) /\ Fetches(g, e)' = Fetches(g, e)
                /\ Hears(g, e)' = Hears(g, e) /\ Shows(g, e)' = Shows(g, e)
  BY <1>1 DEF net, Wins, BoundDescs, Pends, Fetches, Hears, Shows
<1>7. /\ db' \in LoginTables /\ Sound(db') /\ \A n \in Nat : Latest(db, n) => Latest(db', n)
  BY <1>2, ClearTables DEF QUERY_LOGOUT, LogonOfPeer
<1>8. \/ LogonOfPeer(db, handle[g]) /\ db'.logon = NULL
      \/ ~LogonOfPeer(db, handle[g]) /\ db' = db
  <2>1. LogonOfPeer(db, handle[g]) => db.logon # NULL /\ db.byLogin # NULL
    BY <1>2 DEF LogonOfPeer, Sound
  <2> QED  BY <1>2, <2>1, ClearTables DEF QUERY_LOGOUT
<1>9. \A h \in Games : h # g => (LogonOfPeer(db, handle[h])' <=> LogonOfPeer(db, handle[h]))
  BY <1>2, <1>6, <1>8, OnePeer DEF LogonOfPeer
<1>10. /\ NetInv' /\ KeyInv'
       /\ \A h \in Games : h # g => GameInv(h)' /\ (Held(h)' <=> Held(h))
       /\ \A e \in Descs : AskInv(g, e)' /\ LoadInv(g, e)'
  <2>1. ASSUME NEW e \in Descs
        PROVE  /\ Some(Asks(g, e), Pends(g, e), Hears(g, e))' =>
                    Some(Asks(g, e), Pends(g, e), Hears(g, e))
               /\ Sole(Asks(g, e), Pends(g, e), Hears(g, e))'
    BY <1>2, <1>5, <1>6 DEF Less, Sole, Some, AskInv
  <2>2. \A e \in Descs : Some(Loads(g, e), Fetches(g, e), Shows(g, e))' =>
                 Some(Loads(g, e), Fetches(g, e), Shows(g, e))
    BY <1>5, <1>6 DEF Less, Some
  <2>3. \A S : Less(In(results, S), In(results', S))
    BY <1>1, SameSelf
  <2> QED  BY <1>1, <1>2, <1>3, <1>9, <2>1, <2>2, <2>3, DbStep
<1>11. SetupInv(g)'
  BY <1>1, <1>2, <1>3, <1>4, ConsumeSetup
<1>12. TypeOK'
  <2>1. logoutTimer' \in BOOLEAN
    <3>1. CASE db.byLogin = NULL
      BY <1>2, <3>1 DEF TypeOK, QUERY_LOGOUT
    <3>2. CASE db.byLogin # NULL
      <4>1. logoutTimer' = (logoutTimer \/ db.ld[db.byLogin].loaded)
        BY <3>2 DEF QUERY_LOGOUT
      <4> QED  BY <4>1
    <3> QED  BY <3>1, <3>2
  <2> QED  BY <1>1, <1>2, <1>3, <1>7, <2>1 DEF TypeOK, net
<1>13. TokenInv(g)'
  <2> SUFFICES ASSUME losses = 0
               PROVE  /\ Sole(BoundDescs(g), Wins(g), Leaves(g))'
                      /\ ~Held(g)' /\ ~LogonOfPeer(db, handle[g])'
    BY <1>1 DEF TokenInv
  <2>1. /\ Sole(BoundDescs(g), Wins(g), Leaves(g)) /\ Held(g) /\ LogonOfPeer(db, handle[g])
    BY <1>2, <1>5 DEF TokenInv, Held, Some
  <2>2. BoundDescs(g)' = {} /\ Wins(g)' = {} /\ Leaves(g)' = {}
    BY <1>5, <1>6, <2>1 DEF Sole
  <2>3. db'.logon = NULL
    BY <1>8, <2>1
  <2> QED  BY <2>2, <2>3, FewNone DEF Sole, Held, Some, LogonOfPeer
<1>14. BackInv'
  <2> SUFFICES ASSUME db'.logon # NULL
               PROVE  /\ db'.ld[db'.logon].peer # 0
                      /\ \E h \in Games : LogonOfPeer(db, handle[h])' /\ Held(h)'
    BY DEF BackInv
  <2>1. ~LogonOfPeer(db, handle[g]) /\ db' = db /\ db.logon # NULL
    BY <1>8
  <2>2. PICK h \in Games : LogonOfPeer(db, handle[h]) /\ Held(h)
    BY <1>2, <2>1 DEF BackInv
  <2>3. h # g
    BY <2>1, <2>2
  <2> QED  BY <1>2, <1>9, <1>10, <2>1, <2>2, <2>3 DEF BackInv
<1>15. LatestInv'
  BY <1>1, <1>2, <1>7 DEF LatestInv
<1>16. \A h \in Games : GameInv(h)'
  BY <1>10, <1>11, <1>13 DEF GameInv
<1> QED  BY <1>7, <1>10, <1>12, <1>14, <1>15, <1>16 DEF IInv

(* SetPlay(true) or a refusal: the account stays logged on as it was.      *)
LEMMA GrantPlayFacts ==
    ASSUME QueuesOK, Sound(db), db \in LoginTables, NEW g \in Games, NEW d \in Descs,
           GrantPlay(g, d)
    PROVE  /\ toGame' \in [Games -> Seq(ToGameMsg)]
           /\ \A h \in Games : h # g => toGame'[h] = toGame[h]
           /\ \A e : Hears(g, e)' = Hears(g, e)
           /\ \A e : e # d => Shows(g, e)' = Shows(g, e)
           /\ Wins(g)' = Wins(g)
           /\ db' \in LoginTables /\ Sound(db') /\ SameLogon(db, db')
           /\ \A n \in Nat : Latest(db, n) => Latest(db', n)
<1>1. PICK op \in LoadAnswers : Reply(g, d, op)
  BY DEF GrantPlay, LoadAnswers
<1>2. op \in Answer /\ op # "LOGIN_SUCCESS"
  BY DEF Answer, LoadAnswers
<1>3. /\ toGame' \in [Games -> Seq(ToGameMsg)]
      /\ \A h \in Games : h # g => toGame'[h] = toGame[h]
      /\ \A e : Hears(g, e)' = Hears(g, e)
      /\ \A e : e # d => Shows(g, e)' = Shows(g, e)
      /\ Wins(g)' = Wins(g)
  BY <1>1, <1>2, ReplyMade
<1>4. \/ db' = db
      \/ db.byLogin # NULL /\ db' = [db EXCEPT !.ld[db.byLogin].play = TRUE]
  BY DEF GrantPlay
<1> QED  BY <1>3, <1>4, PlayTables, SameLogonSelf

(* QUERY_PLAYER_LOAD                                                       *)
LEMMA LoadStep ==
    ASSUME IInv, NEW g \in Games, QUERY_PLAYER_LOAD(g)
    PROVE  IInv'
<1>1. toDb[g] # <<>> /\ Head(toDb[g]).op = "PLAYER_LOAD" /\ Consume(g)
      /\ UNCHANGED <<busy, player_index, net, desc, nAuth, losses>>
  BY DEF QUERY_PLAYER_LOAD, Packet
<1>2. /\ TypeOK /\ QueuesOK /\ Sound(db) /\ SetupInv(g) /\ handle[g] # 0 /\ handle[g] \in Nat
      /\ db \in LoginTables
      /\ \A e \in Descs : AskInv(g, e) /\ LoadInv(g, e)
  BY <1>1, Parts DEF TypeOK
<1>3. PICK m \in ToDbMsg :
      /\ m = Head(toDb[g])
      /\ toDb' \in [Games -> Seq(ToDbMsg)]
      /\ \A h \in Games : h # g => toDb'[h] = toDb[h]
      /\ \A S : Less(In(toDb[g], S), In(toDb'[g], S))
      /\ \A S : m \notin S => Same(In(toDb[g], S), In(toDb'[g], S))
      /\ \A S : m \in S => In(toDb[g], S) # {}
  BY <1>1, <1>2, ConsumeFacts
<1>4. PICK d \in Descs :
      /\ d = m.desc /\ m \in LoadOf(d) /\ m \notin Logouts /\ m \notin Setups
  BY <1>1, <1>3, ToDbKinds
<1> DEFINE r == [qid |-> "PLAYER", peer |-> handle[g], desc |-> d]
<1>5. /\ \A e : Less(Asks(g, e), Asks(g, e)') /\ Less(Loads(g, e), Loads(g, e)')
      /\ Same(Leaves(g), Leaves(g)')
      /\ Loads(g, d) # {}
  BY <1>3, <1>4 DEF Asks, Loads, Leaves
<1>6. \/ GrantPlay(g, d) /\ results' = results
      \/ results' = Append(results, r) /\ db' = db /\ toGame' = toGame
  BY <1>3, <1>4 DEF QUERY_PLAYER_LOAD, Query
<1>7. r \in Pending /\ r.qid = "PLAYER" /\ r.peer = handle[g] /\ r.desc = d
  BY <1>2, <1>4 DEF Pending, Qid
<1>8. /\ \A h, e : r \in FetchOf(h, e) => h = handle[g] /\ e = d
      /\ \A h, e : r \notin PendOf(h, e)
  BY <1>7, ResultKinds
<1> HIDE DEF r
<1> DEFINE Became ==
       /\ QueuesOK'
       /\ \A h \in Games : h # g => toGame'[h] = toGame[h]
       /\ Wins(g)' = Wins(g)
       /\ \A e : Hears(g, e)' = Hears(g, e)
       /\ \A e \in Descs : e # d => Shows(g, e)' = Shows(g, e)
       /\ \A h, e : In(results', PendOf(h, e)) = In(results, PendOf(h, e))
       /\ \A h, e : h # handle[g] \/ e # d =>
             In(results', FetchOf(h, e)) = In(results, FetchOf(h, e))
       /\ db' \in LoginTables /\ Sound(db') /\ SameLogon(db, db')
       /\ \A n \in Nat : Latest(db, n) => Latest(db', n)
<1>9. ASSUME GrantPlay(g, d), results' = results PROVE Became
  BY <1>2, <1>3, <1>9, GrantPlayFacts DEF QueuesOK
<1>10. ASSUME results' = Append(results, r), db' = db, toGame' = toGame PROVE Became
  <2>1. /\ results' \in Seq(Pending)
        /\ \A S : r \notin S => In(results', S) = In(results, S)
    BY <1>2, <1>7, <1>10, QueryFacts
  <2>2. /\ \A h, e : In(results', PendOf(h, e)) = In(results, PendOf(h, e))
        /\ \A h, e : h # handle[g] \/ e # d =>
             In(results', FetchOf(h, e)) = In(results, FetchOf(h, e))
    BY <1>8, <2>1
  <2>3. Wins(g)' = Wins(g) /\ \A e : Shows(g, e)' = Shows(g, e) /\ Hears(g, e)' = Hears(g, e)
    BY <1>10 DEF Wins, Shows, Hears
  <2> QED  BY <1>2, <1>3, <1>10, <2>1, <2>2, <2>3, SameLogonSelf DEF QueuesOK
<1>11. Became
  BY <1>6, <1>9, <1>10
<1>12. handle' = handle /\ \A e : /\ Pends(g, e)' = Pends(g, e)
                                  /\ e # d => Fetches(g, e)' = Fetches(g, e)
  BY <1>1, <1>11 DEF net, Pends, Fetches
<1>13. /\ NetInv' /\ KeyInv'
       /\ \A h \in Games : h # g => GameInv(h)' /\ (Held(h)' <=> Held(h))
       /\ \A e \in Descs : AskInv(g, e)' /\ LoadInv(g, e)'
  <2>1. ASSUME NEW e \in Descs
        PROVE  /\ Some(Asks(g, e), Pends(g, e), Hears(g, e))' =>
                    Some(Asks(g, e), Pends(g, e), Hears(g, e))
               /\ Sole(Asks(g, e), Pends(g, e), Hears(g, e))'
    BY <1>2, <1>5, <1>11, <1>12 DEF Less, Sole, Some, AskInv
  <2>2. ASSUME NEW e \in Descs, Some(Loads(g, e), Fetches(g, e), Shows(g, e))'
        PROVE  Some(Loads(g, e), Fetches(g, e), Shows(g, e))
    <3>1. CASE e = d
      BY <1>5, <3>1 DEF Some
    <3>2. CASE e # d
      BY <1>5, <1>11, <1>12, <2>2, <3>2 DEF Less, Some
    <3> QED  BY <3>1, <3>2
  <2>3. \A h \in Nat, e \in Descs : h # handle[g] =>
              /\ Less(In(results, PendOf(h, e)), In(results', PendOf(h, e)))
              /\ Less(In(results, FetchOf(h, e)), In(results', FetchOf(h, e)))
    BY <1>11, SameSelf
  <2>4. \A h \in Games : LogonOfPeer(db, handle[h])' <=> LogonOfPeer(db, handle[h])
    BY <1>11, <1>12 DEF SameLogon, LogonOfPeer
  <2> QED  BY <1>1, <1>2, <1>3, <1>11, <2>1, <2>2, <2>3, <2>4, DbStep
<1>14. SetupInv(g)'
  BY <1>1, <1>2, <1>3, <1>4, ConsumeSetup
<1>15. TypeOK'
  <2>1. logoutTimer' \in BOOLEAN
    BY DEF QUERY_PLAYER_LOAD
  <2> QED  BY <1>1, <1>2, <1>11, <2>1 DEF TypeOK, net, QueuesOK, ToGameMsg, Pending
<1>16. BoundDescs(g)' = BoundDescs(g)
  BY <1>1 DEF BoundDescs
<1> QED  BY <1>1, <1>2, <1>5, <1>11, <1>12, <1>13, <1>14, <1>15, <1>16, SameSelf, QuietStep

(* One login of a SETUP packet: a CLoginData for its key, and the logon    *)
(* unless somebody has logged the account on.                              *)
LEMMA SetupTables ==
    ASSUME NEW t \in LoginTables, Sound(t), NEW k \in Keys, NEW h \in Nat
    PROVE  LET l == Len(t.ld) + 1
               u == InsertLoginData(NewLoginData(t, k), l)
               v == LogonPlayed(u, h, l)
           IN  /\ u \in LoginTables /\ Sound(u) /\ SameLogon(t, u)
               /\ v \in LoginTables /\ Sound(v)
               /\ v.logon # NULL /\ v.ld[v.logon].peer = h
               /\ InsertLogonAccountFails(u) <=> t.logon # NULL
<1> DEFINE l == Len(t.ld) + 1
           u == InsertLoginData(NewLoginData(t, k), l)
           v == LogonPlayed(u, h, l)
<1>1. /\ u \in LoginTables /\ Sound(u) /\ u.byLogin # NULL
      /\ u.logon = t.logon /\ l \in DOMAIN u.ld
      /\ \A i \in DOMAIN t.ld : i \in DOMAIN u.ld /\ u.ld[i] = t.ld[i]
  BY InsertNew DEF Sound
<1>2. SameLogon(t, u)
  BY <1>1 DEF SameLogon, Sound, Pointers
<1>3. InsertLogonAccountFails(u) <=> t.logon # NULL
  BY <1>1 DEF InsertLogonAccountFails
<1> HIDE DEF u, l
<1>4. /\ v \in LoginTables /\ Sound(v) /\ v.logon # NULL /\ v.ld[v.logon].peer = h
  BY <1>1, LogonTables
<1> QED  BY <1>1, <1>2, <1>3, <1>4 DEF u, l

(* QUERY_SETUP: after a loss the tokens no longer count the sessions, but  *)
(* the account is logged on only for a game that still has one.            *)
LEMMA SetupStep ==
    ASSUME IInv, NEW g \in Games, QUERY_SETUP(g)
    PROVE  IInv'
<1>1. toDb[g] # <<>> /\ Head(toDb[g]).op = "SETUP"
      /\ UNCHANGED <<player_index, results, logoutTimer, net, toGame, desc, nAuth, losses>>
  BY DEF QUERY_SETUP
<1>2. /\ TypeOK /\ QueuesOK /\ Sound(db) /\ SetupInv(g) /\ handle[g] # 0
      /\ NetInv /\ BackInv /\ db \in LoginTables
      /\ \A h \in Games, e \in Descs : AskInv(h, e) /\ LoadInv(h, e)
  BY <1>1, Parts
<1>3. handle \in [Games -> Nat]
  BY <1>2 DEF TypeOK
<1>4. toDb[g] \in Seq(ToDbMsg) /\ Head(toDb[g]) = toDb[g][1] /\ 1 \in DOMAIN toDb[g]
      /\ Head(toDb[g]) \in ToDbMsg
  BY <1>1, <1>2, InTail DEF QueuesOK
<1> DEFINE keys == Head(toDb[g]).keys
<1>5. /\ keys \in Seq(Keys) /\ Head(toDb[g]) \in Setups /\ Head(toDb[g]) \notin Logouts
      /\ \A e : Head(toDb[g]) \notin AskOf(e) /\ Head(toDb[g]) \notin LoadOf(e)
  BY <1>1, <1>4, ToDbKinds
<1>6. /\ losses # 0 /\ (keys # <<>> => Held(g)) /\ In(toDb[g], Setups) = {1}
  BY <1>2, <1>4, <1>5 DEF SetupInv, In
<1>7. /\ toDb' \in [Games -> Seq(ToDbMsg)] /\ busy' \in {0} \cup Games
      /\ \A h \in Games : h # g => toDb'[h] = toDb[h]
      /\ \A S : Head(toDb[g]) \notin S /\ S \cap Setups = {} =>
             Same(In(toDb[g], S), In(toDb'[g], S))
      /\ In(toDb'[g], Setups) \subseteq {1}
      /\ keys = <<>> => In(toDb'[g], Setups) = {}
  <2>1. CASE Len(keys) <= 1
    <3>1. Consume(g) /\ busy' = 0
      BY <2>1 DEF QUERY_SETUP
    <3>2. /\ toDb' \in [Games -> Seq(ToDbMsg)]
          /\ \A h \in Games : h # g => toDb'[h] = toDb[h]
          /\ \A S : Head(toDb[g]) \notin S => Same(In(toDb[g], S), In(toDb'[g], S))
          /\ (Few(In(toDb[g], Setups)) => In(toDb'[g], Setups) = {})
      BY <1>1, <1>2, <1>5, <3>1, ConsumeFacts
    <3>3. In(toDb'[g], Setups) = {}
      BY <1>6, <3>2, FewOne
    <3> QED  BY <3>1, <3>2, <3>3
  <2>2. CASE ~(Len(keys) <= 1)
    <3>1. busy' = g /\ toDb' = [toDb EXCEPT ![g][1].keys = Tail(keys)]
      BY <2>2 DEF QUERY_SETUP
    <3>2. keys # <<>> /\ Tail(keys) \in Seq(Keys)
      <4>1. keys # <<>>
        BY <2>2, EmptySeq
      <4> QED  BY <1>5, <4>1, HeadTailProperties
    <3> DEFINE n == [toDb[g][1] EXCEPT !.keys = Tail(keys)]
    <3>4. n \in ToDbMsg /\ n \in Setups
      BY <1>4, <1>5, <3>2 DEF ToDbMsg, Setups
    <3> HIDE DEF n, keys
    <3>5. toDb' = [toDb EXCEPT ![g] = [toDb[g] EXCEPT ![1] = n]]
      BY <3>1 DEF n
    <3>6. ASSUME NEW S, Head(toDb[g]) \notin S, S \cap Setups = {}
          PROVE  In([toDb[g] EXCEPT ![1] = n], S) = In(toDb[g], S)
      BY <1>1, <1>4, <3>4, <3>6, InHead
    <3>7. [toDb[g] EXCEPT ![1] = n] \in Seq(ToDbMsg)
      <4>1. toDb[g][1] \notin {} /\ n \notin {}
        OBVIOUS
      <4> QED  BY <1>1, <1>4, <3>4, <4>1, InHead
    <3>8. In([toDb[g] EXCEPT ![1] = n], Setups) \subseteq {1}
      BY <1>6 DEF In
    <3>9. toDb'[g] = [toDb[g] EXCEPT ![1] = n]
      BY <1>2, <3>5 DEF QueuesOK
    <3>10. toDb' \in [Games -> Seq(ToDbMsg)] /\ \A h \in Games : h # g => toDb'[h] = toDb[h]
      BY <1>2, <3>5, <3>7 DEF QueuesOK
    <3> QED  BY <3>1, <3>2, <3>6, <3>8, <3>9, <3>10, SameSelf
  <2> QED  BY <2>1, <2>2
<1>8. /\ db' \in LoginTables /\ Sound(db')
      /\ \/ SameLogon(db, db')
         \/ /\ db.logon = NULL /\ keys # <<>>
            /\ db'.logon # NULL /\ db'.ld[db'.logon].peer = handle[g]
  <2>1. CASE keys = <<>>
    BY <1>2, <2>1, SameLogonSelf DEF QUERY_SETUP
  <2>2. CASE keys # <<>>
    <3>1. Head(keys) \in Keys /\ handle[g] \in Nat
      BY <1>3, <1>5, <2>2, HeadTailProperties
    <3> DEFINE l == Len(db.ld) + 1
               u == InsertLoginData(NewLoginData(db, Head(keys)), l)
               v == LogonPlayed(u, handle[g], l)
    <3>2. /\ u \in LoginTables /\ Sound(u) /\ SameLogon(db, u)
          /\ v \in LoginTables /\ Sound(v)
          /\ v.logon # NULL /\ v.ld[v.logon].peer = handle[g]
          /\ (InsertLogonAccountFails(u) <=> db.logon # NULL)
      BY <1>2, <3>1, SetupTables
    <3>3. db' = IF InsertLogonAccountFails(u) THEN u ELSE v
      BY <2>2 DEF QUERY_SETUP, LogonPlayed
    <3> HIDE DEF u, v, keys
    <3> QED  BY <2>2, <3>2, <3>3
  <2> QED  BY <2>1, <2>2
<1> HIDE DEF keys
<1>9. /\ handle' = handle /\ losses' # 0 /\ Wins(g)' = Wins(g) /\ BoundDescs(g)' = BoundDescs(g)
      /\ \A e : /\ Pends(g, e)' = Pends(g, e) /\ Fetches(g, e)' = Fetches(g, e)
                /\ Hears(g, e)' = Hears(g, e) /\ Shows(g, e)' = Shows(g, e)
  BY <1>1, <1>6 DEF net, Wins, BoundDescs, Pends, Fetches, Hears, Shows
<1>10. /\ \A e : Same(Asks(g, e), Asks(g, e)') /\ Same(Loads(g, e), Loads(g, e)')
       /\ Same(Leaves(g), Leaves(g)')
  <2>1. /\ \A e : AskOf(e) \cap Setups = {} /\ LoadOf(e) \cap Setups = {}
        /\ Logouts \cap Setups = {}
    BY DEF AskOf, LoadOf, Logouts, Setups
  <2> QED  BY <1>5, <1>7, <2>1 DEF Asks, Loads, Leaves
<1>11. Held(g)' <=> Held(g)
  BY <1>9, <1>10, SameSelf, HeldStays
<1>12. \A h \in Games : h # g => (LogonOfPeer(db, handle[h])' <=> LogonOfPeer(db, handle[h]))
  <2>1. CASE SameLogon(db, db')
    BY <1>9, <2>1 DEF SameLogon, LogonOfPeer
  <2>2. CASE db.logon = NULL /\ db'.ld[db'.logon].peer = handle[g]
    BY <1>2, <1>3, <1>9, <2>2 DEF NetInv, LogonOfPeer
  <2> QED  BY <1>8, <2>1, <2>2
<1>13. /\ NetInv' /\ KeyInv'
       /\ \A h \in Games : h # g => GameInv(h)' /\ (Held(h)' <=> Held(h))
       /\ \A e \in Descs : AskInv(g, e)' /\ LoadInv(g, e)'
  <2>1. ASSUME NEW e \in Descs
        PROVE  /\ Some(Asks(g, e), Pends(g, e), Hears(g, e))' =>
                    Some(Asks(g, e), Pends(g, e), Hears(g, e))
               /\ Sole(Asks(g, e), Pends(g, e), Hears(g, e))'
    BY <1>2, <1>9, <1>10 DEF Same, Less, Sole, Some, AskInv
  <2>2. \A e \in Descs : Some(Loads(g, e), Fetches(g, e), Shows(g, e))' =>
                 Some(Loads(g, e), Fetches(g, e), Shows(g, e))
    BY <1>9, <1>10 DEF Same, Less, Some
  <2>3. \A S : Less(In(results, S), In(results', S))
    BY <1>1, SameSelf
  <2> QED  BY <1>1, <1>2, <1>7, <1>12, <2>1, <2>2, <2>3, DbStep
<1>14. SetupInv(g)'
  <2> SUFFICES ASSUME In(toDb'[g], Setups) # {} PROVE Held(g)'
    BY <1>7, <1>9 DEF SetupInv
  <2> QED  BY <1>6, <1>7, <1>11
<1>15. TokenInv(g)' /\ LatestInv'
  BY <1>9 DEF TokenInv, LatestInv
<1>16. BackInv'
  <2>1. CASE SameLogon(db, db')
    BY <1>2, <1>9, <1>11, <1>13, <2>1, BackStays
  <2>2. CASE keys # <<>> /\ db'.logon # NULL /\ db'.ld[db'.logon].peer = handle[g]
    BY <1>2, <1>6, <1>9, <1>11, <2>2 DEF BackInv, LogonOfPeer
  <2> QED  BY <1>8, <2>1, <2>2
<1>17. TypeOK'
  BY <1>1, <1>2, <1>7, <1>8 DEF TypeOK, net
<1>18. \A h \in Games : GameInv(h)'
  BY <1>13, <1>14, <1>15 DEF GameInv
<1> QED  BY <1>8, <1>13, <1>15, <1>16, <1>17, <1>18 DEF IInv

(* The answer at the head of results is for a game whose connection is up. *)
LEMMA HeadOfResults ==
    ASSUME IInv, NEW g \in Games, results # <<>>, handle[g] = Head(results).peer
    PROVE  handle[g] # 0 /\ Head(results) \in Pending
<1>1. QueuesOK /\ NetInv
  BY Parts
<1>2. /\ Head(results) \in Pending
      /\ \A S : Head(results) \in S => In(results, S) # {}
  BY <1>1, ResultFacts
<1>3. \/ Head(results) \in PendOf(handle[g], Head(results).desc)
      \/ Head(results) \in FetchOf(handle[g], Head(results).desc)
  BY <1>2, ResultKinds DEF Pending, Qid, LoginQids
<1>4. Head(results).desc \in Descs /\ handle[g] \in Nat
  BY <1>2, ResultKinds
<1> QED  BY <1>1, <1>2, <1>3, <1>4 DEF NetInv

(* A query of the login chain is answered: the game hears so, nobody hears,*)
(* or the next query is asked.                                             *)
LEMMA PendFacts ==
    ASSUME IInv, NEW g \in Games, results # <<>>, Head(results).qid \in LoginQids,
           handle[g] = Head(results).peer, toDb' = toDb, UNCHANGED net,
           NEW op \in LoginAnswers,
           \/ Reply(g, Head(results).desc, op) /\ results' = Tail(results)
           \/ toGame' = toGame /\ results' = Tail(results)
           \/ /\ toGame' = toGame
              /\ \E q \in LoginQids :
                    results' = Append(Tail(results), [Head(results) EXCEPT !.qid = q])
    PROVE  /\ QueuesOK'
           /\ \A h \in Games : h # g => toDb'[h] = toDb[h] /\ toGame'[h] = toGame[h]
           /\ \A h \in Nat, e \in Descs : h # handle[g] =>
                 /\ Less(In(results, PendOf(h, e)), In(results', PendOf(h, e)))
                 /\ Less(In(results, FetchOf(h, e)), In(results', FetchOf(h, e)))
           /\ \A e \in Descs :
                 /\ Some(Asks(g, e), Pends(g, e), Hears(g, e))' =>
                       Some(Asks(g, e), Pends(g, e), Hears(g, e))
                 /\ Sole(Asks(g, e), Pends(g, e), Hears(g, e))'
           /\ \A e \in Descs :
                 Some(Loads(g, e), Fetches(g, e), Shows(g, e))' =>
                    Some(Loads(g, e), Fetches(g, e), Shows(g, e))
           /\ op # "LOGIN_SUCCESS" => Wins(g)' = Wins(g)
           /\ Reply(g, Head(results).desc, op) /\ op = "LOGIN_SUCCESS" =>
                 Wins(g)' = Wins(g) \cup {Len(toGame[g]) + 1}
<1>1. /\ QueuesOK /\ handle[g] # 0 /\ Head(results) \in Pending
      /\ \A e \in Descs : AskInv(g, e) /\ LoadInv(g, e)
  BY Parts, HeadOfResults
<1>2. PICK r \in Pending :
      /\ r = Head(results) /\ Tail(results) \in Seq(Pending)
      /\ \A S : Less(In(results, S), In(Tail(results), S))
      /\ \A S : r \in S =>
            In(results, S) # {} /\ (Few(In(results, S)) => In(Tail(results), S) = {})
      /\ \A s \in Pending :
            /\ Append(Tail(results), s) \in Seq(Pending)
            /\ \A S : s \notin S => In(Append(Tail(results), s), S) = In(Tail(results), S)
            /\ \A S : s \in S => In(Append(Tail(results), s), S)
                                    = In(Tail(results), S) \cup {Len(results)}
  BY <1>1, ResultFacts
<1>3. PICK d \in Descs : d = r.desc /\ r \in PendOf(handle[g], d)
  BY <1>2, ResultKinds
<1>4. handle' = handle /\ handle[g] \in Nat
  BY <1>2, ResultKinds DEF net
<1>5. /\ Pends(g, d) # {} /\ In(Tail(results), PendOf(handle[g], d)) = {}
      /\ Asks(g, d) = {} /\ Hears(g, d) = {}
  BY <1>1, <1>2, <1>3 DEF Pends, AskInv, Sole
<1> DEFINE Became ==
       /\ QueuesOK'
       /\ \A h \in Games : h # g => toGame'[h] = toGame[h]
       /\ \A e : Shows(g, e)' = Shows(g, e)
       /\ \A e \in Descs : e # d => Hears(g, e)' = Hears(g, e)
       /\ \A h, e : Less(In(results, FetchOf(h, e)), In(results', FetchOf(h, e)))
       /\ \A h, e : h # handle[g] \/ e # d =>
             Less(In(results, PendOf(h, e)), In(results', PendOf(h, e)))
       /\ Few(In(results', PendOf(handle[g], d))) /\ Few(Hears(g, d)')
       /\ In(results', PendOf(handle[g], d)) = {} \/ Hears(g, d)' = {}
       /\ op # "LOGIN_SUCCESS" => Wins(g)' = Wins(g)
       /\ Reply(g, d, op) /\ op = "LOGIN_SUCCESS" =>
             Wins(g)' = Wins(g) \cup {Len(toGame[g]) + 1}
<1>6. ASSUME Reply(g, d, op), results' = Tail(results) PROVE Became
  <2>1. op \in Answer
    BY DEF Answer, LoginAnswers
  <2>2. /\ toGame' \in [Games -> Seq(ToGameMsg)]
        /\ \A h \in Games : h # g => toGame'[h] = toGame[h]
        /\ \A e : Shows(g, e)' = Shows(g, e)
        /\ \A e : e # d => Hears(g, e)' = Hears(g, e)
        /\ Hears(g, d)' = Hears(g, d) \cup {Len(toGame[g]) + 1}
        /\ op = "LOGIN_SUCCESS" => Wins(g)' = Wins(g) \cup {Len(toGame[g]) + 1}
        /\ op # "LOGIN_SUCCESS" => Wins(g)' = Wins(g)
    BY <1>1, <1>6, <2>1, ReplyMade
  <2>3. Hears(g, d)' = {Len(toGame[g]) + 1}
    BY <1>5, <2>2
  <2>4. QueuesOK'
    BY <1>1, <1>2, <1>6, <2>2 DEF QueuesOK
  <2>5. In(results', PendOf(handle[g], d)) = {}
    BY <1>5, <1>6
  <2>6. \A S : Less(In(results, S), In(results', S))
    BY <1>2, <1>6
  <2>7. /\ \A h, e : Less(In(results, FetchOf(h, e)), In(results', FetchOf(h, e)))
        /\ \A h, e : Less(In(results, PendOf(h, e)), In(results', PendOf(h, e)))
    BY <2>6
  <2>8. Few(In(results', PendOf(handle[g], d))) /\ Few(Hears(g, d)')
    BY <2>3, <2>5, FewOne, FewNone
  <2>9. \A e \in Descs : e # d => Hears(g, e)' = Hears(g, e)
    BY <2>2
  <2>10. /\ op # "LOGIN_SUCCESS" => Wins(g)' = Wins(g)
         /\ Reply(g, d, op) /\ op = "LOGIN_SUCCESS" =>
             Wins(g)' = Wins(g) \cup {Len(toGame[g]) + 1}
    BY <2>2
  <2>11. /\ \A h \in Games : h # g => toGame'[h] = toGame[h]
         /\ \A e : Shows(g, e)' = Shows(g, e)
    BY <2>2
  <2>12. \A h, e : h # handle[g] \/ e # d =>
             Less(In(results, PendOf(h, e)), In(results', PendOf(h, e)))
    BY <2>7
  <2> QED  BY <2>4, <2>5, <2>7, <2>8, <2>9, <2>10, <2>11, <2>12
<1>7. ASSUME toGame' = toGame, NEW s \in Pending, s \in PendOf(handle[g], d),
             results' = Tail(results) \/ results' = Append(Tail(results), s),
             ~Reply(g, d, op)
      PROVE  Became
  <2>1. /\ \A h, e : s \in PendOf(h, e) => h = handle[g] /\ e = d
        /\ \A h, e : s \notin FetchOf(h, e)
    BY <1>7 DEF PendOf, FetchOf, LoginQids
  <2>2. QueuesOK'
    <3>1. results' \in Seq(Pending)
      BY <1>2, <1>7
    <3> QED  BY <1>1, <1>7, <3>1 DEF QueuesOK
  <2>8. ASSUME NEW S, s \notin S PROVE Less(In(results, S), In(results', S))
    <3>1. Less(In(results, S), In(Tail(results), S))
      BY <1>2
    <3>2. In(Append(Tail(results), s), S) = In(Tail(results), S)
      BY <1>2, <2>8
    <3> QED  BY <1>7, <3>1, <3>2
  <2>3. \A h, e : Less(In(results, FetchOf(h, e)), In(results', FetchOf(h, e)))
    BY <2>1, <2>8
  <2>4. \A h, e : h # handle[g] \/ e # d =>
             Less(In(results, PendOf(h, e)), In(results', PendOf(h, e)))
    BY <2>1, <2>8
  <2>5. Few(In(results', PendOf(handle[g], d)))
    <3>1. In(Append(Tail(results), s), PendOf(handle[g], d)) = {Len(results)}
      BY <1>2, <1>5, <1>7
    <3> QED  BY <1>5, <1>7, <3>1, FewOne, FewNone
  <2>6. Wins(g)' = Wins(g) /\ \A e : Shows(g, e)' = Shows(g, e) /\ Hears(g, e)' = Hears(g, e)
    BY <1>7 DEF Wins, Shows, Hears
  <2>7. Hears(g, d)' = {} /\ Few({})
    BY <1>5, <2>6, FewNone
  <2>9. /\ \A h \in Games : h # g => toGame'[h] = toGame[h]
        /\ \A e : Shows(g, e)' = Shows(g, e)
        /\ \A e \in Descs : e # d => Hears(g, e)' = Hears(g, e)
        /\ Few(Hears(g, d)')
    BY <1>7, <2>6, <2>7
  <2> QED  BY <1>7, <2>2, <2>3, <2>4, <2>5, <2>6, <2>7, <2>9
<1>8. Became
  <2>1. CASE Reply(g, d, op)
    <3>1. Reply(g, d, op) => toGame' # toGame
      <4>1. toGame[g] \in Seq(ToGameMsg) /\ [op |-> op, desc |-> d] \in ToGameMsg
        BY <1>1 DEF QueuesOK, ToGameMsg, LoginAnswers, Answer
      <4>2. Append(toGame[g], [op |-> op, desc |-> d]) # toGame[g]
        BY <4>1, AppendProperties, LenProperties
      <4> QED  BY <1>1, <4>2 DEF Reply, QueuesOK
    <3> QED  BY <1>2, <1>3, <1>6, <2>1, <3>1
  <2>2. CASE ~Reply(g, d, op)
    <3>1. PICK q \in LoginQids : \/ results' = Tail(results)
                                 \/ results' = Append(Tail(results), [r EXCEPT !.qid = q])
      BY <1>2, <1>3, <2>2 DEF LoginQids
    <3>2. /\ [r EXCEPT !.qid = q] \in Pending
          /\ [r EXCEPT !.qid = q] \in PendOf(handle[g], d)
      BY <1>2, <1>3 DEF Pending, PendOf, LoginQids, Qid
    <3> HIDE DEF Became
    <3> QED  BY <1>2, <1>3, <1>7, <2>2, <3>1, <3>2
  <2> QED  BY <2>1, <2>2
<1>9. \A e : /\ Pends(g, e)' = In(results', PendOf(handle[g], e))
             /\ Less(Fetches(g, e), Fetches(g, e)')
             /\ Asks(g, e)' = Asks(g, e) /\ Loads(g, e)' = Loads(g, e)
  BY <1>4, <1>8 DEF Pends, Fetches, Asks, Loads
<1>10. ASSUME NEW e \in Descs
       PROVE  /\ Some(Asks(g, e), Pends(g, e), Hears(g, e))' =>
                   Some(Asks(g, e), Pends(g, e), Hears(g, e))
              /\ Sole(Asks(g, e), Pends(g, e), Hears(g, e))'
  <2>1. CASE e = d
    <3>1. /\ Asks(g, d)' = {} /\ Few(Pends(g, d)') /\ Few(Hears(g, d)')
          /\ Pends(g, d)' = {} \/ Hears(g, d)' = {}
          /\ Pends(g, d) # {}
      BY <1>5, <1>8, <1>9
    <3> HIDE DEF Became
    <3> QED  BY <2>1, <3>1, FewNone DEF Sole, Some
  <2>2. CASE e # d
    <3>1. Less(Pends(g, e), Pends(g, e)') /\ Hears(g, e)' = Hears(g, e)
      BY <1>8, <1>9, <2>2 DEF Pends
    <3> QED  BY <1>1, <1>9, <3>1 DEF Less, Sole, Some, AskInv
  <2> QED  BY <2>1, <2>2
<1>11. \A e \in Descs : Some(Loads(g, e), Fetches(g, e), Shows(g, e))' =>
                 Some(Loads(g, e), Fetches(g, e), Shows(g, e))
  BY <1>8, <1>9 DEF Less, Some
<1> QED  BY <1>2, <1>3, <1>8, <1>10, <1>11

(* RESULT_LOGIN_BY_KEY and RESULT_PLAYER_INDEX_CREATE, and a RESULT_LOGIN  *)
(* that finds the account logged on or not authenticated.                  *)
LEMMA ChainStep ==
    ASSUME IInv, NEW g \in Games, results # <<>>, Head(results).qid \in LoginQids,
           handle[g] = Head(results).peer, player_index' \in BOOLEAN,
           UNCHANGED <<db, busy, logoutTimer, net, toDb, desc, nAuth, losses>>,
           NEW op \in LoginAnswers, op # "LOGIN_SUCCESS",
           \/ Reply(g, Head(results).desc, op) /\ results' = Tail(results)
           \/ toGame' = toGame /\ results' = Tail(results)
           \/ /\ toGame' = toGame
              /\ \E q \in LoginQids :
                    results' = Append(Tail(results), [Head(results) EXCEPT !.qid = q])
    PROVE  IInv'
<1>1. /\ TypeOK /\ Sound(db) /\ SetupInv(g) /\ handle[g] # 0
  BY Parts, HeadOfResults
<1>2. /\ db' = db /\ busy' = busy /\ logoutTimer' = logoutTimer /\ handle' = handle
      /\ nHandle' = nHandle /\ toDb' = toDb /\ desc' = desc /\ nAuth' = nAuth
      /\ losses' = losses
  BY DEF net
<1>3. /\ QueuesOK'
      /\ \A h \in Games : h # g => toDb'[h] = toDb[h] /\ toGame'[h] = toGame[h]
      /\ \A h \in Nat, e \in Descs : h # handle[g] =>
            /\ Less(In(results, PendOf(h, e)), In(results', PendOf(h, e)))
            /\ Less(In(results, FetchOf(h, e)), In(results', FetchOf(h, e)))
      /\ \A e \in Descs :
            /\ Some(Asks(g, e), Pends(g, e), Hears(g, e))' =>
                  Some(Asks(g, e), Pends(g, e), Hears(g, e))
            /\ Sole(Asks(g, e), Pends(g, e), Hears(g, e))'
      /\ \A e \in Descs :
            Some(Loads(g, e), Fetches(g, e), Shows(g, e))' =>
               Some(Loads(g, e), Fetches(g, e), Shows(g, e))
      /\ Wins(g)' = Wins(g)
  BY PendFacts
<1>4. \A h \in Games : LogonOfPeer(db, handle[h])' <=> LogonOfPeer(db, handle[h])
  BY <1>2
<1>5. /\ NetInv' /\ KeyInv'
      /\ \A h \in Games : h # g => GameInv(h)' /\ (Held(h)' <=> Held(h))
      /\ \A e \in Descs : AskInv(g, e)' /\ LoadInv(g, e)'
  BY <1>1, <1>3, <1>4, DbStep
<1>6. BoundDescs(g)' = BoundDescs(g) /\ Leaves(g)' = Leaves(g)
      /\ In(toDb[g], Setups)' = In(toDb[g], Setups)
  BY <1>2 DEF BoundDescs, Leaves
<1>7. Held(g)' <=> Held(g)
  BY <1>3, <1>6 DEF Held
<1>8. SetupInv(g)'
  BY <1>1, <1>2, <1>6, <1>7, SetupStays
<1>9. TypeOK'
  BY <1>1, <1>2, <1>3 DEF TypeOK, QueuesOK, ToGameMsg, Pending
<1> QED  BY <1>1, <1>2, <1>3, <1>5, <1>6, <1>8, <1>9, SameSelf, SameLogonSelf, QuietStep

LEMMA ByKeyStep ==
    ASSUME IInv, NEW g \in Games, RESULT_LOGIN_BY_KEY(g)
    PROVE  IInv'
<1>1. /\ results # <<>> /\ Head(results).qid \in LoginQids /\ handle[g] = Head(results).peer
      /\ UNCHANGED <<db, busy, logoutTimer, net, toDb, desc, nAuth, losses>>
      /\ player_index' \in BOOLEAN
  BY Parts DEF RESULT_LOGIN_BY_KEY, Result, LoginQids, TypeOK
<1>2. \/ Reply(g, Head(results).desc, "LOGIN_NOT_EXIST") /\ results' = Tail(results)
      \/ toGame' = toGame /\ results' = Tail(results)
      \/ /\ toGame' = toGame
         /\ \E q \in LoginQids :
               results' = Append(Tail(results), [Head(results) EXCEPT !.qid = q])
  BY DEF RESULT_LOGIN_BY_KEY, LoginQids
<1>3. "LOGIN_NOT_EXIST" \in LoginAnswers
  BY DEF LoginAnswers
<1> QED  BY <1>1, <1>2, <1>3, ChainStep

LEMMA CreateStep ==
    ASSUME IInv, NEW g \in Games, RESULT_PLAYER_INDEX_CREATE(g)
    PROVE  IInv'
<1>1. /\ results # <<>> /\ Head(results).qid \in LoginQids /\ handle[g] = Head(results).peer
      /\ UNCHANGED <<db, busy, logoutTimer, net, toDb, desc, nAuth, losses>>
      /\ player_index' \in BOOLEAN /\ toGame' = toGame
  BY DEF RESULT_PLAYER_INDEX_CREATE, Result, LoginQids
<1>2. \E q \in LoginQids :
         results' = Append(Tail(results), [Head(results) EXCEPT !.qid = q])
  BY DEF RESULT_PLAYER_INDEX_CREATE, LoginQids
<1>3. "LOGIN_NOT_EXIST" \in LoginAnswers
  BY DEF LoginAnswers
<1> QED  BY <1>1, <1>2, <1>3, ChainStep

(* RESULT_LOGIN: the account is logged on, and the success is its token.   *)
LEMMA LogonStep ==
    ASSUME IInv, NEW g \in Games, RESULT_LOGIN(g)
    PROVE  IInv'
<1>1. /\ results # <<>> /\ Head(results).qid \in LoginQids /\ handle[g] = Head(results).peer
      /\ UNCHANGED <<busy, player_index, logoutTimer, net, toDb, desc, nAuth, losses>>
      /\ results' = Tail(results)
  BY DEF RESULT_LOGIN, Result, LoginQids
<1>2. /\ TypeOK /\ Sound(db) /\ SetupInv(g) /\ TokenInv(g) /\ handle[g] # 0
      /\ NetInv /\ BackInv /\ LatestInv /\ db \in LoginTables /\ nAuth \in Nat
      /\ handle[g] \in Nat
  <2>1. handle[g] \in Nat
    BY DEF IInv, TypeOK
  <2> QED  BY <1>1, <2>1, Parts, HeadOfResults
<1>3. CASE InsertLogonAccountFails(db)
  <2>1. Reply(g, Head(results).desc, "LOGIN_ALREADY") /\ db' = db /\ player_index' \in BOOLEAN
    BY <1>1, <1>2, <1>3 DEF RESULT_LOGIN, TypeOK
  <2>2. "LOGIN_ALREADY" \in LoginAnswers
    BY DEF LoginAnswers
  <2> QED  BY <1>1, <2>1, <2>2, ChainStep
<1>4. CASE ~InsertLogonAccountFails(db)
  <2>1. /\ Reply(g, Head(results).desc, "LOGIN_SUCCESS")
        /\ db' = LogonLoaded(db, handle[g], db.byLogin)
        /\ db.logon = NULL /\ db.byLogin # NULL /\ db.byLogin \in DOMAIN db.ld
    BY <1>2, <1>4 DEF RESULT_LOGIN, LogonLoaded, InsertLogonAccountFails, Sound, Pointers
  <2>2. /\ db' \in LoginTables /\ Sound(db')
        /\ db'.logon # NULL /\ db'.ld[db'.logon].peer = handle[g]
        /\ \A n \in Nat : Latest(db, n) => Latest(db', n)
    BY <1>2, <2>1, LogonTables
  <2>3. /\ handle' = handle
        /\ nHandle' = nHandle /\ toDb' = toDb /\ desc' = desc /\ nAuth' = nAuth
        /\ losses' = losses
    BY <1>1 DEF net
  <2>4. "LOGIN_SUCCESS" \in LoginAnswers
    BY DEF LoginAnswers
  <2>5. /\ QueuesOK'
        /\ \A h \in Games : h # g => toDb'[h] = toDb[h] /\ toGame'[h] = toGame[h]
        /\ \A h \in Nat, e \in Descs : h # handle[g] =>
              /\ Less(In(results, PendOf(h, e)), In(results', PendOf(h, e)))
              /\ Less(In(results, FetchOf(h, e)), In(results', FetchOf(h, e)))
        /\ \A e \in Descs :
              /\ Some(Asks(g, e), Pends(g, e), Hears(g, e))' =>
                    Some(Asks(g, e), Pends(g, e), Hears(g, e))
              /\ Sole(Asks(g, e), Pends(g, e), Hears(g, e))'
        /\ \A e \in Descs :
              Some(Loads(g, e), Fetches(g, e), Shows(g, e))' =>
                 Some(Loads(g, e), Fetches(g, e), Shows(g, e))
        /\ Wins(g)' = Wins(g) \cup {Len(toGame[g]) + 1}
    BY <1>1, <2>1, <2>4, PendFacts
  <2>6. \A h \in Games : h # g => (LogonOfPeer(db, handle[h])' <=> LogonOfPeer(db, handle[h]))
    BY <1>2, <2>1, <2>2, <2>3 DEF LogonOfPeer, NetInv, TypeOK
  <2>7. /\ NetInv' /\ KeyInv'
        /\ \A h \in Games : h # g => GameInv(h)' /\ (Held(h)' <=> Held(h))
        /\ \A e \in Descs : AskInv(g, e)' /\ LoadInv(g, e)'
    BY <1>1, <1>2, <2>5, <2>6, DbStep
  <2>8. BoundDescs(g)' = BoundDescs(g) /\ Leaves(g)' = Leaves(g)
        /\ In(toDb[g], Setups)' = In(toDb[g], Setups)
    BY <2>3 DEF BoundDescs, Leaves
  <2>9. Held(g)' /\ LogonOfPeer(db, handle[g])'
    BY <2>2, <2>3, <2>5 DEF Held, Some, LogonOfPeer
  <2>10. SetupInv(g)'
    BY <1>2, <2>3, <2>8, <2>9, SetupStays
  <2>11. TokenInv(g)'
    <3> SUFFICES ASSUME losses = 0 PROVE Sole(BoundDescs(g), Wins(g), Leaves(g))'
      BY <2>3, <2>9 DEF TokenInv
    <3>1. ~Held(g)
      BY <1>2, <2>1 DEF TokenInv, LogonOfPeer
    <3>2. BoundDescs(g)' = {} /\ Leaves(g)' = {} /\ Wins(g)' = {Len(toGame[g]) + 1}
      BY <2>5, <2>8, <3>1 DEF Held, Some
    <3> QED  BY <3>2, FewOne, FewNone DEF Sole
  <2>12. BackInv'
    BY <1>2, <2>2, <2>9 DEF BackInv
  <2>13. LatestInv'
    BY <1>2, <2>2, <2>3 DEF LatestInv
  <2>14. TypeOK'
    BY <1>1, <1>2, <2>2, <2>3, <2>5 DEF TypeOK, QueuesOK, ToGameMsg, Pending
  <2>15. \A h \in Games : GameInv(h)'
    BY <2>7, <2>10, <2>11 DEF GameInv
  <2> QED  BY <2>2, <2>7, <2>12, <2>13, <2>14, <2>15 DEF IInv
<1> QED  BY <1>3, <1>4

(* RESULT_PLAYER_LOAD                                                      *)
LEMMA FetchStep ==
    ASSUME IInv, NEW g \in Games, RESULT_PLAYER_LOAD(g)
    PROVE  IInv'
<1>1. /\ results # <<>> /\ Head(results).qid = "PLAYER" /\ handle[g] = Head(results).peer
      /\ UNCHANGED <<busy, player_index, logoutTimer, net, toDb, desc, nAuth, losses>>
      /\ results' = Tail(results) /\ GrantPlay(g, Head(results).desc)
  BY DEF RESULT_PLAYER_LOAD, Result
<1>2. /\ TypeOK /\ QueuesOK /\ Sound(db) /\ SetupInv(g) /\ handle[g] # 0 /\ db \in LoginTables
      /\ \A e \in Descs : AskInv(g, e) /\ LoadInv(g, e)
  BY <1>1, Parts, HeadOfResults
<1>3. /\ Head(results) \in Pending /\ results' \in Seq(Pending)
      /\ \A S : Less(In(results, S), In(results', S))
      /\ \A S : Head(results) \in S => In(results, S) # {}
  BY <1>1, <1>2, ResultFacts
<1>4. PICK d \in Descs : d = Head(results).desc /\ Head(results) \in FetchOf(handle[g], d)
  BY <1>1, <1>3, ResultKinds
<1>5. /\ toGame' \in [Games -> Seq(ToGameMsg)]
      /\ \A h \in Games : h # g => toGame'[h] = toGame[h]
      /\ \A e : Hears(g, e)' = Hears(g, e)
      /\ \A e : e # d => Shows(g, e)' = Shows(g, e)
      /\ Wins(g)' = Wins(g)
      /\ db' \in LoginTables /\ Sound(db') /\ SameLogon(db, db')
      /\ \A n \in Nat : Latest(db, n) => Latest(db', n)
  BY <1>1, <1>2, <1>4, GrantPlayFacts
<1>6. /\ handle' = handle /\ toDb' = toDb /\ desc' = desc /\ nAuth' = nAuth
      /\ losses' = losses
  BY <1>1 DEF net
<1>7. /\ Fetches(g, d) # {}
      /\ \A e : /\ Asks(g, e)' = Asks(g, e) /\ Loads(g, e)' = Loads(g, e)
                /\ Less(Pends(g, e), Pends(g, e)') /\ Less(Fetches(g, e), Fetches(g, e)')
      /\ BoundDescs(g)' = BoundDescs(g) /\ Leaves(g)' = Leaves(g)
      /\ In(toDb[g], Setups)' = In(toDb[g], Setups)
  BY <1>3, <1>4, <1>6 DEF Asks, Loads, Pends, Fetches, BoundDescs, Leaves
<1>8. /\ NetInv' /\ KeyInv'
      /\ \A h \in Games : h # g => GameInv(h)' /\ (Held(h)' <=> Held(h))
      /\ \A e \in Descs : AskInv(g, e)' /\ LoadInv(g, e)'
  <2>1. ASSUME NEW e \in Descs
        PROVE  /\ Some(Asks(g, e), Pends(g, e), Hears(g, e))' =>
                    Some(Asks(g, e), Pends(g, e), Hears(g, e))
               /\ Sole(Asks(g, e), Pends(g, e), Hears(g, e))'
    BY <1>2, <1>5, <1>7 DEF Less, Sole, Some, AskInv
  <2>2. ASSUME NEW e \in Descs, Some(Loads(g, e), Fetches(g, e), Shows(g, e))'
        PROVE  Some(Loads(g, e), Fetches(g, e), Shows(g, e))
    <3>1. CASE e = d
      BY <1>7, <3>1 DEF Some
    <3>2. CASE e # d
      BY <1>5, <1>7, <2>2, <3>2 DEF Less, Some
    <3> QED  BY <3>1, <3>2
  <2>3. \A h \in Games : LogonOfPeer(db, handle[h])' <=> LogonOfPeer(db, handle[h])
    BY <1>5, <1>6 DEF SameLogon, LogonOfPeer
  <2> QED  BY <1>1, <1>2, <1>3, <1>5, <1>6, <2>1, <2>2, <2>3, DbStep
<1>9. Held(g)' <=> Held(g)
  BY <1>5, <1>7 DEF Held
<1>10. SetupInv(g)'
  BY <1>2, <1>6, <1>7, <1>9, SetupStays
<1>11. TypeOK'
  BY <1>1, <1>2, <1>3, <1>5 DEF TypeOK, net, ToGameMsg, Pending
<1> QED  BY <1>5, <1>6, <1>7, <1>8, <1>10, <1>11, SameSelf, QuietStep

-----------------------------------------------------------------------------
(* Steps that change nothing on the way, lost connections and restarts.    *)

LEMMA StillStep ==
    ASSUME IInv, UNCHANGED <<net, losses, toDb, toGame, desc>>,
           \A S : Less(In(results, S), In(results', S)),
           TypeOK', Sound(db'), SameLogon(db, db'), LatestInv'
    PROVE  IInv'
<1>1. /\ NetInv /\ KeyInv /\ BackInv
      /\ \A h \in Games : GameInv(h)
  BY Parts
<1>2. handle' = handle /\ nHandle' = nHandle /\ losses' = losses
      /\ toDb' = toDb /\ toGame' = toGame /\ desc' = desc
  BY DEF net
<1>3. NetInv'
  <2>1. \A h \in Games : handle[h] = 0 => toDb'[h] = <<>> /\ toGame'[h] = <<>>
    BY <1>1, <1>2 DEF NetInv
  <2>2. \A h \in Nat, e \in Descs :
           /\ In(results', PendOf(h, e)) # {} =>
                 In(results, PendOf(h, e)) # {} \/ (h # 0 /\ h <= nHandle)
           /\ In(results', FetchOf(h, e)) # {} =>
                 In(results, FetchOf(h, e)) # {} \/ (h # 0 /\ h <= nHandle)
    BY DEF Less
  <2> QED  BY <1>1, <2>1, <2>2, NetStays
<1>4. KeyInv'
  BY <1>1, <1>2 DEF KeyInv
<1>5. ASSUME NEW h \in Games PROVE GameInv(h)' /\ (Held(h)' <=> Held(h))
  <2>1. \A e \in Descs : /\ Less(Pends(h, e), Pends(h, e)')
                         /\ Less(Fetches(h, e), Fetches(h, e)')
    BY <1>2 DEF Pends, Fetches
  <2>2. LogonOfPeer(db, handle[h])' <=> LogonOfPeer(db, handle[h])
    BY <1>2 DEF SameLogon, LogonOfPeer
  <2> QED  BY <1>1, <1>2, <2>1, <2>2, OtherGame
<1>6. BackInv'
  BY <1>1, <1>2, <1>5, BackStays
<1> QED  BY <1>3, <1>4, <1>5, <1>6 DEF IInv

LEMMA AuthStep ==
    ASSUME IInv, AuthLogin
    PROVE  IInv'
<1>1. /\ TypeOK /\ Sound(db) /\ LatestInv /\ db \in LoginTables /\ nAuth \in 0..MaxAuth
  BY Parts
<1>2. /\ UNCHANGED <<busy, player_index, results, logoutTimer, net, toDb, toGame, desc, losses>>
      /\ nAuth < MaxAuth /\ nAuth' = nAuth + 1
  BY DEF AuthLogin
<1>3. nAuth \in Nat /\ nAuth + 1 \in Keys /\ nAuth' \in 0..MaxAuth
  BY <1>1, <1>2, LoginAssumption DEF Keys
<1>4. /\ db' \in LoginTables /\ Sound(db') /\ SameLogon(db, db')
      /\ \A n \in Nat : Latest(db, n) => Latest(db', nAuth + 1)
  BY <1>1, <1>3, AuthTables DEF AuthLogin
<1>5. LatestInv'
  BY <1>1, <1>2, <1>3, <1>4 DEF LatestInv
<1>6. TypeOK'
  BY <1>1, <1>2, <1>3, <1>4 DEF TypeOK, net
<1>7. \A S : Less(In(results, S), In(results', S))
  BY <1>2, SameSelf
<1> QED  BY <1>2, <1>4, <1>5, <1>6, <1>7, StillStep

LEMMA NobodyStep ==
    ASSUME IInv, ResultWithoutPeer
    PROVE  IInv'
<1>1. /\ TypeOK /\ QueuesOK /\ Sound(db) /\ LatestInv
  BY Parts
<1>2. /\ UNCHANGED <<db, busy, player_index, logoutTimer, net, toDb, toGame, desc, nAuth, losses>>
      /\ results # <<>> /\ results' = Tail(results)
  BY DEF ResultWithoutPeer
<1>3. results' \in Seq(Pending) /\ \A S : Less(In(results, S), In(results', S))
  BY <1>1, <1>2, ResultFacts
<1>4. LatestInv'
  BY <1>1, <1>2 DEF LatestInv
<1>5. TypeOK'
  BY <1>1, <1>2, <1>3 DEF TypeOK, net, Pending
<1>6. Sound(db') /\ SameLogon(db, db')
  BY <1>1, <1>2, SameLogonSelf
<1> QED  BY <1>2, <1>3, <1>4, <1>5, <1>6, StillStep

LEMMA TimerStep ==
    ASSUME IInv, LogoutTimerExpires
    PROVE  IInv'
<1>1. /\ TypeOK /\ Sound(db) /\ LatestInv
  BY Parts
<1>2. /\ UNCHANGED <<db, busy, player_index, results, net, toDb, toGame, desc, nAuth, losses>>
      /\ logoutTimer' = FALSE
  BY DEF LogoutTimerExpires
<1>3. \A S : Less(In(results, S), In(results', S))
  BY <1>2, SameSelf
<1>4. LatestInv'
  BY <1>1, <1>2 DEF LatestInv
<1>5. TypeOK'
  BY <1>1, <1>2 DEF TypeOK, net
<1>6. Sound(db') /\ SameLogon(db, db')
  BY <1>1, <1>2, SameLogonSelf
<1> QED  BY <1>2, <1>3, <1>4, <1>5, <1>6, StillStep

(* Nothing is under way for a game, and there was a loss.                  *)
LEMMA BareGame ==
    ASSUME NEW g \in Games, losses' # 0, In(toDb'[g], Setups) = {},
           \A d \in Descs : /\ Asks(g, d)' = {} /\ Pends(g, d)' = {} /\ Hears(g, d)' = {}
                            /\ Loads(g, d)' = {} /\ Fetches(g, d)' = {} /\ Shows(g, d)' = {}
    PROVE  GameInv(g)'
<1>1. \A d \in Descs : AskInv(g, d)' /\ LoadInv(g, d)'
  BY FewNone DEF AskInv, LoadInv, Sole, Some
<1> QED  BY <1>1 DEF GameInv, SetupInv, TokenInv

(* RemovePeer: who was logged on by the peer is not any more.              *)
LEMMA RemoveStep ==
    ASSUME IInv, NEW g \in Games, RemovePeer(g)
    PROVE  IInv'
<1>1. /\ handle[g] # 0 /\ losses < MaxLoss /\ losses' = losses + 1
      /\ handle' = [handle EXCEPT ![g] = 0]
      /\ toDb' = [toDb EXCEPT ![g] = <<>>] /\ toGame' = [toGame EXCEPT ![g] = <<>>]
      /\ db' = IF LogonOfPeer(db, handle[g]) THEN ClearLogon(db) ELSE db
      /\ UNCHANGED <<busy, player_index, results, logoutTimer, nHandle, desc, nAuth>>
  BY DEF RemovePeer
<1>2. /\ TypeOK /\ QueuesOK /\ Sound(db) /\ NetInv /\ KeyInv /\ BackInv /\ db \in LoginTables
      /\ \A h \in Games : GameInv(h)
  BY Parts
<1>3. handle \in [Games -> Nat] /\ losses \in 0..MaxLoss
  BY <1>2 DEF TypeOK
<1>4. losses' # 0 /\ losses' \in 0..MaxLoss
  BY <1>1, <1>3, LoginAssumption
<1>5. /\ db' \in LoginTables /\ Sound(db')
      /\ db'.logon # NULL => db' = db /\ ~LogonOfPeer(db, handle[g])
  BY <1>1, <1>2, ClearTables DEF LogonOfPeer
<1>6. /\ handle'[g] = 0 /\ toDb'[g] = <<>> /\ toGame'[g] = <<>>
      /\ \A h \in Games : h # g => /\ handle'[h] = handle[h] /\ toDb'[h] = toDb[h]
                                   /\ toGame'[h] = toGame[h]
  BY <1>1, <1>2, <1>3 DEF QueuesOK
<1>7. NetInv'
  <2>1. \A h \in Games : handle'[h] = handle[h] \/ (handle'[h] = 0 /\ h = g)
    BY <1>6
  <2>2. nHandle \in Nat /\ nHandle' = nHandle
    BY <1>1, <1>2 DEF TypeOK
  <2>3. \A h \in Games : handle'[h] <= nHandle'
    BY <1>2, <2>1, <2>2 DEF NetInv
  <2>4. \A h, k \in Games : handle'[h] = handle'[k] /\ handle'[h] # 0 => h = k
    BY <1>2, <2>1 DEF NetInv
  <2>5. \A h \in Games : handle'[h] = 0 => toDb'[h] = <<>> /\ toGame'[h] = <<>>
    BY <1>2, <1>6, <2>1 DEF NetInv
  <2> QED  BY <1>1, <1>2, <1>4, <2>2, <2>3, <2>4, <2>5 DEF NetInv
<1>8. KeyInv'
  BY <1>1, <1>2 DEF KeyInv
<1>9. GameInv(g)'
  <2>1. \A d \in Descs : /\ Asks(g, d)' = {} /\ Hears(g, d)' = {}
                         /\ Loads(g, d)' = {} /\ Shows(g, d)' = {}
    BY <1>6, InEmpty DEF Asks, Hears, Loads, Shows
  <2>2. In(toDb'[g], Setups) = {}
    BY <1>6, InEmpty
  <2>3. \A d \in Descs : Pends(g, d)' = {} /\ Fetches(g, d)' = {}
    BY <1>1, <1>2, <1>6 DEF NetInv, Pends, Fetches
  <2> QED  BY <1>4, <2>1, <2>2, <2>3, BareGame
<1>10. ASSUME NEW h \in Games, h # g PROVE GameInv(h)' /\ (Held(h)' <=> Held(h))
  <2>1. \A e \in Descs : /\ Less(Pends(h, e), Pends(h, e)')
                         /\ Less(Fetches(h, e), Fetches(h, e)')
    BY <1>1, <1>6, <1>10, SameSelf DEF Pends, Fetches
  <2> QED  BY <1>1, <1>2, <1>4, <1>6, <1>10, <2>1, OtherGame
<1>11. BackInv'
  <2> SUFFICES ASSUME db'.logon # NULL
               PROVE  /\ db'.ld[db'.logon].peer # 0
                      /\ \E h \in Games : LogonOfPeer(db, handle[h])' /\ Held(h)'
    BY DEF BackInv
  <2>1. ~LogonOfPeer(db, handle[g]) /\ db' = db /\ db.logon # NULL
    BY <1>5
  <2>2. PICK h \in Games : LogonOfPeer(db, handle[h]) /\ Held(h)
    BY <1>2, <2>1 DEF BackInv
  <2>3. h # g
    BY <2>1, <2>2
  <2>4. LogonOfPeer(db, handle[h])'
    BY <1>6, <2>1, <2>2, <2>3
  <2> QED  BY <1>2, <1>10, <2>1, <2>2, <2>3, <2>4 DEF BackInv
<1>12. LatestInv'
  BY <1>4 DEF LatestInv
<1>13. TypeOK'
  <2>1. toDb' \in [Games -> Seq(ToDbMsg)] /\ toGame' \in [Games -> Seq(ToGameMsg)]
    BY <1>1, <1>2 DEF QueuesOK
  <2>2. handle' \in [Games -> Nat]
    BY <1>1, <1>3
  <2> QED  BY <1>1, <1>2, <1>4, <1>5, <2>1, <2>2 DEF TypeOK, ToGameMsg
<1> QED  BY <1>5, <1>7, <1>8, <1>9, <1>10, <1>11, <1>12, <1>13 DEF IInv

LEMMA RestartStep ==
    ASSUME IInv, DbRestart
    PROVE  IInv'
<1>1. /\ losses < MaxLoss /\ losses' = losses + 1
      /\ db' = NoLogins /\ busy' = 0 /\ results' = <<>> /\ logoutTimer' = FALSE
      /\ handle' = [g \in Games |-> 0]
      /\ toDb' = [g \in Games |-> <<>>] /\ toGame' = [g \in Games |-> <<>>]
      /\ UNCHANGED <<player_index, nHandle, desc, nAuth>>
  BY DEF DbRestart
<1>2. /\ TypeOK /\ KeyInv
  BY Parts
<1>3. losses' # 0 /\ losses' \in 0..MaxLoss
  BY <1>1, <1>2, LoginAssumption DEF TypeOK
<1>4. NoLogins \in LoginTables /\ Sound(NoLogins)
  BY DEF NoLogins, LoginTables, Sound, Pointers, NULL
<1>5. NetInv'
  <2>1. nHandle \in Nat
    BY <1>2 DEF TypeOK
  <2> QED  BY <1>1, <1>3, <2>1, InEmpty DEF NetInv
<1>6. KeyInv'
  BY <1>1, <1>2 DEF KeyInv
<1>7. ASSUME NEW g \in Games PROVE GameInv(g)'
  <2>1. \A d \in Descs : /\ Asks(g, d)' = {} /\ Pends(g, d)' = {} /\ Hears(g, d)' = {}
                         /\ Loads(g, d)' = {} /\ Fetches(g, d)' = {} /\ Shows(g, d)' = {}
    BY <1>1, InEmpty DEF Asks, Pends, Hears, Loads, Fetches, Shows
  <2>2. In(toDb'[g], Setups) = {}
    BY <1>1, InEmpty
  <2> QED  BY <1>3, <2>1, <2>2, BareGame
<1>8. BackInv' /\ LatestInv'
  BY <1>1, <1>3 DEF BackInv, LatestInv, NoLogins
<1>9. TypeOK'
  <2>1. handle' \in [Games -> Nat]
    BY <1>1
  <2>2. /\ toDb' \in [Games -> Seq(ToDbMsg)] /\ toGame' \in [Games -> Seq(ToGameMsg)]
        /\ results' \in Seq(Pending)
    BY <1>1
  <2> QED  BY <1>1, <1>2, <1>3, <1>4, <2>1, <2>2 DEF TypeOK, ToGameMsg, Pending
<1> QED  BY <1>1, <1>4, <1>5, <1>6, <1>7, <1>8, <1>9 DEF IInv

(* Reconnect: a fresh handle, for which nothing is under way but the SETUP.*)
LEMMA ReconnectStep ==
    ASSUME IInv, NEW g \in Games, Reconnect(g)
    PROVE  IInv'
<1>1. /\ handle[g] = 0 /\ nHandle' = nHandle + 1
      /\ handle' = [handle EXCEPT ![g] = nHandle + 1]
      /\ UNCHANGED <<db, busy, player_index, results, logoutTimer, toGame, desc, nAuth, losses>>
  BY DEF Reconnect
<1>2. PICK order \in [1..Cardinality(BoundDescs(g)) -> BoundDescs(g)] :
         toDb' = [toDb EXCEPT ![g] =
                     <<[op |-> "SETUP",
                        keys |-> [i \in DOMAIN order |-> desc[order[i]].key]]>>]
  BY DEF Reconnect
<1>3. /\ TypeOK /\ QueuesOK /\ Sound(db) /\ NetInv /\ KeyInv /\ BackInv
      /\ \A h \in Games : GameInv(h)
  BY Parts
<1>4. handle \in [Games -> Nat] /\ nHandle \in Nat
  BY <1>3 DEF TypeOK
<1>5. losses # 0 /\ losses' = losses
  BY <1>1, <1>3 DEF NetInv
<1> DEFINE keys == [i \in DOMAIN order |-> desc[order[i]].key]
           m == [op |-> "SETUP", keys |-> keys]
<1>6. keys \in Seq(Keys) /\ (keys # <<>> => BoundDescs(g) # {})
  <2> DEFINE n == Cardinality(BoundDescs(g))
  <2>1. BoundDescs(g) \subseteq 1..MaxDesc
    BY DEF BoundDescs, Descs
  <2>2. IsFiniteSet(1..MaxDesc)
    BY LoginAssumption, FS_Interval
  <2>3. IsFiniteSet(BoundDescs(g))
    BY <2>1, <2>2, FS_Subset
  <2>4. n \in Nat
    BY <2>3, FS_CardinalityType
  <2> HIDE DEF n
  <2>5. order \in [1..n -> BoundDescs(g)]
    BY <1>2 DEF n
  <2>6. \A i \in 1..n : desc[order[i]].key \in Keys
    BY <1>3, <2>5 DEF KeyInv, BoundDescs, Bound
  <2>7. keys \in [1..n -> Keys]
    BY <2>5, <2>6
  <2>8. keys \in Seq(Keys)
    BY <2>4, <2>7, SeqDef
  <2>9. keys # <<>> => 1 \in 1..n
    <3>1. Len(keys) = n
      BY <2>4, <2>7, <2>8, LenProperties
    <3> QED  BY <2>4, <2>8, <3>1, EmptySeq
  <2> QED  BY <2>5, <2>8, <2>9
<1> HIDE DEF keys
<1>7. m \in ToDbMsg /\ m.keys = keys /\ m \notin Logouts
      /\ \A e : m \notin AskOf(e) /\ m \notin LoadOf(e)
  BY <1>6 DEF ToDbMsg, Logouts, AskOf, LoadOf
<1> HIDE DEF m
<1>8. toDb' = [toDb EXCEPT ![g] = <<m>>]
  BY <1>2 DEF m, keys
<1>9. /\ <<m>> \in Seq(ToDbMsg) /\ Head(<<m>>) = m
      /\ \A S : /\ In(<<m>>, S) \subseteq {1}
                /\ m \notin S => In(<<m>>, S) = {}
  BY <1>7 DEF In
<1>10. /\ handle'[g] = nHandle + 1 /\ toDb'[g] = <<m>> /\ toGame[g] = <<>> /\ toGame' = toGame
       /\ \A h \in Games : h # g => /\ handle'[h] = handle[h] /\ toDb'[h] = toDb[h]
                                    /\ toGame'[h] = toGame[h]
  BY <1>1, <1>3, <1>4, <1>8 DEF QueuesOK, NetInv
<1>11. NetInv'
  <2>1. \A h \in Games : handle[h] \in Nat /\ handle[h] <= nHandle
    BY <1>3, <1>4 DEF NetInv
  <2>2. \A h \in Games : handle'[h] \in Nat /\ handle'[h] <= nHandle'
    BY <1>1, <1>4, <1>10, <2>1
  <2>3. \A h \in Games : h # g => handle'[h] # handle'[g]
    BY <1>4, <1>10, <2>1
  <2>4. \A h, k \in Games : handle'[h] = handle'[k] /\ handle'[h] # 0 => h = k
    BY <1>3, <1>10, <2>3 DEF NetInv
  <2>5. \A h \in Games : handle'[h] = 0 => toDb'[h] = <<>> /\ toGame'[h] = <<>>
    BY <1>3, <1>4, <1>10 DEF NetInv
  <2>6. ASSUME NEW h \in Nat, NEW d \in Descs,
               In(results', PendOf(h, d)) # {} \/ In(results', FetchOf(h, d)) # {}
        PROVE  h # 0 /\ h <= nHandle'
    <3>1. h # 0 /\ h <= nHandle
      BY <1>1, <1>3, <2>6 DEF NetInv
    <3> QED  BY <1>1, <1>4, <3>1
  <2> QED  BY <1>5, <2>2, <2>4, <2>5, <2>6 DEF NetInv
<1>12. KeyInv'
  BY <1>1, <1>3 DEF KeyInv
<1>13. BoundDescs(g)' = BoundDescs(g)
  BY <1>1 DEF BoundDescs
<1>14. GameInv(g)'
  <2>1. \A d \in Descs : /\ Asks(g, d)' = {} /\ Hears(g, d)' = {}
                         /\ Loads(g, d)' = {} /\ Shows(g, d)' = {}
    BY <1>7, <1>9, <1>10, InEmpty DEF Asks, Hears, Loads, Shows
  <2>2. \A d \in Descs : Pends(g, d)' = {} /\ Fetches(g, d)' = {}
    <3>1. nHandle + 1 \in Nat /\ ~(nHandle + 1 <= nHandle)
      BY <1>4
    <3>2. \A d \in Descs : /\ In(results, PendOf(nHandle + 1, d)) = {}
                           /\ In(results, FetchOf(nHandle + 1, d)) = {}
      BY <1>3, <3>1 DEF NetInv
    <3> QED  BY <1>1, <1>10, <3>2 DEF Pends, Fetches
  <2>3. \A d \in Descs : AskInv(g, d)' /\ LoadInv(g, d)'
    BY <2>1, <2>2, FewNone DEF AskInv, LoadInv, Sole, Some
  <2>4. SetupInv(g)'
    BY <1>5, <1>6, <1>7, <1>9, <1>10, <1>13 DEF SetupInv, Held, Some
  <2>5. TokenInv(g)'
    BY <1>5 DEF TokenInv
  <2> QED  BY <2>3, <2>4, <2>5 DEF GameInv
<1>15. ASSUME NEW h \in Games, h # g PROVE GameInv(h)' /\ (Held(h)' <=> Held(h))
  <2>1. \A e \in Descs : /\ Less(Pends(h, e), Pends(h, e)')
                         /\ Less(Fetches(h, e), Fetches(h, e)')
    BY <1>1, <1>10, <1>15, SameSelf DEF Pends, Fetches
  <2>2. desc' = desc
    BY <1>1
  <2> QED  BY <1>3, <1>5, <1>10, <1>15, <2>1, <2>2, OtherGame
<1>16. BackInv'
  <2> SUFFICES ASSUME db.logon # NULL
               PROVE  /\ db.ld[db.logon].peer # 0
                      /\ \E h \in Games : LogonOfPeer(db, handle[h])' /\ Held(h)'
    BY <1>1 DEF BackInv
  <2>1. PICK h \in Games : LogonOfPeer(db, handle[h]) /\ Held(h)
    BY <1>3 DEF BackInv
  <2>2. db.ld[db.logon].peer # 0 /\ h # g
    BY <1>1, <1>3, <2>1 DEF BackInv, LogonOfPeer
  <2>3. LogonOfPeer(db, handle[h])'
    BY <1>1, <1>10, <2>1, <2>2
  <2> QED  BY <1>15, <2>1, <2>2, <2>3
<1>17. LatestInv'
  BY <1>5 DEF LatestInv
<1>18. TypeOK'
  <2>1. toDb' \in [Games -> Seq(ToDbMsg)]
    BY <1>3, <1>8, <1>9 DEF QueuesOK
  <2>2. handle' \in [Games -> Nat] /\ nHandle' \in Nat
    BY <1>1, <1>4
  <2> QED  BY <1>1, <1>3, <2>1, <2>2 DEF TypeOK
<1>19. Sound(db')
  BY <1>1, <1>3
<1> QED  BY <1>11, <1>12, <1>14, <1>15, <1>16, <1>17, <1>18, <1>19 DEF IInv

-----------------------------------------------------------------------------
(* The steps of the game processes.                                        *)

LEMMA GameStep ==
    ASSUME IInv, NEW g \in Games, UNCHANGED <<net, losses, db, results, nAuth>>,
           \A h \in Games : h # g => toDb'[h] = toDb[h] /\ toGame'[h] = toGame[h],
           handle[g] = 0 => toDb'[g] = <<>> /\ toGame'[g] = <<>>,
           \A h \in Games, d \in Descs : h # g =>
              /\ desc[d].game = h /\ desc[d].phase # "free" => desc'[d] = desc[d]
              /\ desc'[d].game = h => desc'[d] = desc[d],
           TypeOK', KeyInv', SetupInv(g)',
           \A d \in Descs : AskInv(g, d)' /\ LoadInv(g, d)',
           Sole(BoundDescs(g), Wins(g), Leaves(g)) /\ losses = 0 =>
              Sole(BoundDescs(g), Wins(g), Leaves(g))',
           handle[g] # 0 => (Held(g)' <=> Held(g))
    PROVE  IInv'
<1>1. /\ NetInv /\ BackInv /\ LatestInv /\ TokenInv(g) /\ Sound(db)
      /\ \A h \in Games : GameInv(h)
  BY Parts
<1>2. handle' = handle /\ nHandle' = nHandle /\ losses' = losses
      /\ db' = db /\ results' = results /\ nAuth' = nAuth
  BY DEF net
<1>3. NetInv'
  <2>1. \A h \in Games : handle[h] = 0 => toDb'[h] = <<>> /\ toGame'[h] = <<>>
    BY <1>1, <1>2 DEF NetInv
  <2> QED  BY <1>1, <1>2, <2>1, NetStays
<1>4. ASSUME NEW h \in Games, h # g PROVE GameInv(h)' /\ (Held(h)' <=> Held(h))
  <2>1. \A e \in Descs : /\ Less(Pends(h, e), Pends(h, e)')
                         /\ Less(Fetches(h, e), Fetches(h, e)')
    BY <1>2, SameSelf DEF Pends, Fetches
  <2>2. LogonOfPeer(db, handle[h])' <=> LogonOfPeer(db, handle[h])
    BY <1>2
  <2> QED  BY <1>1, <1>2, <1>4, <2>1, <2>2, OtherGame
<1>5. TokenInv(g)'
  BY <1>1, <1>2 DEF TokenInv, NetInv
<1>6. GameInv(g)'
  BY <1>5 DEF GameInv
<1>7. BackInv'
  <2> SUFFICES ASSUME db.logon # NULL
               PROVE  /\ db.ld[db.logon].peer # 0
                      /\ \E h \in Games : LogonOfPeer(db, handle[h])' /\ Held(h)'
    BY <1>2 DEF BackInv
  <2>1. PICK h \in Games : LogonOfPeer(db, handle[h]) /\ Held(h)
    BY <1>1 DEF BackInv
  <2>2. db.ld[db.logon].peer # 0 /\ handle[h] # 0
    BY <1>1, <2>1 DEF BackInv, LogonOfPeer
  <2>3. Held(h)' /\ LogonOfPeer(db, handle[h])'
    BY <1>2, <1>4, <2>1, <2>2
  <2> QED  BY <2>2, <2>3
<1>8. LatestInv'
  BY <1>1, <1>2 DEF LatestInv
<1>9. Sound(db')
  BY <1>1, <1>2
<1> QED  BY <1>3, <1>4, <1>6, <1>7, <1>8, <1>9 DEF IInv

(* A packet from d to the db, among what is under way.                     *)
LEMMA SendMade ==
    ASSUME QueuesOK, NEW g \in Games, NEW m \in ToDbMsg, m \notin Setups, SendDb(g, m)
    PROVE  /\ toDb' \in [Games -> Seq(ToDbMsg)]
           /\ \A h \in Games : h # g => toDb'[h] = toDb[h]
           /\ handle[g] = 0 => toDb' = toDb
           /\ m \notin Logouts => Leaves(g)' = Leaves(g)
           /\ m \in Logouts /\ handle[g] # 0 =>
                 Leaves(g)' = Leaves(g) \cup {Len(toDb[g]) + 1}
           /\ \A e : /\ m \notin AskOf(e) => Asks(g, e)' = Asks(g, e)
                     /\ m \notin LoadOf(e) => Loads(g, e)' = Loads(g, e)
                     /\ Few(Asks(g, e)') \/ Asks(g, e) # {}
<1>1. /\ toDb' \in [Games -> Seq(ToDbMsg)]
      /\ \A h \in Games : h # g => toDb'[h] = toDb[h]
      /\ handle[g] = 0 => toDb' = toDb
      /\ \A S : m \notin S => In(toDb'[g], S) = In(toDb[g], S)
      /\ \A S : m \in S /\ handle[g] # 0 =>
                 In(toDb'[g], S) = In(toDb[g], S) \cup {Len(toDb[g]) + 1}
  BY SendDbFacts
<1>2. /\ m \notin Logouts => Leaves(g)' = Leaves(g)
      /\ m \in Logouts /\ handle[g] # 0 =>
             Leaves(g)' = Leaves(g) \cup {Len(toDb[g]) + 1}
  BY <1>1 DEF Leaves
<1>3. ASSUME NEW e
      PROVE  /\ m \notin AskOf(e) => Asks(g, e)' = Asks(g, e)
             /\ m \notin LoadOf(e) => Loads(g, e)' = Loads(g, e)
  BY <1>1 DEF Asks, Loads
<1>4. ASSUME NEW e PROVE Few(Asks(g, e)') \/ Asks(g, e) # {}
  <2>1. CASE handle[g] = 0 \/ m \notin AskOf(e)
    BY <1>1, <2>1, FewNone DEF Asks
  <2>2. CASE handle[g] # 0 /\ m \in AskOf(e)
    <3>1. Asks(g, e)' = Asks(g, e) \cup {Len(toDb[g]) + 1}
      BY <1>1, <2>2 DEF Asks
    <3>2. Asks(g, e) = {} => Asks(g, e)' = {Len(toDb[g]) + 1}
      BY <3>1
    <3> QED  BY <3>2, FewOne
  <2> QED  BY <2>1, <2>2
<1> QED  BY <1>1, <1>2, <1>3, <1>4

(* What a client's descriptor becomes.                                     *)
DescType == [Descs -> [game : {0} \cup Games, key : 0..MaxAuth, phase : Phase]]

LEMMA SetPhaseFacts ==
    ASSUME desc \in DescType, NEW d \in Descs, NEW phase \in Phase, SetPhase(d, phase)
    PROVE  /\ desc' \in DescType
           /\ desc'[d].game = desc[d].game /\ desc'[d].key = desc[d].key
           /\ desc'[d].phase = phase
           /\ \A e \in Descs : e # d => desc'[e] = desc[e]
<1>1. desc[d] \in [game : {0} \cup Games, key : 0..MaxAuth, phase : Phase]
  BY DEF DescType
<1>2. /\ [desc[d] EXCEPT !.phase = phase] \in
             [game : {0} \cup Games, key : 0..MaxAuth, phase : Phase]
      /\ [desc[d] EXCEPT !.phase = phase].game = desc[d].game
      /\ [desc[d] EXCEPT !.phase = phase].key = desc[d].key
      /\ [desc[d] EXCEPT !.phase = phase].phase = phase
  BY <1>1
<1>3. desc' = [desc EXCEPT ![d] = [desc[d] EXCEPT !.phase = phase]]
  BY DEF SetPhase
<1> DEFINE n == [desc[d] EXCEPT !.phase = phase]
<1> HIDE DEF n
<1>4. desc' = [desc EXCEPT ![d] = n]
  BY <1>3 DEF n
<1>5. n \in [game : {0} \cup Games, key : 0..MaxAuth, phase : Phase]
  BY <1>2 DEF n
<1>6. desc' \in DescType /\ desc'[d] = n /\ \A e \in Descs : e # d => desc'[e] = desc[e]
  BY <1>4, <1>5 DEF DescType
<1> QED  BY <1>2, <1>6 DEF n

(* A client asks to log in, on a new connection or again.                  *)
LEMMA LoginStep ==
    ASSUME IInv, NEW g \in Games, NEW d \in Descs, NEW k \in Keys,
           desc[d].phase \in {"free", "idle"},
           desc[d].phase = "idle" => desc[d].game = g,
           desc' \in DescType, desc'[d].game = g, desc'[d].key = k, desc'[d].phase = "asked",
           \A e \in Descs : e # d => desc'[e] = desc[e],
           SendDb(g, [op |-> "LOGIN_BY_KEY", desc |-> d, key |-> k]),
           UNCHANGED <<db, busy, player_index, results, logoutTimer, net, toGame, nAuth, losses>>
    PROVE  IInv'
<1> DEFINE m == [op |-> "LOGIN_BY_KEY", desc |-> d, key |-> k]
<1>1. /\ TypeOK /\ QueuesOK /\ NetInv /\ KeyInv /\ SetupInv(g)
      /\ \A h \in Games, e \in Descs : AskInv(h, e) /\ LoadInv(h, e)
  BY Parts
<1>2. m \in ToDbMsg /\ m.op = "LOGIN_BY_KEY" /\ m.desc = d
  BY ToDbMade
<1>3. /\ m \in AskOf(d) /\ m \notin Logouts /\ m \notin Setups
      /\ \A e : (m \in AskOf(e) => e = d) /\ m \notin LoadOf(e)
  BY <1>2, ToDbKinds
<1> HIDE DEF m
<1>4. SendDb(g, m)
  BY DEF m
<1>5. /\ toDb' \in [Games -> Seq(ToDbMsg)]
      /\ \A h \in Games : h # g => toDb'[h] = toDb[h]
      /\ handle[g] = 0 => toDb' = toDb
      /\ Leaves(g)' = Leaves(g)
      /\ \A e : /\ e # d => Asks(g, e)' = Asks(g, e)
                /\ Loads(g, e)' = Loads(g, e)
                /\ Few(Asks(g, e)') \/ Asks(g, e) # {}
  BY <1>1, <1>2, <1>3, <1>4, SendMade
<1>7. /\ desc'[d].game = g /\ desc'[d].key = k /\ desc'[d].phase = "asked"
      /\ \A e \in Descs : e # d => desc'[e] = desc[e]
  OBVIOUS
<1>8. /\ Wins(g)' = Wins(g)
      /\ \A e : /\ Pends(g, e)' = Pends(g, e) /\ Fetches(g, e)' = Fetches(g, e)
                /\ Hears(g, e)' = Hears(g, e) /\ Shows(g, e)' = Shows(g, e)
  BY DEF net, Wins, Pends, Fetches, Hears, Shows
<1>9. BoundDescs(g)' = BoundDescs(g)
  BY <1>7 DEF BoundDescs, Bound
<1>10. Held(g)' <=> Held(g)
  BY <1>5, <1>8, <1>9 DEF Held
<1>11. ASSUME NEW e \in Descs PROVE AskInv(g, e)' /\ LoadInv(g, e)'
  <2>1. CASE e = d
    <3>1. /\ Asks(g, d) = {} /\ Pends(g, d) = {} /\ Hears(g, d) = {}
          /\ Loads(g, d) = {} /\ Fetches(g, d) = {} /\ Shows(g, d) = {}
      BY <1>1 DEF AskInv, LoadInv, Some, Bound
    <3>2. /\ Few(Asks(g, d)') /\ Pends(g, d)' = {} /\ Hears(g, d)' = {}
          /\ Loads(g, d)' = {} /\ Fetches(g, d)' = {} /\ Shows(g, d)' = {}
      BY <1>5, <1>8, <3>1
    <3> QED  BY <1>7, <2>1, <3>2, FewNone DEF AskInv, LoadInv, Sole, Some
  <2>2. CASE e # d
    BY <1>1, <1>5, <1>7, <1>8, <2>2 DEF AskInv, LoadInv, Sole, Some
  <2> QED  BY <2>1, <2>2
<1>12. SetupInv(g)'
  BY <1>1, <1>2, <1>3, <1>4, <1>10, SendSetup
<1>13. KeyInv'
  BY <1>1, <1>7 DEF KeyInv
<1>14. TypeOK'
  BY <1>1, <1>5 DEF TypeOK, net, DescType
<1>15. Sole(BoundDescs(g), Wins(g), Leaves(g)) => Sole(BoundDescs(g), Wins(g), Leaves(g))'
  BY <1>5, <1>8, <1>9 DEF Sole
<1>16. handle[g] = 0 => toDb'[g] = <<>> /\ toGame'[g] = <<>>
  BY <1>1, <1>5 DEF NetInv
<1>17. \A h \in Games, e \in Descs : h # g =>
              /\ desc[e].game = h /\ desc[e].phase # "free" => desc'[e] = desc[e]
              /\ desc'[e].game = h => desc'[e] = desc[e]
  BY <1>7
<1> QED  BY <1>5, <1>10, <1>11, <1>12, <1>13, <1>14, <1>15, <1>16, <1>17, GameStep

LEMMA ByKeyAsked ==
    ASSUME IInv, NEW g \in Games, NEW d \in Descs, NEW k \in Keys, LoginByKey(g, d, k)
    PROVE  IInv'
<1>1. /\ [game |-> g, key |-> k, phase |-> "asked"] \in
             [game : {0} \cup Games, key : 0..MaxAuth, phase : Phase]
      /\ desc' = [desc EXCEPT ![d] = [game |-> g, key |-> k, phase |-> "asked"]]
  BY LoginAssumption DEF Keys, Phase, LoginByKey
<1>2. desc \in DescType
  BY DEF IInv, TypeOK, DescType
<1>3. /\ desc' \in DescType /\ desc'[d] = [game |-> g, key |-> k, phase |-> "asked"]
      /\ \A e \in Descs : e # d => desc'[e] = desc[e]
  BY <1>1, <1>2 DEF DescType
<1>4. /\ desc[d].phase = "free"
      /\ SendDb(g, [op |-> "LOGIN_BY_KEY", desc |-> d, key |-> k])
      /\ UNCHANGED <<db, busy, player_index, results, logoutTimer, net, toGame, nAuth, losses>>
  BY DEF LoginByKey
<1>5. /\ desc'[d].game = g /\ desc'[d].key = k /\ desc'[d].phase = "asked"
  BY <1>3
<1> QED  BY <1>3, <1>4, <1>5, LoginStep

LEMMA AgainAsked ==
    ASSUME IInv, NEW d \in Descs, LoginAgain(d)
    PROVE  IInv'
<1>1. /\ desc \in DescType /\ KeyInv /\ desc[d].phase = "idle" /\ SetPhase(d, "asked")
      /\ SendDb(desc[d].game, [op |-> "LOGIN_BY_KEY", desc |-> d, key |-> desc[d].key])
      /\ UNCHANGED <<db, busy, player_index, results, logoutTimer, net, toGame, nAuth, losses>>
  BY DEF LoginAgain, IInv, TypeOK, DescType
<1>2. PICK g \in Games, k \in Keys : g = desc[d].game /\ k = desc[d].key
  BY <1>1 DEF KeyInv
<1>3. /\ desc' \in DescType
      /\ desc'[d].game = g /\ desc'[d].key = k /\ desc'[d].phase = "asked"
      /\ \A e \in Descs : e # d => desc'[e] = desc[e]
  BY <1>1, <1>2, SetPhaseFacts DEF Phase
<1> QED  BY <1>1, <1>2, <1>3, LoginStep

(* CharacterSelect                                                         *)
LEMMA SelectStep ==
    ASSUME IInv, NEW d \in Descs, CharacterSelect(d)
    PROVE  IInv'
<1> DEFINE m == [op |-> "PLAYER_LOAD", desc |-> d]
<1>1. /\ desc[d].phase = "select" /\ SetPhase(d, "load") /\ SendDb(desc[d].game, m)
      /\ UNCHANGED <<db, busy, player_index, results, logoutTimer, net, toGame, nAuth, losses>>
  BY DEF CharacterSelect
<1>2. /\ TypeOK /\ QueuesOK /\ NetInv /\ KeyInv
      /\ \A h \in Games : SetupInv(h) /\ \A e \in Descs : AskInv(h, e) /\ LoadInv(h, e)
  BY Parts
<1>3. PICK g \in Games : g = desc[d].game
  BY <1>1, <1>2 DEF KeyInv
<1>4. m \in ToDbMsg /\ m.op = "PLAYER_LOAD" /\ m.desc = d
  BY ToDbMade
<1>5. /\ m \notin Logouts /\ m \notin Setups
      /\ \A e : (m \in LoadOf(e) => e = d) /\ m \notin AskOf(e)
  BY <1>4, ToDbKinds
<1> HIDE DEF m
<1>6. /\ toDb' \in [Games -> Seq(ToDbMsg)]
      /\ \A h \in Games : h # g => toDb'[h] = toDb[h]
      /\ handle[g] = 0 => toDb' = toDb
      /\ Leaves(g)' = Leaves(g)
      /\ \A e : /\ Asks(g, e)' = Asks(g, e)
                /\ e # d => Loads(g, e)' = Loads(g, e)
  BY <1>1, <1>2, <1>3, <1>4, <1>5, SendMade
<1>7. /\ desc' \in DescType
      /\ desc'[d].game = g /\ desc'[d].key = desc[d].key /\ desc'[d].phase = "load"
      /\ \A e \in Descs : e # d => desc'[e] = desc[e]
  BY <1>1, <1>2, <1>3, SetPhaseFacts DEF Phase, TypeOK, DescType
<1>8. /\ Wins(g)' = Wins(g)
      /\ \A e : /\ Pends(g, e)' = Pends(g, e) /\ Fetches(g, e)' = Fetches(g, e)
                /\ Hears(g, e)' = Hears(g, e) /\ Shows(g, e)' = Shows(g, e)
  BY <1>1 DEF net, Wins, Pends, Fetches, Hears, Shows
<1>9. BoundDescs(g)' = BoundDescs(g)
  BY <1>1, <1>3, <1>7 DEF BoundDescs, Bound
<1>10. Held(g)' <=> Held(g)
  BY <1>6, <1>8, <1>9 DEF Held
<1>11. ASSUME NEW e \in Descs PROVE AskInv(g, e)' /\ LoadInv(g, e)'
  <2>1. CASE e = d
    <3>1. /\ Asks(g, d) = {} /\ Pends(g, d) = {} /\ Hears(g, d) = {}
      BY <1>1, <1>2 DEF AskInv, Some
    <3>2. /\ Asks(g, d)' = {} /\ Pends(g, d)' = {} /\ Hears(g, d)' = {}
      BY <1>6, <1>8, <3>1
    <3> QED  BY <1>7, <2>1, <3>2, FewNone DEF AskInv, LoadInv, Sole, Some, Bound
  <2>2. CASE e # d
    BY <1>2, <1>6, <1>7, <1>8, <2>2 DEF AskInv, LoadInv, Sole, Some
  <2> QED  BY <2>1, <2>2
<1>12. SetupInv(g)'
  BY <1>1, <1>2, <1>3, <1>4, <1>5, <1>10, SendSetup
<1>13. KeyInv'
  BY <1>1, <1>2, <1>3, <1>7 DEF KeyInv
<1>14. TypeOK'
  BY <1>1, <1>2, <1>6, <1>7 DEF TypeOK, net, DescType
<1>15. Sole(BoundDescs(g), Wins(g), Leaves(g)) => Sole(BoundDescs(g), Wins(g), Leaves(g))'
  BY <1>6, <1>8, <1>9 DEF Sole
<1>16. handle[g] = 0 => toDb'[g] = <<>> /\ toGame'[g] = <<>>
  BY <1>1, <1>2, <1>6 DEF NetInv
<1>17. \A h \in Games, e \in Descs : h # g =>
              /\ desc[e].game = h /\ desc[e].phase # "free" => desc'[e] = desc[e]
              /\ desc'[e].game = h => desc'[e] = desc[e]
  BY <1>3, <1>7
<1> QED  BY <1>1, <1>6, <1>10, <1>11, <1>12, <1>13, <1>14, <1>15, <1>16, <1>17, GameStep

(* DESC::Destroy: a logout takes the place of the bound account table.     *)
LEMMA DestroyStep ==
    ASSUME IInv, NEW d \in Descs, DestroyDesc(d)
    PROVE  IInv'
<1> DEFINE m == [op |-> "LOGOUT", desc |-> d]
<1>1. /\ desc[d].phase \notin {"free", "closed"} /\ SetPhase(d, "closed")
      /\ IF desc[d].phase \in Bound THEN SendDb(desc[d].game, m) ELSE toDb' = toDb
      /\ UNCHANGED <<db, busy, player_index, results, logoutTimer, net, toGame, nAuth, losses>>
  BY DEF DestroyDesc
<1>2. /\ TypeOK /\ QueuesOK /\ NetInv /\ KeyInv
      /\ \A h \in Games : SetupInv(h) /\ \A e \in Descs : AskInv(h, e) /\ LoadInv(h, e)
  BY Parts
<1>3. PICK g \in Games : g = desc[d].game
  BY <1>1, <1>2 DEF KeyInv
<1>4. m \in ToDbMsg /\ m.op = "LOGOUT" /\ m.desc = d
  BY ToDbMade
<1>5. /\ m \in Logouts /\ m \notin Setups
      /\ \A e : m \notin LoadOf(e) /\ m \notin AskOf(e)
  BY <1>4, ToDbKinds
<1> HIDE DEF m
<1>6. /\ toDb' \in [Games -> Seq(ToDbMsg)]
      /\ \A h \in Games : h # g => toDb'[h] = toDb[h]
      /\ handle[g] = 0 => toDb' = toDb
      /\ \A e : Asks(g, e)' = Asks(g, e) /\ Loads(g, e)' = Loads(g, e)
  <2>1. CASE desc[d].phase \in Bound
    BY <1>1, <1>2, <1>3, <1>4, <1>5, <2>1, SendMade
  <2>2. CASE desc[d].phase \notin Bound
    <3>1. toDb' = toDb
      BY <1>1, <2>2
    <3> QED  BY <1>2, <3>1 DEF QueuesOK, Asks, Loads
  <2> QED  BY <2>1, <2>2
<1>7. /\ desc' \in DescType
      /\ desc'[d].game = g /\ desc'[d].key = desc[d].key /\ desc'[d].phase = "closed"
      /\ \A e \in Descs : e # d => desc'[e] = desc[e]
  BY <1>1, <1>2, <1>3, SetPhaseFacts DEF Phase, TypeOK, DescType
<1>8. /\ Wins(g)' = Wins(g)
      /\ \A e : /\ Pends(g, e)' = Pends(g, e) /\ Fetches(g, e)' = Fetches(g, e)
                /\ Hears(g, e)' = Hears(g, e) /\ Shows(g, e)' = Shows(g, e)
  BY <1>1 DEF net, Wins, Pends, Fetches, Hears, Shows
<1> DEFINE Kept ==
       /\ SetupInv(g)'
       /\ Sole(BoundDescs(g), Wins(g), Leaves(g)) /\ losses = 0 =>
             Sole(BoundDescs(g), Wins(g), Leaves(g))'
       /\ handle[g] # 0 => (Held(g)' <=> Held(g))
<1>9. ASSUME desc[d].phase \in Bound PROVE Kept
  <2>1. /\ SendDb(g, m) /\ d \in BoundDescs(g) /\ Held(g)
    BY <1>1, <1>3, <1>9 DEF BoundDescs, Held, Some
  <2>2. handle[g] # 0 => Leaves(g)' = Leaves(g) \cup {Len(toDb[g]) + 1}
    BY <1>2, <1>4, <1>5, <2>1, SendMade
  <2>3. BoundDescs(g)' = BoundDescs(g) \ {d}
    BY <1>7 DEF BoundDescs, Bound
  <2>4. handle[g] # 0 => Held(g)'
    BY <2>2 DEF Held, Some
  <2>5. ASSUME Sole(BoundDescs(g), Wins(g), Leaves(g)), losses = 0
        PROVE  Sole(BoundDescs(g), Wins(g), Leaves(g))'
    <3>1. handle[g] # 0
      BY <1>2, <2>5 DEF NetInv
    <3>2. BoundDescs(g) \ {d} = {} /\ Wins(g) = {} /\ Leaves(g) = {}
      BY <2>1, <2>5 DEF Sole, Few
    <3>3. BoundDescs(g)' = {} /\ Wins(g)' = {} /\ Leaves(g)' = {Len(toDb[g]) + 1}
      BY <1>8, <2>2, <2>3, <3>1, <3>2
    <3> QED  BY <3>3, FewOne, FewNone DEF Sole
  <2>6. toDb[g] # <<>> => handle[g] # 0
    BY <1>2 DEF NetInv
  <2>7. SetupInv(g)'
    BY <1>1, <1>2, <1>4, <1>5, <2>1, <2>4, <2>6, SendSetup
  <2> QED  BY <2>1, <2>4, <2>5, <2>7
<1>10. ASSUME desc[d].phase \notin Bound PROVE Kept
  <2>1. toDb' = toDb
    BY <1>1, <1>10
  <2>2. BoundDescs(g)' = BoundDescs(g)
    BY <1>7, <1>10 DEF BoundDescs, Bound
  <2>3. Leaves(g)' = Leaves(g) /\ In(toDb[g], Setups)' = In(toDb[g], Setups)
    BY <2>1 DEF Leaves
  <2>4. Held(g)' <=> Held(g)
    BY <1>8, <2>2, <2>3 DEF Held
  <2>5. SetupInv(g)'
    BY <1>1, <1>2, <2>1, <2>3, <2>4, SetupStays
  <2>6. Sole(BoundDescs(g), Wins(g), Leaves(g)) => Sole(BoundDescs(g), Wins(g), Leaves(g))'
    BY <1>8, <2>2, <2>3 DEF Sole
  <2> QED  BY <2>4, <2>5, <2>6
<1>11. Kept
  BY <1>9, <1>10
<1>12. ASSUME NEW e \in Descs PROVE AskInv(g, e)' /\ LoadInv(g, e)'
  BY <1>2, <1>3, <1>6, <1>7, <1>8 DEF AskInv, LoadInv, Sole, Some
<1>13. KeyInv'
  BY <1>1, <1>2, <1>3, <1>7 DEF KeyInv
<1>14. TypeOK'
  BY <1>1, <1>2, <1>6, <1>7 DEF TypeOK, net, DescType
<1>16. handle[g] = 0 => toDb'[g] = <<>> /\ toGame'[g] = <<>>
  BY <1>1, <1>2, <1>6 DEF NetInv
<1>17. \A h \in Games, e \in Descs : h # g =>
              /\ desc[e].game = h /\ desc[e].phase # "free" => desc'[e] = desc[e]
              /\ desc'[e].game = h => desc'[e] = desc[e]
  BY <1>3, <1>7
<1> QED  BY <1>1, <1>6, <1>11, <1>12, <1>13, <1>14, <1>16, <1>17, GameStep

(* The answer at the head of toGame is read, and it is for d.              *)
HeardBy(g, d) ==
    /\ d = Head(toGame[g]).desc /\ desc[d].game = g /\ handle[g] # 0
    /\ toGame' \in [Games -> Seq(ToGameMsg)]
    /\ \A h \in Games : h # g => toGame'[h] = toGame[h]
    /\ \A e : Less(Hears(g, e), Hears(g, e)') /\ Less(Shows(g, e), Shows(g, e)')
    /\ Head(toGame[g]).op \in LoginAnswers =>
          /\ Hears(g, d)' = {} /\ Asks(g, d) = {} /\ Pends(g, d) = {}
          /\ desc[d].phase \in {"asked", "closed"}
    /\ Head(toGame[g]).op \in LoadAnswers => desc[d].phase \in Bound \cup {"closed"}
    /\ Head(toGame[g]).op # "LOGIN_SUCCESS" => Same(Wins(g), Wins(g)')
    /\ Head(toGame[g]).op = "LOGIN_SUCCESS" =>
          Wins(g) # {} /\ (Few(Wins(g)) => Wins(g)' = {})

LEMMA HeadOfGame ==
    ASSUME IInv, NEW g \in Games, toGame[g] # <<>>,
           toGame' = [toGame EXCEPT ![g] = Tail(@)]
    PROVE  \E d \in Descs : HeardBy(g, d)
<1>1. /\ QueuesOK /\ handle[g] # 0
      /\ \A e \in Descs : AskInv(g, e) /\ LoadInv(g, e)
  BY Parts
<1>2. PICK a \in ToGameMsg :
      /\ a = Head(toGame[g])
      /\ toGame' \in [Games -> Seq(ToGameMsg)]
      /\ \A h \in Games : h # g => toGame'[h] = toGame[h]
      /\ \A S : Less(In(toGame[g], S), In(toGame'[g], S))
      /\ \A S : a \notin S => Same(In(toGame[g], S), In(toGame'[g], S))
      /\ \A S : a \in S =>
             In(toGame[g], S) # {} /\ (Few(In(toGame[g], S)) => In(toGame'[g], S) = {})
  BY <1>1, AnsweredFacts
<1>3. PICK d \in Descs :
      /\ d = a.desc
      /\ a.op \in LoginAnswers \/ a.op \in LoadAnswers
      /\ a.op \in LoginAnswers => a \in HearOf(d)
      /\ a.op \in LoadAnswers => a \in ShowOf(d)
      /\ a.op = "LOGIN_SUCCESS" <=> a \in Successes
  <2>1. a.op \in LoginAnswers \/ a.op \in LoadAnswers
    BY DEF ToGameMsg, Answer, LoginAnswers, LoadAnswers
  <2> QED  BY <2>1, ToGameKinds
<1>4. \A e : Less(Hears(g, e), Hears(g, e)') /\ Less(Shows(g, e), Shows(g, e)')
  BY <1>2 DEF Hears, Shows
<1>5. /\ a.op # "LOGIN_SUCCESS" => Same(Wins(g), Wins(g)')
      /\ a.op = "LOGIN_SUCCESS" => Wins(g) # {} /\ (Few(Wins(g)) => Wins(g)' = {})
  BY <1>2, <1>3 DEF Wins
<1>6. ASSUME a.op \in LoginAnswers
      PROVE  /\ Hears(g, d)' = {} /\ Asks(g, d) = {} /\ Pends(g, d) = {}
             /\ desc[d].game = g /\ desc[d].phase \in {"asked", "closed"}
  <2>1. Hears(g, d) # {} /\ (Few(Hears(g, d)) => Hears(g, d)' = {})
    BY <1>2, <1>3, <1>6 DEF Hears
  <2> QED  BY <1>1, <2>1 DEF AskInv, Sole, Some
<1>7. ASSUME a.op \in LoadAnswers
      PROVE  desc[d].game = g /\ desc[d].phase \in Bound \cup {"closed"}
  <2>1. Shows(g, d) # {}
    BY <1>2, <1>3, <1>7 DEF Shows
  <2> QED  BY <1>1, <2>1 DEF LoadInv, Some
<1> QED  BY <1>1, <1>2, <1>3, <1>4, <1>5, <1>6, <1>7 DEF HeardBy

(* LoginSuccess: the descriptor, or a logout, takes the place of the       *)
(* success.                                                                *)
LEMMA SuccessStep ==
    ASSUME IInv, NEW g \in Games, LoginSuccess(g)
    PROVE  IInv'
<1>1. /\ toGame[g] # <<>> /\ Head(toGame[g]).op = "LOGIN_SUCCESS"
      /\ toGame' = [toGame EXCEPT ![g] = Tail(@)]
      /\ UNCHANGED <<db, busy, player_index, results, logoutTimer, net, nAuth, losses>>
  BY DEF LoginSuccess, Answered
<1>2. /\ TypeOK /\ QueuesOK /\ NetInv /\ KeyInv /\ SetupInv(g)
      /\ \A e \in Descs : AskInv(g, e) /\ LoadInv(g, e)
  BY Parts
<1>3. PICK d \in Descs :
      /\ d = Head(toGame[g]).desc /\ desc[d].game = g /\ handle[g] # 0
      /\ toGame' \in [Games -> Seq(ToGameMsg)]
      /\ \A h \in Games : h # g => toGame'[h] = toGame[h]
      /\ \A e : Less(Hears(g, e), Hears(g, e)') /\ Less(Shows(g, e), Shows(g, e)')
      /\ Hears(g, d)' = {} /\ Asks(g, d) = {} /\ Pends(g, d) = {}
      /\ desc[d].phase \in {"asked", "closed"}
      /\ Wins(g) # {} /\ (Few(Wins(g)) => Wins(g)' = {})
  <2>1. PICK d \in Descs : HeardBy(g, d)
    BY <1>1, HeadOfGame
  <2>2. "LOGIN_SUCCESS" \in LoginAnswers
    BY DEF LoginAnswers
  <2> QED  BY <1>1, <2>1, <2>2 DEF HeardBy
<1> DEFINE m == [op |-> "LOGOUT", desc |-> d]
<1>4. m \in ToDbMsg /\ m \in Logouts /\ m \notin Setups
      /\ \A e : m \notin LoadOf(e) /\ m \notin AskOf(e)
  BY ToDbMade, ToDbKinds
<1>5. \/ SendDb(g, m) /\ desc[d].phase = "closed" /\ desc' = desc
      \/ SendDb(g, m) /\ desc[d].phase = "asked" /\ SetPhase(d, "idle")
      \/ toDb' = toDb /\ desc[d].phase = "asked" /\ SetPhase(d, "select")
  BY <1>3 DEF LoginSuccess
<1> HIDE DEF m
<1>6. desc \in DescType
  BY <1>2 DEF TypeOK, DescType
<1>7. /\ desc' \in DescType /\ desc'[d].game = g /\ desc'[d].key = desc[d].key
      /\ \A e \in Descs : e # d => desc'[e] = desc[e]
      /\ \/ SendDb(g, m) /\ desc[d].phase = "closed" /\ desc'[d].phase = "closed"
         \/ SendDb(g, m) /\ desc[d].phase = "asked" /\ desc'[d].phase = "idle"
         \/ toDb' = toDb /\ desc[d].phase = "asked" /\ desc'[d].phase = "select"
  BY <1>3, <1>5, <1>6, SetPhaseFacts DEF Phase
<1>8. /\ toDb' \in [Games -> Seq(ToDbMsg)]
      /\ \A h \in Games : h # g => toDb'[h] = toDb[h]
      /\ \A e : Asks(g, e)' = Asks(g, e) /\ Loads(g, e)' = Loads(g, e)
      /\ SendDb(g, m) => Leaves(g)' = Leaves(g) \cup {Len(toDb[g]) + 1}
  <2>1. CASE SendDb(g, m)
    BY <1>2, <1>3, <1>4, <2>1, SendMade
  <2>2. CASE ~SendDb(g, m)
    BY <1>2, <1>7, <2>2 DEF QueuesOK, Asks, Loads
  <2> QED  BY <2>1, <2>2
<1>9. \A e : Pends(g, e)' = Pends(g, e) /\ Fetches(g, e)' = Fetches(g, e)
  BY <1>1 DEF net, Pends, Fetches
<1> DEFINE Kept ==
       /\ Held(g)' /\ SetupInv(g)'
       /\ Sole(BoundDescs(g), Wins(g), Leaves(g)) =>
             Sole(BoundDescs(g), Wins(g), Leaves(g))'
<1>10. ASSUME SendDb(g, m), desc'[d].phase \notin Bound PROVE Kept
  <2>1. BoundDescs(g)' = BoundDescs(g)
    BY <1>3, <1>7, <1>10 DEF BoundDescs, Bound
  <2>2. Leaves(g)' = Leaves(g) \cup {Len(toDb[g]) + 1} /\ Held(g)'
    BY <1>8, <1>10 DEF Held, Some
  <2>3. SetupInv(g)'
    BY <1>1, <1>2, <1>4, <1>10, <2>2, SendSetup
  <2>4. ASSUME Sole(BoundDescs(g), Wins(g), Leaves(g))
        PROVE  Sole(BoundDescs(g), Wins(g), Leaves(g))'
    <3>1. BoundDescs(g)' = {} /\ Wins(g)' = {} /\ Leaves(g)' = {Len(toDb[g]) + 1}
      BY <1>3, <2>1, <2>2, <2>4 DEF Sole
    <3> QED  BY <3>1, FewOne, FewNone DEF Sole
  <2> QED  BY <2>2, <2>3, <2>4
<1>11. ASSUME toDb' = toDb, desc'[d].phase = "select" PROVE Kept
  <2>1. BoundDescs(g)' = BoundDescs(g) \cup {d}
    BY <1>3, <1>7, <1>11 DEF BoundDescs, Bound
  <2>2. Held(g)'
    BY <2>1 DEF Held, Some
  <2>3. Leaves(g)' = Leaves(g) /\ In(toDb[g], Setups)' = In(toDb[g], Setups)
    BY <1>11 DEF Leaves
  <2>4. SetupInv(g)'
    BY <1>1, <1>2, <1>11, <2>2, <2>3, SetupStays
  <2>5. ASSUME Sole(BoundDescs(g), Wins(g), Leaves(g))
        PROVE  Sole(BoundDescs(g), Wins(g), Leaves(g))'
    <3>1. BoundDescs(g)' = {d} /\ Wins(g)' = {} /\ Leaves(g)' = {}
      BY <1>3, <2>1, <2>3, <2>5 DEF Sole
    <3> QED  BY <3>1, FewOne, FewNone DEF Sole
  <2> QED  BY <2>2, <2>4, <2>5
<1>12. Kept /\ Held(g)
  <2>1. Held(g)
    BY <1>3 DEF Held, Some
  <2> QED  BY <1>7, <1>10, <1>11, <2>1 DEF Bound
<1>13. ASSUME NEW e \in Descs PROVE AskInv(g, e)' /\ LoadInv(g, e)'
  <2>1. CASE e = d
    <3>1. Asks(g, d)' = {} /\ Pends(g, d)' = {} /\ Hears(g, d)' = {}
      BY <1>3, <1>8, <1>9
    <3>2. Some(Loads(g, d), Fetches(g, d), Shows(g, d))' => desc'[d].phase = "closed"
      <4>1. Some(Loads(g, d), Fetches(g, d), Shows(g, d))' =>
               Some(Loads(g, d), Fetches(g, d), Shows(g, d))
        BY <1>3, <1>8, <1>9 DEF Less, Some
      <4>2. Some(Loads(g, d), Fetches(g, d), Shows(g, d)) => desc[d].phase = "closed"
        BY <1>2, <1>3 DEF LoadInv, Bound
      <4> QED  BY <1>7, <4>1, <4>2
    <3> QED  BY <1>7, <2>1, <3>1, <3>2, FewNone DEF AskInv, LoadInv, Sole, Some
  <2>2. CASE e # d
    BY <1>2, <1>3, <1>7, <1>8, <1>9, <2>2 DEF AskInv, LoadInv, Sole, Some, Less
  <2> QED  BY <2>1, <2>2
<1>14. KeyInv'
  BY <1>2, <1>3, <1>7 DEF KeyInv
<1>15. TypeOK'
  BY <1>1, <1>2, <1>3, <1>7, <1>8 DEF TypeOK, net, DescType, ToGameMsg
<1>16. \A h \in Games, e \in Descs : h # g =>
              /\ desc[e].game = h /\ desc[e].phase # "free" => desc'[e] = desc[e]
              /\ desc'[e].game = h => desc'[e] = desc[e]
  BY <1>3, <1>7
<1> QED  BY <1>1, <1>3, <1>8, <1>12, <1>13, <1>14, <1>15, <1>16, GameStep

(* LoginFailure, LoginAlready, PlayerLoad, PlayerLoadFailed.               *)
LEMMA AnswerStep ==
    ASSUME IInv, NEW g \in Games, NEW op, NEW phase \in Phase, AnswerArrives(g, op, phase),
           \/ op \in {"LOGIN_NOT_EXIST", "LOGIN_ALREADY"} /\ phase = "idle"
           \/ op \in LoadAnswers /\ phase \in Bound
    PROVE  IInv'
<1>1. /\ toGame[g] # <<>> /\ Head(toGame[g]).op = op /\ op # "LOGIN_SUCCESS"
      /\ toGame' = [toGame EXCEPT ![g] = Tail(@)]
      /\ UNCHANGED <<db, busy, player_index, results, logoutTimer, net, toDb, nAuth, losses>>
  BY DEF AnswerArrives, Answered, LoadAnswers
<1>2. /\ TypeOK /\ QueuesOK /\ NetInv /\ KeyInv /\ SetupInv(g)
      /\ \A e \in Descs : AskInv(g, e) /\ LoadInv(g, e)
  BY Parts
<1>3. PICK d \in Descs :
      /\ d = Head(toGame[g]).desc /\ desc[d].game = g /\ handle[g] # 0
      /\ toGame' \in [Games -> Seq(ToGameMsg)]
      /\ \A h \in Games : h # g => toGame'[h] = toGame[h]
      /\ \A e : Less(Hears(g, e), Hears(g, e)') /\ Less(Shows(g, e), Shows(g, e)')
      /\ op \in LoginAnswers =>
            /\ Hears(g, d)' = {} /\ Asks(g, d) = {} /\ Pends(g, d) = {}
            /\ desc[d].phase \in {"asked", "closed"}
      /\ op \in LoadAnswers => desc[d].phase \in Bound \cup {"closed"}
      /\ Same(Wins(g), Wins(g)')
  <2>1. PICK d \in Descs : HeardBy(g, d)
    BY <1>1, HeadOfGame
  <2> QED  BY <1>1, <2>1 DEF HeardBy
<1>4. desc \in DescType
  BY <1>2 DEF TypeOK, DescType
<1>5. /\ desc' \in DescType /\ desc'[d].game = g /\ desc'[d].key = desc[d].key
      /\ \A e \in Descs : e # d => desc'[e] = desc[e]
      /\ desc'[d].phase = IF desc[d].phase = "closed" THEN "closed" ELSE phase
  BY <1>3, <1>4, SetPhaseFacts DEF AnswerArrives
<1>6. \/ /\ Hears(g, d)' = {} /\ Asks(g, d) = {} /\ Pends(g, d) = {}
         /\ \/ desc[d].phase = "closed" /\ desc'[d].phase = "closed"
            \/ desc[d].phase = "asked" /\ desc'[d].phase = "idle"
      \/ \/ desc[d].phase = "closed" /\ desc'[d].phase = "closed"
         \/ desc[d].phase \in Bound /\ desc'[d].phase \in Bound
  BY <1>3, <1>5 DEF LoginAnswers, Bound
<1>7. BoundDescs(g)' = BoundDescs(g)
  BY <1>3, <1>5, <1>6 DEF BoundDescs, Bound
<1>8. /\ Leaves(g)' = Leaves(g) /\ In(toDb[g], Setups)' = In(toDb[g], Setups)
      /\ \A e : /\ Asks(g, e)' = Asks(g, e) /\ Loads(g, e)' = Loads(g, e)
                /\ Pends(g, e)' = Pends(g, e) /\ Fetches(g, e)' = Fetches(g, e)
  BY <1>1 DEF net, Asks, Loads, Pends, Fetches, Leaves
<1>9. /\ Held(g)' <=> Held(g)
      /\ Sole(BoundDescs(g), Wins(g), Leaves(g)) =>
             Sole(BoundDescs(g), Wins(g), Leaves(g))'
  BY <1>3, <1>7, <1>8, SameSelf, HeldStays
<1>10. SetupInv(g)'
  BY <1>1, <1>2, <1>8, <1>9, SetupStays
<1>11. ASSUME NEW e \in Descs PROVE AskInv(g, e)' /\ LoadInv(g, e)'
  <2>1. CASE e # d
    BY <1>2, <1>3, <1>5, <1>8, <2>1 DEF AskInv, LoadInv, Sole, Some, Less
  <2>2. CASE e = d
    <3>1. Some(Loads(g, d), Fetches(g, d), Shows(g, d))' =>
               Some(Loads(g, d), Fetches(g, d), Shows(g, d))
      BY <1>3, <1>8 DEF Less, Some
    <3>2. LoadInv(g, d)'
      <4> SUFFICES ASSUME Some(Loads(g, d), Fetches(g, d), Shows(g, d))
                   PROVE  desc'[d].game = g /\ desc'[d].phase \in Bound \cup {"closed"}
        BY <3>1 DEF LoadInv
      <4> QED  BY <1>2, <1>5, <1>6 DEF LoadInv, Bound
    <3>3. AskInv(g, d)'
      <4>1. CASE Hears(g, d)' = {} /\ Asks(g, d) = {} /\ Pends(g, d) = {}
        BY <1>8, <4>1, FewNone DEF AskInv, Sole, Some
      <4>2. CASE \/ desc[d].phase = "closed" /\ desc'[d].phase = "closed"
                 \/ desc[d].phase \in Bound /\ desc'[d].phase \in Bound
        <5>1. /\ AskInv(g, d) /\ Less(Asks(g, d), Asks(g, d)')
              /\ Less(Pends(g, d), Pends(g, d)') /\ Less(Hears(g, d), Hears(g, d)')
          BY <1>2, <1>3, <1>8, SameSelf
        <5>2. Some(Asks(g, d), Pends(g, d), Hears(g, d)) =>
                 /\ desc'[d].game = desc[d].game
                 /\ desc'[d].phase \in {desc[d].phase, "closed"}
          BY <1>3, <1>5, <4>2, <5>1 DEF AskInv, Bound
        <5> QED  BY <5>1, <5>2, AskStays
      <4> QED  BY <1>6, <4>1, <4>2
    <3> QED  BY <2>2, <3>2, <3>3
  <2> QED  BY <2>1, <2>2
<1>12. KeyInv'
  BY <1>2, <1>3, <1>5, <1>6 DEF KeyInv, Bound
<1>13. TypeOK'
  BY <1>1, <1>2, <1>3, <1>5 DEF TypeOK, net, DescType, ToGameMsg
<1>14. \A h \in Games, e \in Descs : h # g =>
              /\ desc[e].game = h /\ desc[e].phase # "free" => desc'[e] = desc[e]
              /\ desc'[e].game = h => desc'[e] = desc[e]
  BY <1>3, <1>5
<1> QED  BY <1>1, <1>3, <1>9, <1>10, <1>11, <1>12, <1>13, <1>14, GameStep

-----------------------------------------------------------------------------
(* The theorems.                                                           *)

LEMMA InitStep == Init => IInv
<1> SUFFICES ASSUME Init PROVE IInv
  OBVIOUS
<1>1. /\ db = NoLogins /\ busy = 0 /\ player_index = HasIndex /\ results = <<>>
      /\ logoutTimer = FALSE /\ handle = [g \in Games |-> g] /\ nHandle = NGames
      /\ toDb = [g \in Games |-> <<>>] /\ toGame = [g \in Games |-> <<>>]
      /\ desc = [d \in Descs |-> [game |-> 0, key |-> 0, phase |-> "free"]]
      /\ nAuth = 0 /\ losses = 0
  BY DEF Init
<1>2. NoLogins \in LoginTables /\ Sound(NoLogins) /\ Latest(NoLogins, 0)
  BY DEF NoLogins, LoginTables, Sound, Pointers, Latest, NULL
<1>3. TypeOK
  <2>1. handle \in [Games -> Nat] /\ nHandle \in Nat
    BY <1>1, LoginAssumption DEF Games
  <2>2. /\ toDb \in [Games -> Seq(ToDbMsg)] /\ toGame \in [Games -> Seq(ToGameMsg)]
        /\ results \in Seq(Pending)
    BY <1>1
  <2>3. desc \in [Descs -> [game : {0} \cup Games, key : 0..MaxAuth, phase : Phase]]
    BY <1>1, LoginAssumption DEF Phase
  <2>4. nAuth \in 0..MaxAuth /\ losses \in 0..MaxLoss /\ player_index \in BOOLEAN
    BY <1>1, LoginAssumption
  <2> QED  BY <1>1, <1>2, <2>1, <2>2, <2>3, <2>4 DEF TypeOK, ToGameMsg, Pending
<1>4. NetInv
  <2>1. \A g \in Games : g \in Nat \ {0} /\ g <= NGames
    BY LoginAssumption DEF Games
  <2> QED  BY <1>1, <2>1, InEmpty DEF NetInv
<1>5. KeyInv
  BY <1>1 DEF KeyInv
<1>6. ASSUME NEW g \in Games PROVE GameInv(g)
  <2>1. \A d \in Descs : /\ Asks(g, d) = {} /\ Pends(g, d) = {} /\ Hears(g, d) = {}
                         /\ Loads(g, d) = {} /\ Fetches(g, d) = {} /\ Shows(g, d) = {}
    BY <1>1, InEmpty DEF Asks, Pends, Hears, Loads, Fetches, Shows
  <2>2. /\ In(toDb[g], Setups) = {} /\ Wins(g) = {} /\ Leaves(g) = {}
    BY <1>1, InEmpty DEF Wins, Leaves
  <2>3. BoundDescs(g) = {}
    BY <1>1 DEF BoundDescs, Bound
  <2>4. \A d \in Descs : AskInv(g, d) /\ LoadInv(g, d)
    BY <2>1, FewNone DEF AskInv, LoadInv, Sole, Some
  <2>5. SetupInv(g)
    BY <2>2 DEF SetupInv
  <2>6. TokenInv(g)
    BY <1>1, <2>2, <2>3, FewNone DEF TokenInv, Sole, Held, Some, LogonOfPeer, NoLogins
  <2> QED  BY <2>4, <2>5, <2>6 DEF GameInv
<1>7. BackInv /\ LatestInv
  BY <1>1, <1>2 DEF BackInv, LatestInv, NoLogins
<1> QED  BY <1>1, <1>2, <1>3, <1>4, <1>5, <1>6, <1>7 DEF IInv

LEMMA NextStep == IInv /\ [Next]_vars => IInv'
<1> SUFFICES ASSUME IInv, [Next]_vars PROVE IInv'
  OBVIOUS
<1>1. CASE AuthLogin
  BY <1>1, AuthStep
<1>2. ASSUME NEW g \in Games, ProcessPackets(g) PROVE IInv'
  BY <1>2, AskStep, LogoutStep, LoadStep, SetupStep DEF ProcessPackets
<1>3. ASSUME NEW g \in Games, InputDB(g) PROVE IInv'
  <2>1. CASE LoginSuccess(g)
    BY <2>1, SuccessStep
  <2>2. CASE LoginFailure(g) \/ LoginAlready(g)
    <3>1. "idle" \in Phase
      BY DEF Phase
    <3> QED  BY <2>2, <3>1, AnswerStep DEF LoginFailure, LoginAlready
  <2>3. CASE PlayerLoad(g) \/ PlayerLoadFailed(g)
    <3>1. /\ {"play", "select"} \subseteq Phase /\ {"play", "select"} \subseteq Bound
          /\ {"PLAYER_LOAD_SUCCESS", "PLAYER_LOAD_FAILED"} \subseteq LoadAnswers
      BY DEF Phase, Bound, LoadAnswers
    <3> QED  BY <2>3, <3>1, AnswerStep DEF PlayerLoad, PlayerLoadFailed
  <2> QED  BY <1>3, <2>1, <2>2, <2>3 DEF InputDB
<1>4. ASSUME NEW g \in Games, RemovePeer(g) \/ Reconnect(g) PROVE IInv'
  BY <1>4, RemoveStep, ReconnectStep
<1>5. CASE AnalyzeQueryResult
  BY <1>5, NobodyStep, ByKeyStep, CreateStep, LogonStep, FetchStep DEF AnalyzeQueryResult
<1>6. CASE LogoutTimerExpires
  BY <1>6, TimerStep
<1>7. CASE DbRestart
  BY <1>7, RestartStep
<1>8. CASE ClientStep
  BY <1>8, ByKeyAsked, AgainAsked, SelectStep, DestroyStep DEF ClientStep
<1>9. CASE UNCHANGED vars
  <2>1. /\ UNCHANGED <<net, losses, toDb, toGame, desc>>
        /\ db' = db /\ results' = results /\ nAuth' = nAuth /\ losses' = losses
    BY <1>9 DEF vars, net
  <2>2. TypeOK'
    BY <1>9, Parts DEF vars, TypeOK
  <2>3. Sound(db') /\ SameLogon(db, db') /\ LatestInv'
    BY <2>1, Parts, SameLogonSelf DEF LatestInv
  <2>4. \A S : Less(In(results, S), In(results', S))
    BY <2>1, SameSelf
  <2> QED  BY <2>1, <2>2, <2>3, <2>4, StillStep
<1> QED  BY <1>1, <1>2, <1>3, <1>4, <1>5, <1>6, <1>7, <1>8, <1>9 DEF Next

LEMMA Invariant == Spec => []IInv
  BY InitStep, NextStep, PTL DEF Spec

(* Every variable has its type.                                            *)
THEOREM TypeCorrect == Spec => []TypeOK
<1>1. IInv => TypeOK
  BY DEF IInv
<1> QED  BY <1>1, Invariant, PTL

(* No map of the db process holds a pointer to a CLoginData that was       *)
(* deleted: InsertLoginData, DeleteLoginData, DeleteLogonAccount and       *)
(* RemovePeer agree on who deletes the object.                             *)
THEOREM NoDanglingLogin == Spec => []NoDangling
<1>1. IInv => NoDangling
  BY DEF IInv, Sound, Pointers, NoDangling, Valid
<1> QED  BY <1>1, Invariant, PTL

(* While no connection is lost, QUERY_AUTH_LOGIN leaves one key valid.     *)
THEOREM LatestKey == Spec => []OnlyLatestKeyValid
<1>1. IInv => OnlyLatestKeyValid
  BY DEF IInv, LatestInv, Latest, OnlyLatestKeyValid
<1> QED  BY <1>1, Invariant, PTL

(* The tokens of a game, by what they are.                                 *)
LEMMA TokensAre ==
    ASSUME QueuesOK, NEW g \in Games
    PROVE  /\ Tokens(g) = ({"bound"} \X BoundDescs(g)) \cup ({"success"} \X Wins(g))
                             \cup ({"logout"} \X Leaves(g))
           /\ Tokens(g) # {} <=> Held(g)
           /\ Sole(BoundDescs(g), Wins(g), Leaves(g)) /\ Held(g) => \E t : Tokens(g) = {t}
<1>1. {i \in DOMAIN toGame[g] : toGame[g][i].op = "LOGIN_SUCCESS"} = Wins(g)
  <2>1. \A i \in DOMAIN toGame[g] : toGame[g][i] \in ToGameMsg
    <3>1. toGame[g] \in Seq(ToGameMsg)
      BY DEF QueuesOK
    <3> QED  BY <3>1, LenProperties
  <2>2. \A i \in DOMAIN toGame[g] :
           toGame[g][i].op = "LOGIN_SUCCESS" <=> toGame[g][i] \in Successes
    BY <2>1, ToGameKinds
  <2> QED  BY <2>2 DEF Wins, In
<1>2. {i \in DOMAIN toDb[g] : toDb[g][i].op = "LOGOUT"} = Leaves(g)
  <2>1. \A i \in DOMAIN toDb[g] : toDb[g][i] \in ToDbMsg
    <3>1. toDb[g] \in Seq(ToDbMsg)
      BY DEF QueuesOK
    <3> QED  BY <3>1, LenProperties
  <2>2. \A i \in DOMAIN toDb[g] : toDb[g][i].op = "LOGOUT" <=> toDb[g][i] \in Logouts
    <3>1. \A m \in ToDbMsg : m.op = "LOGOUT" => m \in Logouts
      BY ToDbKinds
    <3>2. \A m \in Logouts : m.op = "LOGOUT"
      BY DEF Logouts
    <3> QED  BY <2>1, <3>1, <3>2
  <2> QED  BY <2>2 DEF Leaves, In
<1> DEFINE A == BoundDescs(g)
           B == Wins(g)
           C == Leaves(g)
<1>3. Tokens(g) = ({"bound"} \X A) \cup ({"success"} \X B) \cup ({"logout"} \X C)
  BY <1>1, <1>2 DEF Tokens
<1>4. Held(g) <=> Some(A, B, C)
  BY DEF Held
<1>5. Sole(BoundDescs(g), Wins(g), Leaves(g)) <=> Sole(A, B, C)
  OBVIOUS
<1> HIDE DEF A, B, C
<1>6. Tokens(g) # {} <=> Some(A, B, C)
  <2>1. \A x \in A : <<"bound", x>> \in Tokens(g)
    BY <1>3
  <2>2. \A x \in B : <<"success", x>> \in Tokens(g)
    BY <1>3
  <2>3. \A x \in C : <<"logout", x>> \in Tokens(g)
    BY <1>3
  <2>4. \A t \in Tokens(g) : A # {} \/ B # {} \/ C # {}
    BY <1>3
  <2> QED  BY <2>1, <2>2, <2>3, <2>4 DEF Some
<1>8. ASSUME NEW S, Few(S), S # {} PROVE \E x : S = {x}
  <2>1. PICK x \in S : TRUE
    BY <1>8
  <2>2. \A y \in S : y = x
    BY <1>8, <2>1 DEF Few
  <2>3. S = {x}
    BY <2>1, <2>2
  <2> QED  BY <2>3
<1>7. ASSUME Sole(A, B, C), Some(A, B, C) PROVE \E t : Tokens(g) = {t}
  <2>1. CASE A # {}
    <3>1. PICK x : A = {x}
      BY <1>8, <1>7, <2>1 DEF Sole
    <3>2. B = {} /\ C = {}
      BY <1>7, <2>1 DEF Sole
    <3>3. Tokens(g) = {<<"bound", x>>}
      BY <1>3, <3>1, <3>2
    <3> QED  BY <3>3
  <2>2. CASE B # {}
    <3>1. PICK x : B = {x}
      BY <1>8, <1>7, <2>2 DEF Sole
    <3>2. A = {} /\ C = {}
      BY <1>7, <2>2 DEF Sole
    <3>3. Tokens(g) = {<<"success", x>>}
      BY <1>3, <3>1, <3>2
    <3> QED  BY <3>3
  <2>3. CASE C # {}
    <3>1. PICK x : C = {x}
      BY <1>8, <1>7, <2>3 DEF Sole
    <3>2. A = {} /\ B = {}
      BY <1>7, <2>3 DEF Sole
    <3>3. Tokens(g) = {<<"logout", x>>}
      BY <1>3, <3>1, <3>2
    <3> QED  BY <3>3
  <2> QED  BY <1>7, <2>1, <2>2, <2>3 DEF Some
<1> QED  BY <1>3, <1>4, <1>5, <1>6, <1>7 DEF A, B, C

(* Also across lost connections and restarts, an account that is logged on *)
(* will be logged out by somebody: RESULT_LOGIN, QUERY_SETUP and           *)
(* RemovePeer never leave an entry that nobody has a token for.            *)
THEOREM LogonIsBacked == Spec => []LogonBacked
<1>1. ASSUME IInv PROVE LogonBacked
  <2>1. QueuesOK /\ BackInv
    BY <1>1, Parts
  <2> QED  BY <2>1, TokensAre DEF BackInv, LogonBacked
<1> QED  BY <1>1, Invariant, PTL

(* While no connection is lost, an account that is logged on has one       *)
(* token, at the game that logged it on, and one that is not has none: at  *)
(* most one client is in the game with it, whatever the order in which     *)
(* logins, answers, logouts and disconnections meet.                       *)
THEOREM OneSession == Spec => []SessionToken
<1>1. ASSUME IInv PROVE SessionToken
  <2> SUFFICES ASSUME losses = 0, NEW g \in Games
               PROVE  Cardinality(Tokens(g)) = IF LogonOfPeer(db, handle[g]) THEN 1 ELSE 0
    BY DEF SessionToken
  <2>1. /\ QueuesOK /\ Sole(BoundDescs(g), Wins(g), Leaves(g))
        /\ Held(g) <=> LogonOfPeer(db, handle[g])
    BY <1>1, Parts DEF TokenInv
  <2>2. CASE LogonOfPeer(db, handle[g])
    <3>1. PICK t : Tokens(g) = {t}
      BY <2>1, <2>2, TokensAre
    <3> QED  BY <2>2, <3>1, FS_Singleton
  <2>3. CASE ~LogonOfPeer(db, handle[g])
    <3>1. Tokens(g) = {}
      BY <2>1, <2>3, TokensAre
    <3> QED  BY <2>3, <3>1, FS_EmptySet
  <2> QED  BY <2>2, <2>3
<1> QED  BY <1>1, Invariant, PTL
=============================================================================

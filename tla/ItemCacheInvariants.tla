---------------------- MODULE ItemCacheInvariants -----------------------
(***************************************************************************)
(* The inductive invariants that ItemCacheProofs proves of ItemCache, and  *)
(* the predicates on queues of messages they are built from: SavesInv for  *)
(* SavesPersist, CopyInv for OneCopy, LoadsCurrent and SavedWhenGone.      *)
(***************************************************************************)
EXTENDS ItemCache

Saved == Data \cup {NoItem}

(* One message of q is in A; each in A has one of B behind it; none in A   *)
(* has one of B behind it; there is at most one in A.                      *)
Has(q, A)          == \E i \in DOMAIN q : q[i] \in A
Followed(q, A, B)  == \A i \in DOMAIN q : q[i] \in A =>
                          \E j \in DOMAIN q : i < j /\ q[j] \in B
NoneAfter(q, A, B) == \A i, j \in DOMAIN q : q[i] \in A /\ i < j => q[j] \notin B
Once(q, A)         == \A i, j \in DOMAIN q : q[i] \in A /\ q[j] \in A => i = j

(* What the last message of q before position k of kinds ops says is v, or *)
(* r if there is none.                                                     *)
Says(q, ops, r, k, v) ==
    \/ v = r /\ \A i \in DOMAIN q : i < k => q[i].op \notin ops
    \/ \E i \in DOMAIN q :
          /\ i < k /\ q[i].op \in ops /\ v = q[i].x
          /\ \A j \in DOMAIN q : i < j /\ j < k => q[j].op \notin ops

Loads(p)   == {m \in Request : m.op = "PLAYER_LOAD" /\ m.p = p}
Plays(p)   == {m \in Request : m.op = "PLAYER_SAVE" /\ m.p = p}
Puts(p)    == {m \in Request : m.op = "ITEM_SAVE" /\ m.x.owner = p}
Logouts(p) == {m \in Request : m.op = "LOGOUT" /\ m.p = p}
Uses(p)    == Loads(p) \cup Plays(p) \cup Puts(p)

(* What the connection to the db holds of player p, who is in state s: of  *)
(* an ended session nothing that no LOGOUT follows, after a LOGOUT nothing *)
(* of the next session, one load, and no save that a load waits for.       *)
Line(q, p, s) ==
    /\ s = "off" => Followed(q, Uses(p), Logouts(p))
    /\ s # "off" => ~Has(q, Logouts(p))
    /\ NoneAfter(q, Logouts(p), Uses(p))
    /\ ~(Has(q, Loads(p)) /\ Has(q, Plays(p) \cup Puts(p)))
    /\ Once(q, Loads(p))

(* An ended session's saves of the item are all followed or directly       *)
(* preceded by a save of the player, which the db may just have read: c    *)
(* are the players it has cached.                                          *)
Backed(q, p, c) ==
    \A k \in DOMAIN q : q[k] \in Puts(p) =>
        \/ \E j \in DOMAIN q : k < j /\ q[j] \in Plays(p)
        \/ k > 1 /\ q[k - 1] \in Plays(p)
        \/ k = 1 /\ p \in c

(* A message of the queue is a SELECT of the player's items, or its answer. *)
Pending(q, p) == \E k \in DOMAIN q : q[k].op = "ITEM" /\ q[k].p = p /\ q[k].s # 0

(* A queue of statements ends with z in the table; a SELECT in it finds of *)
(* z what belongs to the player; its writes say what they do; an answer    *)
(* holds what belongs to the player.                                       *)
Ends(q, r, z) ==
    \A v \in Saved : Says(q, WriteOp, r, Len(q) + 1, v) => v = z
Views(q, r, z) ==
    \A k \in DOMAIN q : q[k].op = "ITEM" /\ q[k].s # 0 =>
        \A v \in Saved : Says(q, WriteOp, r, k, v) =>
            Matches(v, q[k].p, "inv") = Matches(z, q[k].p, "inv")
WellWritten(q) ==
    \A k \in DOMAIN q : q[k].op \in WriteOp => (q[k].op = "DELETE" <=> q[k].x = NoItem)
Answered(q, z) ==
    \A k \in DOMAIN q : q[k].op = "ITEM" /\ q[k].s # 0 =>
        q[k].x = Matches(z, q[k].p, "inv")

(* The cache object c, the statements q on the main connection and a on    *)
(* the other, the row r and the answers as agree with the last save z:     *)
(* unwritten data is the last save, and nobody selects its owner's items;  *)
(* else the connection that still has something ends with it.              *)
Store(c, q, a, r, z, as) ==
    /\ c.dirty => Cached(c) = z /\ ~Pending(q, c.owner) /\ ~Pending(as, c.owner)
    /\ ~c.dirty /\ a = 0 => Ends(q, r, z)
    /\ ~c.dirty /\ a > 0 /\ (\A k \in DOMAIN q : q[k].op # "REPLACE") => z = NoItem
    /\ c.dead => z = NoItem
    /\ a = 0 => Views(q, r, z)
    /\ WellWritten(q) /\ Answered(as, z)

(* No SELECT under way can tell y from z.                                  *)
Unseen(q, as, y, z) ==
    y = z \/ \A p \in Carrier(y) \cup Carrier(z) : ~Pending(q, p) /\ ~Pending(as, p)

(* Session numbers come from a counter.                                    *)
Bounded(q, n) == \A i \in DOMAIN q : q[i].s <= n
Numbered == /\ Bounded(toDb, NPlayers + nSess) /\ Bounded(toGame, NPlayers + nSess)
            /\ Bounded(main, NPlayers + nSess) /\ Bounded(results, NPlayers + nSess)
            /\ \A p \in Pids : sess[p] <= NPlayers + nSess

(* Who has the item or looks at a safebox is in the game.                  *)
Carried == /\ item.at \in {"inv", "box"} => InGame(item.by)
           /\ \A p \in Pids : box[p] # "closed" => InGame(p)

(* The db has begun to answer the load of p's session.                     *)
BegunOp == {"PLAYER", "ITEM", "PLAYER_LOAD_SUCCESS", "ITEM_LOAD"}
Started(q, p, n) == \E i \in DOMAIN q : q[i].op \in BegunOp /\ q[i].p = p /\ q[i].s = n
Begun(p) == \/ Started(main, p, sess[p]) \/ Started(results, p, sess[p])
            \/ Started(toGame, p, sess[p])

(* While the load of a session is not read, the session only waits.  The   *)
(* logout timer runs only for a player who is gone or whose next load the  *)
(* db has not read.  Unwritten data of a player without a cached player    *)
(* row is the player's who is in the game, or was and is being saved: no   *)
(* load of it is on its way.                                               *)
Asking(q, p)  == Has(q, Loads(p)) /\ st[p] # "off" => st[p] = "asked" /\ ~Begun(p)
Timed(q, p)   == p \in timer => /\ st[p] # "off" => Has(q, Loads(p))
                                /\ ~Has(q, Plays(p) \cup Puts(p))
Waiting(q, p) == cache.dirty /\ cache.owner = p /\ p \notin pcache =>
                     (InGame(p) \/ Has(q, Plays(p))) /\ ~Has(q, Loads(p))
Session(q, p) == /\ Line(q, p, st[p]) /\ Asking(q, p) /\ Timed(q, p) /\ Waiting(q, p)
                 /\ up /\ ~InGame(p) => Backed(q, p, pcache)
Sessions == \A p \in Pids : Session(toDb, p)

Kept == Store(cache, main, async, row, saved, results)

(* Excused, the last save may be lost.                                     *)
SavesInv == excuses = {} => Numbered /\ Carried /\ Sessions /\ Kept

ItemOps == {"ITEM_SAVE", "ITEM_DESTROY"}

Of(v, q, w) == v.owner = q /\ v.win = w

(* A save of the item into q's safebox.                                    *)
BoxPut(m, q) == m.op = "ITEM_SAVE" /\ Of(m.x, q, "box")

NoItemOp(d, k) == \A j \in DOMAIN d : j >= k => d[j].op \notin ItemOps

(* Whoever reads, at position k of the connection d to a db that knows z,  *)
(* that q has the item in w, reads it when the game has no item (free) and *)
(* says no more of it; and no save is behind k that would make it so, for  *)
(* a safebox.                                                              *)
Claim(d, z, free, q, w, k) ==
    /\ \A v \in Saved : Says(d, ItemOps, z, k, v) /\ Of(v, q, w) => free /\ NoItemOp(d, k)
    /\ w = "box" => \A j \in DOMAIN d : j >= k => ~BoxPut(d[j], q)

(* The db reads a message: behind it, nothing changes.                     *)
After(m, z) == IF m.op \in ItemOps THEN m.x ELSE z

Message4 == Request \cup Statement \cup SqlAnswer \cup Reply

(* No message of A; at most one.                                           *)
None4(Q, A) == \A s \in 1..4 : \A i \in DOMAIN Q[s] : Q[s][i] \notin A
One4(Q, A) ==
    \A s, t \in 1..4 : \A i \in DOMAIN Q[s], j \in DOMAIN Q[t] :
        Q[s][i] \in A /\ Q[t][j] \in A => s = t /\ i = j

(* R is Q with d for its queue s.                                          *)
With(R, Q, s, d) == R[s] = d /\ \A t \in 1..4 : t # s => R[t] = Q[t]

(* One load of player q's items of w on its way through the four queues Q, *)
(* its messages being A, when the db knows z: there is one, whatever it    *)
(* will bring nobody has, and what it brings the last save says.           *)
Claims(Q, z, free, b, A, q, w) ==
    /\ One4(Q, A)
    /\ \A k \in DOMAIN Q[1] : Q[1][k] \in A => Claim(Q[1], z, free, q, w, k)
    /\ Has(Q[2], A) \/ Has(Q[3], A) => Claim(Q[1], z, free, q, w, 1)
    /\ \A k \in DOMAIN Q[4] : Q[4][k] \in A /\ Q[4][k].x # NoItem =>
           free /\ z = Q[4][k].x /\ Of(z, q, w) /\ NoItemOp(Q[1], 1)
    /\ w = "box" /\ ~None4(Q, A) => b = "asked"

(* What the game sends, and what it must not send.                         *)
Sendable(Q, R, m, z, free, b, A, q, w) ==
    /\ Q \in [1..4 -> Seq(Message4)] /\ Q[1] \in Seq(Request)
    /\ free \in BOOLEAN /\ Claims(Q, z, free, b, A, q, w)
    /\ m \in Request /\ m \notin A /\ (m.op \in ItemOps => ~free)
    /\ w = "box" /\ b = "asked" => ~BoxPut(m, q)
    /\ R \in [1..4 -> Seq(Message4)] /\ With(R, Q, 1, Append(Q[1], m))

(* The db reads the first message of the game.                             *)
Readable(Q, R, z, free, b, A, q, w) ==
    /\ Q \in [1..4 -> Seq(Message4)] /\ Q[1] \in Seq(Request) /\ Q[1] # <<>>
    /\ z \in Saved /\ free \in BOOLEAN /\ w \in {"inv", "box"}
    /\ Claims(Q, z, free, b, A, q, w) /\ After(Head(Q[1]), z) \in Saved
    /\ w = "inv" /\ Head(Q[1]).op \in ItemOps /\ (Has(Q[2], A) \/ Has(Q[3], A))
          => ~Of(Head(Q[1]).x, q, "inv")
    /\ Head(Q[1]).op = "ITEM_DESTROY" => Head(Q[1]).x = NoItem
    /\ R \in [1..4 -> Seq(Message4)] /\ With(R, Q, 1, Tail(Q[1]))

Four(a, b, c, e) == [s \in 1..4 |-> IF s = 1 THEN a ELSE IF s = 2 THEN b
                                     ELSE IF s = 3 THEN c ELSE e]

(* The messages of the load of player q's items of w: asked for, selected, *)
(* answered; they are nobody's when the session is over.                   *)
Wins == {"inv", "box"}
TokenOp(w) == IF w = "inv" THEN {"PLAYER_LOAD", "ITEM", "ITEM_LOAD"}
              ELSE {"SAFEBOX_LOAD", "SAFEBOX", "SAFEBOX_ITEM", "WRONG_PASSWORD"}
Tokens(q, w) == {m \in Message4 : m.p = q /\ m.s = sess[q] /\ st[q] # "off" /\ m.op \in TokenOp(w)}
NoToken(m) == \A q \in Pids, w \in Wins : m \notin Tokens(q, w)

AllClaims(Q, z, free) ==
    \A q \in Pids, w \in Wins : Claims(Q, z, free, box[q], Tokens(q, w), q, w)

(* A queue loses its first message, and what follows from it is added.     *)
Poppable(Q, P, s, z, free) ==
    /\ Q \in [1..4 -> Seq(Message4)] /\ P \in [1..4 -> Seq(Message4)] /\ s \in 2..4
    /\ Q[1] \in Seq(Request) /\ Q[s] # <<>> /\ z \in Saved /\ free \in BOOLEAN
    /\ AllClaims(Q, z, free) /\ With(P, Q, s, Tail(Q[s]))
Passed(Q, P, s, t, z, free) ==
    \A m \in Message4, R \in [1..4 -> Seq(Message4)] :
        /\ With(R, P, t, Append(P[t], m))
        /\ \A q \in Pids, w \in Wins : m \in Tokens(q, w) =>
              /\ Head(Q[s]) \in Tokens(q, w)
              /\ t = 4 /\ m.x # NoItem => m.x = z /\ Of(z, q, w)
        => AllClaims(R, z, free)

(* An item taken out of a safebox is written at once: its flush follows,   *)
(* or is just being sent.                                                  *)
TakesOut(d, z, k) ==
    /\ d[k].op = "ITEM_SAVE" /\ d[k].x.win = "inv"
    /\ \E v \in Saved : Says(d, ItemOps, z, k, v) /\ v.win = "box"
FlushNext(d, z, sending) ==
    \A k \in DOMAIN d : TakesOut(d, z, k) =>
        (k + 1 \in DOMAIN d /\ d[k + 1].op = "ITEM_FLUSH") \/ (sending /\ k = Len(d))
Destroys(d) == \A k \in DOMAIN d : d[k].op = "ITEM_DESTROY" => d[k].x = NoItem

(* The item as a save says it.                                             *)
Told1(i) == IF i.at = "inv" THEN InInv(i.by, i.ver)
            ELSE IF i.at = "box" THEN InBox(i.by, i.ver) ELSE NoItem

(* Who has the item i has it where the db will know it to be, or the db    *)
(* does not know of it yet; when no save waits, the db will know it all.   *)
Holding(i, waits, told) ==
    /\ i.at \in {"inv", "box"} => told = NoItem \/ Of(told, i.by, i.at)
    /\ i.at \in {"inv", "box"} /\ ~waits => told = Told1(i)
    /\ i.at \in {"ground", "unborn"} => told = NoItem
    /\ waits => i.at \in {"inv", "ground"}

Stored  == item.at = "box" => box[item.by] = "open"
Absent  == item.at = "none"
Claimed == AllClaims(Four(toDb, main, results, toGame), saved, Absent)
Held    == Stored /\ Holding(item, delayed, LastOf(toDb, ItemOps, saved))
Packed  == FlushNext(toDb, saved, FALSE) /\ Destroys(toDb)

(* The connection d as the db will read it.                                *)
Flow(d, free, told, sending) ==
    /\ d \in Seq(Request) /\ told = LastOf(d, ItemOps, saved)
    /\ AllClaims(Four(d, main, results, toGame), saved, free)
    /\ FlushNext(d, saved, sending) /\ Destroys(d)

(* The item leaves the game only when the db will know of it.              *)
LeftKnown == item.at \in {"inv", "box"} /\ item'.at = "none"
                 => LastOf(toDb', ItemOps, saved') \in {NoItem, Told1(item)}

(* The message m is of a load only if h is, and holds what the last save z *)
(* says.                                                                   *)
Follows(h, m) == \A q \in Pids, w \in Wins : m \in Tokens(q, w) => h \in Tokens(q, w)
Right(m, z) == \A q \in Pids, w \in Wins : m \in Tokens(q, w) /\ m.x # NoItem =>
                   m.x = z /\ Of(z, q, w)

(* What a set, or the lack of the item in it, says of the last save.       *)
SetsRight == up => \A p \in Pids :
    /\ set[p] = "with" => Cached(cache) = Matches(saved, p, "inv")
    /\ set[p] = "without" => Matches(saved, p, "inv") = NoItem

(* Only writes are added to the main connection.                           *)
Writes == {<<>>} \cup {<<Write(x)>> : x \in Saved}

(* What is not about the item brings none, and a safebox answer under way  *)
(* to its player brings what the last save says.                           *)
Blank == /\ \A k \in DOMAIN results : results[k].op \in {"PLAYER", "SAFEBOX"} => results[k].x = NoItem
         /\ \A k \in DOMAIN toGame : toGame[k].op = "PLAYER_LOAD_SUCCESS" => toGame[k].x = NoItem
Cur(m, q) == m.p = q /\ m.s = sess[q] /\ st[q] # "off"
BoxAnswered == \A k \in DOMAIN results : \A q \in Pids :
    Cur(results[k], q) /\ results[k].op = "SAFEBOX_ITEM" => results[k].x = Matches(saved, q, "box")

(* What the sets say of the last save.                                     *)
RightSets(c, sets, z) == \A p \in Pids :
    /\ sets[p] = "with" => Cached(c) = Matches(z, p, "inv")
    /\ sets[p] = "without" => Matches(z, p, "inv") = NoItem

BlankResult(m) == m.op \in {"PLAYER", "SAFEBOX"} => m.x = NoItem
BlankReply(m)  == m.op = "PLAYER_LOAD_SUCCESS" => m.x = NoItem

BoxSelect(m, p) == Cur(m, p) /\ m.op = "SAFEBOX_ITEM"
BoxView(q, r, z) ==
    \A k \in DOMAIN q : \A p \in Pids : BoxSelect(q[k], p) =>
        \A v \in Saved : Says(q, WriteOp, r, k, v) => Matches(v, p, "box") = Matches(z, p, "box")
BoxAnswer(q, z) ==
    \A k \in DOMAIN q : \A p \in Pids : BoxSelect(q[k], p) => q[k].x = Matches(z, p, "box")

BoxViews == async = 0 => BoxView(main, row, saved)

(* Statements that are no such SELECT are queued.                          *)
Plain(m) == m.op # "SAFEBOX_ITEM"

(* What the db's packets and timers queue.                                 *)
Asks == {m \in Statement : m.op \in {"PLAYER", "ITEM", "SAFEBOX"}}
Grown == \/ main' \in {main \o w : w \in Writes}
         \/ \E m \in Asks : main' = Append(main, m)
         \/ \E m, n \in Asks : main' = Append(Append(main, m), n)

(* The next packet writes it, and nobody asked for that safebox.           *)
Ready(p) == /\ toDb # <<>> /\ Head(toDb).op = "ITEM_FLUSH"
            /\ ~Has(main, Tokens(p, "box")) /\ ~Has(results, Tokens(p, "box"))
BoxLast(v) == Says(main, WriteOp, row, Len(main) + 1, v) /\ v.win = "box"
FlushNow == cache.dirty /\ async = 0 => \A v \in Saved : BoxLast(v) => Ready(v.owner)

(* The inductive invariant of one copy: whoever loads or stores the item   *)
(* has a claim on the connection (Claimed), the holder is whom the db will *)
(* know (Held), an item out of a safebox is flushed at once (Packed), and  *)
(* the sets, the safebox SELECTs and unwritten data agree with the last    *)
(* save.                                                                   *)
CopyInv == excuses = {} =>
    Claimed /\ Held /\ Packed /\ Blank /\ SetsRight /\ BoxViews /\ BoxAnswered /\ FlushNow

===========================================================================

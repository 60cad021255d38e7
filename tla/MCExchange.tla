----------------------------- MODULE MCExchange -----------------------------
(* Two characters with inventories of two columns, items of one and two    *)
(* cells on one side, of two and three on the other; the last row of the   *)
(* second inventory is not all open yet.                                   *)
EXTENDS Exchange

MCSize == <<1, 2, 2, 3>>
At(c, n) == [owner |-> c, cell |-> n, count |-> 1, ex |-> FALSE]
MCStart == <<At(1, 0), At(1, 5), At(2, 1), At(2, 2)>>
MCInvenMax == <<8, 7>>
MCGold == <<1, 0>>
=============================================================================

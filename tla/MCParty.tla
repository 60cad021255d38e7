------------------------------ MODULE MCParty ------------------------------
(* Games and players have no order, and any placement at first is one of   *)
(* two under other names: all at one game, or one apart.                   *)
EXTENDS Party, TLC

PartySymmetry == Permutations(Games) \cup Permutations(Players)
=============================================================================

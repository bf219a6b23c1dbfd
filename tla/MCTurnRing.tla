----------------------------- MODULE MCTurnRing -----------------------------
(* Instances of TurnRing for TLC.                                          *)
EXTENDS TurnRing

FairSpec == Spec /\ Fairness

(* The lowest node's reading is encrypted to a leading zero byte.          *)
ReadingOfLowest == {[src |-> Least(Node), stamp |-> 0]}
=============================================================================

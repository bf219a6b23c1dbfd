------------------------- MODULE MCReliableDatagram -------------------------
(* Instances of ReliableDatagram for TLC: node a's second message bears    *)
(* the identifier with which the tables of seen ones are filled.           *)
EXTENDS ReliableDatagram, TLC

CONSTANTS a, b

MCNode == {a, b}
MCMaxMessages == a :> 2 @@ b :> 1
=============================================================================

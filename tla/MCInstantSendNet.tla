-------------------------- MODULE MCInstantSendNet --------------------------
(* A small instance of InstantSendNet for TLC: txA spends two coins and txB   *)
(* the second of them; both safenodes have to vote, either may restart.       *)
EXTENDS InstantSendNet, TLC

CONSTANTS txA, txB, coin1, coin2, sn1, sn2

MCInputs == txA :> {coin1, coin2} @@ txB :> {coin2}
SameView == [n \in Nodes |-> [o \in Outpoints |-> Safenodes]]

Symmetry == Permutations(Safenodes)
=============================================================================

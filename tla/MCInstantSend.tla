--------------------------- MODULE MCInstantSend ---------------------------
(* Small instances of InstantSend for TLC: txA and txB are rivals, sn1 is    *)
(* the node itself, sn2 may vote on a coin that txA does not spend.          *)
EXTENDS InstantSend, TLC

CONSTANTS txA, txB, sn1, sn2

Both == {InstantSend, BlockFiltering}
AlwaysOn == {Both}
SporksToggle == {Both, {}}

\* txB spends two coins, txA the second of them; sn2 may vote for txA on the first.
SecondCoinInputs == txA :> {2} @@ txB :> {1, 2}
ForeignVote == {[tx |-> txA, outpoint |-> 1, safenode |-> sn2]}
\* txA spends two coins, txB the second of them.
TwoCoinInputs == txA :> {1, 2} @@ txB :> {2}

\* All safenodes tie: SIGNATURES_TOTAL of them leave none out.
FlatScore == [o \in Outpoints |-> [m \in Safenodes |-> 1]]
=============================================================================

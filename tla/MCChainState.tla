--------------------------- MODULE MCChainState ---------------------------
EXTENDS ChainState

\* The coinbase of A1 pays twice.  spendOne spends one of its outputs, and
\* spendBoth the other and all of spendOne: A2 and A3 confirm the two one after
\* the other, B2 together.
CONSTANTS coinbase1, coinbase2, coinbase3, spendOne, spendBoth

MCTxIds == {coinbase1, coinbase2, coinbase3, spendOne, spendBoth}
MCVin == [x \in MCTxIds |-> CASE x = spendOne -> << <<coinbase1, 0>> >>
                              [] x = spendBoth -> << <<spendOne, 0>>, <<coinbase1, 1>> >>
                              [] OTHER -> <<>>]
MCVout == [x \in MCTxIds |-> CASE x = coinbase1 -> {0, 1}
                               [] x \in {spendOne, coinbase2} -> {0}
                               [] OTHER -> {}]
MCBlocks == {"G", "A1", "A2", "A3", "B2"}
MCParent == [b \in MCBlocks |-> CASE b \in {"G", "A1"} -> "G"
                                  [] b \in {"A2", "B2"} -> "A1"
                                  [] b = "A3" -> "A2"]
MCHeight == [b \in MCBlocks |-> CASE b = "G" -> 0 [] b = "A1" -> 1
                                  [] b = "A3" -> 3 [] OTHER -> 2]
MCVtx == [b \in MCBlocks |-> CASE b = "G" -> <<>>
                               [] b = "A1" -> <<coinbase1>>
                               [] b = "A2" -> <<coinbase2, spendOne>>
                               [] b = "A3" -> <<coinbase3, spendBoth>>
                               [] b = "B2" -> <<coinbase2, spendOne, spendBoth>>]
=============================================================================

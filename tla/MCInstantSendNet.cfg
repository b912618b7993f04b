SPECIFICATION Spec
CONSTANTS
    Absent = Absent
    txA = txA
    txB = txB
    coin1 = coin1
    coin2 = coin2
    sn1 = sn1
    sn2 = sn2
    Txs = {txA, txB}
    Outpoints = {coin1, coin2}
    Inputs <- MCInputs
    Safenodes = {sn1, sn2}
    Nodes = {sn1, sn2}
    Top <- SameView
    SIGNATURES_REQUIRED = 2
    MaxForgetful = 1
SYMMETRY Symmetry
INVARIANTS
    Agreement
PROPERTY
    EachKeepsTxLock
CHECK_DEADLOCK FALSE

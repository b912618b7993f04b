SPECIFICATION Spec
CONSTANTS
    coinbase1 = coinbase1
    coinbase2 = coinbase2
    coinbase3 = coinbase3
    spendOne = spendOne
    spendBoth = spendBoth
    TxIds <- MCTxIds
    Vin <- MCVin
    Vout <- MCVout
    Blocks <- MCBlocks
    Genesis = "G"
    Parent <- MCParent
    Height <- MCHeight
    Vtx <- MCVtx
    Disputed = {"A2"}
    None = None
    MaxFailures = 1
INVARIANTS CoinsOfBestBlock UndoIsClean FlagsTrue IndexCoversCoins BestBlockIsTip
PROPERTY ImplementsLayers

----------------------------- MODULE ChainState -----------------------------
(***************************************************************************)
(* The active chain and its set of unspent outputs (src/main.cpp): blocks  *)
(* are connected and disconnected one transaction and one input at a time  *)
(* in a view of their own, which is flushed into pcoinsTip, which is       *)
(* flushed to the chainstate database now and then.  The block index has a *)
(* database too, written before the chainstate.  A write may fail, the     *)
(* node then shuts down; it may crash between any two steps.               *)
(*                                                                         *)
(* cs_main is held from the start of ConnectTip or DisconnectTip to        *)
(* UpdateTip, and through FlushStateToDisk; work and flushing record where *)
(* that critical section stands.  Which block is connected next is left    *)
(* open (FindMostWorkChain, InvalidateBlock and ReprocessBlocks decide).   *)
(***************************************************************************)
EXTENDS CoinsCache, Sequences

CONSTANTS
    TxIds,
    Vin,            \* [TxIds -> Seq(OutPoints)]; a coinbase has no inputs
    Vout,           \* [TxIds -> SUBSET Nat], the spendable outputs
    Blocks,
    Genesis,        \* its transactions are never connected
    Parent,         \* pprev, [Blocks -> Blocks]
    Height,         \* nHeight, [Blocks -> Nat]
    Vtx,            \* [Blocks -> Seq(TxIds)], the coinbase first
    Disputed,       \* the blocks that break a rule that is not modelled, or
                    \* that the operator invalidates
    None,
    MaxFailures     \* bound: writes that fail

OutPoints == UNION {{t} \X Vout[t] : t \in TxIds}
IsCoinBase(t) == Vin[t] = <<>>
Inputs(t) == {Vin[t][k] : k \in DOMAIN Vin[t]}
PrevTxs(t) == {o[1] : o \in Inputs(t)}

ASSUME TransactionAssumption ==
    /\ Vout \in [TxIds -> SUBSET Nat]
    /\ Vin \in [TxIds -> Seq(OutPoints)]
ASSUME BlockAssumption ==
    /\ Genesis \in Blocks
    /\ None \notin Blocks
    /\ Disputed \subseteq Blocks \ {Genesis}
    /\ Parent \in [Blocks -> Blocks]
    /\ Height \in [Blocks -> Nat]
    /\ \A b \in Blocks \ {Genesis} : Height[b] = Height[Parent[b]] + 1
    /\ Vtx \in [Blocks -> Seq(TxIds)]
ASSUME MaxFailuresAssumption == MaxFailures \in Nat
\* CheckBlock and CheckTransaction have passed: the first transaction and
\* no other is a coinbase, and no block or transaction names one twice.
ASSUME CheckedBlocks ==
    /\ \A b \in Blocks : \A i, k \in DOMAIN Vtx[b] :
          /\ IsCoinBase(Vtx[b][i]) <=> i = 1
          /\ Vtx[b][i] = Vtx[b][k] => i = k
    /\ \A t \in TxIds : \A i, k \in DOMAIN Vin[t] : Vin[t][i] = Vin[t][k] => i = k

VARIABLES
    saved, savedBest,   \* the chainstate database and its DB_BEST_BLOCK
    cache, cacheBest,   \* pcoinsTip: cacheCoins and hashBlock
    view,               \* the cache of the block being worked on
    blockundo,          \* its undo data: what each input's CTxInUndo::nHeight is
    work,               \* where ConnectTip or DisconnectTip stands
    tip,                \* chainActive.Tip()
    index,              \* mapBlockIndex: undo data and BLOCK_FAILED_MASK
    indexDisk,          \* the block index database
    setDirtyBlockIndex,
    flushing,           \* FlushStateToDisk has written the index, not the coins
    invalidating,       \* the block InvalidateBlock works on
    mode,               \* "running", "stopping" (fRequestShutdown), "down"
    failures

coinVars == <<saved, savedBest, cache, cacheBest>>
draftVars == <<view, blockundo, work>>
indexVars == <<index, indexDisk, setDirtyBlockIndex>>
nodeVars == <<flushing, mode, failures>>
vars == <<coinVars, draftVars, tip, indexVars, invalidating, nodeVars>>

Coins == [height : Nat, outs : SUBSET Nat]
Entries == [coins : Coins, dirty : BOOLEAN, fresh : BOOLEAN]
BlockUndo == [OutPoints -> Nat]
IndexEntries == [hasUndo : BOOLEAN, undo : BlockUndo, failed : BOOLEAN]
Idle == [op |-> "idle", block |-> Genesis, i |-> 0, j |-> 0, clean |-> TRUE]
Works ==
    [op : {"idle", "connect", "disconnect", "update"}, block : Blocks,
     i : Nat, j : Nat, clean : BOOLEAN]
Empty == [t \in {} |-> Clear]
NoUndo == [o \in OutPoints |-> 0]

TypeOK ==
    /\ DOMAIN saved \subseteq TxIds /\ saved \in [DOMAIN saved -> Coins]
    /\ DOMAIN cache \subseteq TxIds /\ cache \in [DOMAIN cache -> Entries]
    /\ DOMAIN view \subseteq TxIds /\ view \in [DOMAIN view -> Entries]
    /\ {savedBest, cacheBest, tip} \subseteq Blocks
    /\ blockundo \in BlockUndo
    /\ work \in Works
    /\ {index, indexDisk} \subseteq [Blocks -> IndexEntries]
    /\ setDirtyBlockIndex \subseteq Blocks
    /\ flushing \in BOOLEAN
    /\ invalidating \in Blocks \cup {None}
    /\ mode \in {"running", "stopping", "down"}
    /\ failures \in Nat

TipCoins == Stacked(cache, saved)
ViewCoins == Stacked(view, TipCoins)

\* InitBlockIndex: the genesis block is connected and everything written.
Init ==
    /\ saved = Empty /\ savedBest = Genesis
    /\ cache = Empty /\ cacheBest = Genesis
    /\ view = Empty /\ blockundo = NoUndo /\ work = Idle
    /\ tip = Genesis
    /\ index = [b \in Blocks |-> [hasUndo |-> FALSE, undo |-> NoUndo, failed |-> FALSE]]
    /\ indexDisk = index
    /\ setDirtyBlockIndex = {}
    /\ flushing = FALSE /\ invalidating = None
    /\ mode = "running" /\ failures = 0

Free == work.op = "idle" /\ ~flushing /\ mode # "down"

\* The view reads ids, and pcoinsTip below it reads those the view lacks.
Fetch(ids) ==
    /\ cache' = FetchCoins(cache, saved, ids \ DOMAIN view)
    /\ view' = FetchCoins(view, TipCoins, ids)
    /\ UNCHANGED <<saved, savedBest, cacheBest>>

\* One CCoinsModifier on the view: coins is what it leaves behind.
Modify(t, coins) ==
    /\ cache' = FetchCoins(cache, saved, {t} \ DOMAIN view)
    /\ view' = ModifyCoins(view, TipCoins, t, coins)
    /\ UNCHANGED <<saved, savedBest, cacheBest>>

DropView ==
    /\ view' = Empty
    /\ blockundo' = NoUndo
    /\ work' = Idle

----------------------------------------------------------------------------
(* ConnectTip and ConnectBlock.                                            *)

\* InvalidBlockFound, when the state says the block is invalid.
MarkFailed(bs) ==
    /\ index' = [b \in Blocks |->
                    IF b \in bs THEN [index[b] EXCEPT !.failed = TRUE] ELSE index[b]]
    /\ setDirtyBlockIndex' = setDirtyBlockIndex \cup bs
    /\ UNCHANGED indexDisk

\* BIP30 is enforced on every block: BIP34Hash is no block of this chain.
Overwrites(b, i) == ~IsPruned(Read(TipCoins, Vtx[b][i]))

\* The transactions of b it looks at: up to the first that overwrites coins.
Bip30Reads(b) ==
    {Vtx[b][i] : i \in {i \in DOMAIN Vtx[b] : \A k \in 1..(i - 1) : ~Overwrites(b, k)}}

StartConnect(b) ==
    /\ Free /\ mode = "running" /\ invalidating = None
    /\ b # Genesis /\ Parent[b] = tip /\ ~index[b].failed
    /\ cacheBest = tip          \* assert(hashPrevBlock == view.GetBestBlock())
    /\ IF \E i \in DOMAIN Vtx[b] : Overwrites(b, i)
       THEN /\ cache' = FetchCoins(cache, saved, Bip30Reads(b))
            /\ UNCHANGED <<saved, savedBest, cacheBest, draftVars>>
            /\ MarkFailed({b})
       ELSE /\ Fetch(Bip30Reads(b))
            /\ work' = [op |-> "connect", block |-> b, i |-> 1, j |-> 0, clean |-> TRUE]
            /\ UNCHANGED <<blockundo, indexVars>>
    /\ UNCHANGED <<tip, invalidating, nodeVars>>

Connecting == work.op = "connect"
CurrentTx == Vtx[work.block][work.i]

IsAvailable(o) == o[2] \in Read(ViewCoins, o[1]).outs
HaveInputs(t) == \A o \in Inputs(t) : IsAvailable(o)

\* The transactions HaveInputs looks at: up to the first missing output.
InputReads(t) ==
    {Vin[t][k][1] : k \in {k \in DOMAIN Vin[t] : \A m \in 1..(k - 1) : IsAvailable(Vin[t][m])}}

\* A transaction that is no coinbase needs all its inputs in the view.
CheckInputs ==
    /\ Connecting /\ work.i \in DOMAIN Vtx[work.block] /\ work.j = 0
    /\ ~IsCoinBase(CurrentTx)
    /\ IF HaveInputs(CurrentTx)
       THEN /\ Fetch(InputReads(CurrentTx))
            /\ work' = [work EXCEPT !.j = 1]
            /\ UNCHANGED <<blockundo, indexVars>>
       ELSE /\ cache' = FetchCoins(cache, saved, InputReads(CurrentTx) \ DOMAIN view)
            /\ UNCHANGED <<saved, savedBest, cacheBest>>
            /\ DropView
            /\ MarkFailed({work.block})
    /\ UNCHANGED <<tip, invalidating, nodeVars>>

\* CTxInUndo::nHeight is set for the last output of its transaction only.
\* Fault: it is never set.
NoUndoHeight(coins, left) == 0
UndoHeight(coins, left) == IF IsPruned(left) THEN coins.height ELSE 0

\* UpdateCoins, one input: spend it, remember how to undo that.
SpendInput ==
    /\ Connecting /\ work.i \in DOMAIN Vtx[work.block]
    /\ work.j \in DOMAIN Vin[CurrentTx]
    /\ LET o == Vin[CurrentTx][work.j]
           coins == Read(ViewCoins, o[1])
           left == [coins EXCEPT !.outs = @ \ {o[2]}]
       IN  /\ o[2] \in coins.outs
           /\ Modify(o[1], left)
           /\ blockundo' = [blockundo EXCEPT ![o] = UndoHeight(coins, left)]
    /\ work' = [work EXCEPT !.j = @ + 1]
    /\ UNCHANGED <<tip, indexVars, invalidating, nodeVars>>

FromTx(t, h) == [height |-> h, outs |-> Vout[t]]

\* UpdateCoins, the outputs.
AddOutputs ==
    /\ Connecting /\ work.i \in DOMAIN Vtx[work.block]
    /\ LET t == CurrentTx
           coins == FromTx(t, Height[work.block])
       IN  IF IsCoinBase(t)
           THEN Modify(t, coins)
           ELSE /\ work.j = Len(Vin[t]) + 1
                /\ view' = ModifyNewCoins(view, t, coins)
                /\ UNCHANGED coinVars
    /\ work' = [work EXCEPT !.i = @ + 1, !.j = 0]
    /\ UNCHANGED <<blockundo, tip, indexVars, invalidating, nodeVars>>

\* A rule that is not modelled (scripts, amounts, payees) is broken.
FailConnect ==
    /\ Connecting /\ work.j \in {0, 1} /\ work.block \in Disputed
    /\ MarkFailed({work.block})
    /\ DropView
    /\ UNCHANGED <<coinVars, tip, invalidating, nodeVars>>

\* Fault: setDirtyBlockIndex.insert is forgotten.
DirtyUnchanged(b) == setDirtyBlockIndex
DirtyWith(b) == setDirtyBlockIndex \cup {b}

\* The undo data is written once, the view becomes part of pcoinsTip.
FinishConnect ==
    /\ Connecting /\ work.i = Len(Vtx[work.block]) + 1
    /\ IF index[work.block].hasUndo
       THEN UNCHANGED indexVars
       ELSE /\ index' = [index EXCEPT ![work.block].hasUndo = TRUE,
                                      ![work.block].undo = blockundo]
            /\ setDirtyBlockIndex' = DirtyWith(work.block)
            /\ UNCHANGED indexDisk
    /\ cache' = BatchWrite(cache, view)
    /\ cacheBest' = work.block
    /\ view' = Empty /\ blockundo' = NoUndo
    /\ work' = [Idle EXCEPT !.op = "update", !.block = work.block]
    /\ UNCHANGED <<saved, savedBest, tip, invalidating, nodeVars>>

\* FlushStateToDisk, if it was needed, has returned true.
UpdateTip ==
    /\ work.op = "update" /\ ~flushing
    /\ tip' = work.block
    /\ work' = Idle
    /\ UNCHANGED <<coinVars, view, blockundo, indexVars, invalidating, nodeVars>>

----------------------------------------------------------------------------
(* DisconnectTip and DisconnectBlock.                                      *)

\* InvalidateBlock marks each block it is about to disconnect.
StartDisconnect ==
    /\ Free /\ (mode = "running" \/ invalidating # None)
    /\ index[tip].hasUndo       \* else "no undo data available"
    /\ cacheBest = tip          \* assert(pindex->GetBlockHash() == ...)
    /\ work' = [op |-> "disconnect", block |-> tip, i |-> Len(Vtx[tip]), j |-> 0,
                clean |-> TRUE]
    /\ IF invalidating = None THEN UNCHANGED indexVars ELSE MarkFailed({tip})
    /\ UNCHANGED <<coinVars, view, blockundo, tip, invalidating, nodeVars>>

Disconnecting == work.op = "disconnect" /\ work.i \in DOMAIN Vtx[work.block]

\* The outputs of the transaction must be what the block put there.
RemoveOutputs ==
    /\ Disconnecting /\ work.j = 0
    /\ LET t == CurrentTx
           intact == Value(Read(ViewCoins, t)) = Value(FromTx(t, Height[work.block]))
       IN  /\ Modify(t, Clear)
           /\ work' = IF IsCoinBase(t)
                      THEN [work EXCEPT !.i = @ - 1, !.clean = @ /\ intact]
                      ELSE [work EXCEPT !.j = Len(Vin[t]), !.clean = @ /\ intact]
    /\ UNCHANGED <<blockundo, tip, indexVars, invalidating, nodeVars>>

\* ApplyTxInUndo: nHeight # 0 when this was the last output of its transaction.
RestoreInput ==
    /\ Disconnecting /\ work.j \in DOMAIN Vin[CurrentTx]
    /\ LET o == Vin[CurrentTx][work.j]
           nHeight == index[work.block].undo[o]
           coins == Read(ViewCoins, o[1])
           base == IF nHeight # 0 THEN [height |-> nHeight, outs |-> {}] ELSE coins
           clean == /\ nHeight # 0 <=> IsPruned(coins)
                    /\ o[2] \notin base.outs
       IN  /\ Modify(o[1], [base EXCEPT !.outs = @ \cup {o[2]}])
           /\ work' = IF work.j = 1
                      THEN [work EXCEPT !.i = @ - 1, !.j = 0, !.clean = @ /\ clean]
                      ELSE [work EXCEPT !.j = @ - 1, !.clean = @ /\ clean]
    /\ UNCHANGED <<blockundo, tip, indexVars, invalidating, nodeVars>>

\* view.SetBestBlock at the end of DisconnectBlock.
\* Fault: it is left out.
BestUnchanged(b) == b
BestAfterDisconnect(b) == Parent[b]

\* An unclean result fails DisconnectTip, and the view is dropped.
FinishDisconnect ==
    /\ work.op = "disconnect" /\ work.i = 0
    /\ IF work.clean
       THEN /\ cache' = BatchWrite(cache, view)
            /\ cacheBest' = BestAfterDisconnect(work.block)
            /\ view' = Empty /\ blockundo' = NoUndo
            /\ work' = [Idle EXCEPT !.op = "update", !.block = Parent[work.block]]
            /\ UNCHANGED <<saved, savedBest, invalidating>>
       ELSE /\ DropView
            /\ invalidating' = None
            /\ UNCHANGED coinVars
    /\ UNCHANGED <<tip, indexVars, nodeVars>>

----------------------------------------------------------------------------
(* InvalidateBlock and ReconsiderBlock.                                    *)

\* The blocks from genesis to each block.
ChainOf[b \in Blocks] ==
    IF b = Genesis THEN {b} ELSE ChainOf[Parent[b]] \cup {b}

StartInvalidate(b) ==
    /\ Free /\ mode = "running" /\ invalidating = None
    /\ index[b].failed => b \in ChainOf[tip]
    /\ MarkFailed({b})
    /\ invalidating' = IF b \in ChainOf[tip] THEN b ELSE None
    /\ UNCHANGED <<coinVars, draftVars, tip, nodeVars>>

EndInvalidate ==
    /\ Free /\ invalidating # None
    /\ IF invalidating \in ChainOf[tip]
       THEN ~index[tip].hasUndo /\ MarkFailed({tip})
       ELSE UNCHANGED indexVars
    /\ invalidating' = None
    /\ UNCHANGED <<coinVars, draftVars, tip, nodeVars>>

ReconsiderBlock(b) ==
    /\ Free /\ mode = "running" /\ invalidating = None
    /\ LET cleared == {a \in Blocks : index[a].failed /\
                                      (b \in ChainOf[a] \/ a \in ChainOf[b])}
       IN  /\ cleared # {}
           /\ index' = [a \in Blocks |-> IF a \in cleared
                                         THEN [index[a] EXCEPT !.failed = FALSE]
                                         ELSE index[a]]
           /\ setDirtyBlockIndex' = setDirtyBlockIndex \cup cleared
    /\ UNCHANGED <<coinVars, draftVars, tip, indexDisk, invalidating, nodeVars>>

----------------------------------------------------------------------------
(* AcceptToMemoryPool reads t and, until one is missing, what it spends.   *)

\* DisconnectTip calls it too, before UpdateTip.
AcceptToMemoryPool(t, n, accepted) ==
    /\ \/ Free /\ invalidating = None
       \/ work.op = "update" /\ ~flushing
    /\ ~IsCoinBase(t)
    /\ LET ids == {t} \cup {Vin[t][k][1] : k \in 1..n}
           fetched == FetchCoins(cache, saved, ids)
       IN  cache' = IF accepted THEN fetched ELSE Uncache(fetched, ids \ DOMAIN cache)
    /\ UNCHANGED <<saved, savedBest, cacheBest, draftVars, tip, indexVars,
                   invalidating, nodeVars>>

----------------------------------------------------------------------------
(* FlushStateToDisk, Shutdown and LoadBlockIndexDB.                        *)

\* In ConnectTip and DisconnectTip only a full flush may be needed; the index
\* alone is written periodically; Shutdown asks for a full flush.
MayFlush(full) ==
    /\ ~flushing
    /\ \/ work.op = "update" /\ full /\ mode # "down"
       \/ Free /\ mode = "running" /\ invalidating = None
       \/ Free /\ mode = "stopping" /\ invalidating = None /\ full

AfterShutdown == IF mode = "stopping" /\ work.op = "idle" THEN "down" ELSE mode
AfterAbort == IF mode = "stopping" /\ work.op = "idle" THEN "down" ELSE "stopping"

WriteIndex(full) ==
    /\ MayFlush(full)
    /\ indexDisk' = [b \in Blocks |-> IF b \in setDirtyBlockIndex THEN index[b]
                                      ELSE indexDisk[b]]
    /\ setDirtyBlockIndex' = {}
    /\ flushing' = full
    /\ UNCHANGED <<coinVars, draftVars, tip, index, invalidating, mode, failures>>

FlushCoins ==
    /\ flushing
    /\ saved' = WriteToDatabase(saved, cache)
    /\ savedBest' = cacheBest
    /\ cache' = Empty
    /\ flushing' = FALSE
    /\ mode' = AfterShutdown
    /\ UNCHANGED <<cacheBest, draftVars, tip, indexVars, invalidating, failures>>

\* AbortNode: the caller returns, the node shuts down.
Abort ==
    /\ failures < MaxFailures
    /\ failures' = failures + 1
    /\ flushing' = FALSE
    /\ mode' = AfterAbort
    /\ invalidating' = None
    /\ DropView
    /\ UNCHANGED <<saved, savedBest, cacheBest, tip>>

\* The set of dirty entries was emptied while the batch was put together.
FailWriteIndex(full) ==
    /\ MayFlush(full)
    /\ Abort
    /\ setDirtyBlockIndex' = {}
    /\ UNCHANGED <<cache, index, indexDisk>>

\* CheckDiskSpace, before either of the two writes: nothing was emptied yet.
NoDiskSpace(full) ==
    /\ MayFlush(full) \/ flushing
    /\ Abort
    /\ UNCHANGED <<cache, indexVars>>

\* So were the entries of pcoinsTip.
FailFlushCoins ==
    /\ flushing
    /\ Abort
    /\ cache' = Empty
    /\ UNCHANGED indexVars

\* StartShutdown, on request.
Stop ==
    /\ mode = "running"
    /\ mode' = "stopping"
    /\ UNCHANGED <<coinVars, draftVars, tip, indexVars, invalidating, flushing, failures>>

\* After Shutdown, or out of the blue.
Restart ==
    /\ cache' = Empty /\ cacheBest' = savedBest
    /\ DropView
    /\ tip' = savedBest
    /\ index' = indexDisk
    /\ setDirtyBlockIndex' = {}
    /\ flushing' = FALSE /\ invalidating' = None /\ mode' = "running"
    /\ UNCHANGED <<saved, savedBest, indexDisk, failures>>

Next ==
    \/ \E b \in Blocks : StartConnect(b) \/ ReconsiderBlock(b)
    \/ \E b \in Disputed : StartInvalidate(b)
    \/ CheckInputs \/ SpendInput \/ AddOutputs \/ FailConnect \/ FinishConnect
    \/ UpdateTip
    \/ StartDisconnect \/ RemoveOutputs \/ RestoreInput \/ FinishDisconnect
    \/ EndInvalidate
    \/ \E t \in TxIds, accepted \in BOOLEAN : \E n \in 0..Len(Vin[t]) :
            AcceptToMemoryPool(t, n, accepted)
    \/ \E full \in BOOLEAN : WriteIndex(full) \/ FailWriteIndex(full) \/ NoDiskSpace(full)
    \/ FlushCoins \/ FailFlushCoins
    \/ Stop \/ Restart

Spec == Init /\ [][Next]_vars

----------------------------------------------------------------------------
(* What it is for.                                                         *)

ApplyTx(coins, t, h) ==
    [u \in TxIds |->
        IF u = t THEN Value(FromTx(t, h))
        ELSE Value([coins[u] EXCEPT !.outs = @ \ {n \in @ : <<u, n>> \in Inputs(t)}])]

\* The unspent outputs after each transaction of b, when coins are those before it.
After(coins, b) ==
    LET after[i \in 0..Len(Vtx[b])] ==
            IF i = 0 THEN coins ELSE ApplyTx(after[i - 1], Vtx[b][i], Height[b])
    IN  after

\* The unspent outputs of the chain that ends in each block, from its
\* transactions alone.
UtxoOf[b \in Blocks] ==
    IF b = Genesis THEN [t \in TxIds |-> Clear]
    ELSE After(UtxoOf[Parent[b]], b)[Len(Vtx[b])]

Layer(coins) == [t \in TxIds |-> Value(Read(coins, t))]

\* Whatever was connected, disconnected, flushed and lost on the way there,
\* the coins are those of the chain that the best block beside them names:
\* in pcoinsTip, and in the database that a crash falls back to.  (FRESH and
\* DIRTY of CCoinsViewCache, the undo data of DisconnectBlock, and the order
\* of view.Flush, SetBestBlock and FlushStateToDisk all bear on it.)
CoinsOfBestBlock ==
    failures = 0 => /\ Layer(TipCoins) = UtxoOf[cacheBest]
                    /\ Layer(saved) = UtxoOf[savedBest]

\* coins.h says of GetBestBlock: "Retrieve the block hash whose state this
\* CCoinsView currently represents".  It also says that a cache is undefined
\* after a Flush that failed, but Shutdown flushes such a cache once more.
BestBlockRepresented == Layer(saved) = UtxoOf[savedBest]

\* No reorganisation, crash or failed block makes DisconnectBlock report
\* undo data that does not fit the coins.
UndoIsClean == failures = 0 => work.clean

\* The flags mean what coins.h says, in both caches: an entry that is not
\* DIRTY agrees with the view below it, and below a FRESH one there is
\* nothing unspent.
FlagsOf(child, base) ==
    \A t \in DOMAIN child :
        /\ ~child[t].dirty => Value(child[t].coins) = Value(Read(base, t))
        /\ child[t].fresh => IsPruned(Read(base, t))
FlagsTrue == FlagsOf(cache, saved) /\ FlagsOf(view, TipCoins)

\* After a crash every block of the chain on disk can be disconnected: its
\* index entry, with its undo data, is on disk too (FlushStateToDisk writes
\* the index first).
UndoReaches(idx, b) ==
    \A a \in Blocks \ {Genesis} : (a = b \/ idx[a].hasUndo) =>
        /\ idx[a].hasUndo
        /\ Parent[a] # Genesis => idx[Parent[a]].hasUndo
IndexCoversCoins ==
    /\ failures = 0 => UndoReaches(indexDisk, savedBest)
    /\ failures = 0 => UndoReaches(index, cacheBest)

\* main.cpp, FlushStateToDisk: "This can only be done if the blocks / block
\* index write was also done."
IndexBeforeCoins == UndoReaches(indexDisk, savedBest)

\* ConnectBlock and DisconnectBlock assert that the view's best block is the
\* tip; ProcessNewBlock may call them whenever the node runs and is idle.
BestBlockIsTip == work.op = "idle" /\ mode = "running" => cacheBest = tip

\* main.cpp, PruneBlockIndexCandidates: "Either the current tip or a
\* successor of it we're working towards is left in setBlockIndexCandidates",
\* asserted when LoadBlockIndexDB has made the best block on disk the tip:
\* candidates are the blocks not marked as failed, the worse ones are erased.
CandidateAfterRestart ==
    \E b \in Blocks : ~indexDisk[b].failed /\ Height[b] >= Height[savedBest]

\* The two caches over the database are three whole copies of the coins.
Layers == INSTANCE CoinsLayers WITH
    NoCoins <- Clear, disk <- Layer(saved), memory <- Layer(TipCoins),
    draft <- Layer(ViewCoins)
ImplementsLayers == Layers!Spec
=============================================================================

---------------------------- MODULE InstantSend ----------------------------
(***************************************************************************)
(* CInstantSend (src/instantx.cpp) on one node, together with the parts of *)
(* the node it is woven into: AcceptToMemoryPool, the TX / TXLOCKREQUEST   *)
(* handler, CheckBlock's transaction-lock filter, and the connection and   *)
(* disconnection of the tip (src/main.cpp).                                *)
(*                                                                         *)
(* A std::map is a total function; the model value Absent stands for "no   *)
(* such key".  A vote is the triple its hash covers.  The votes of a       *)
(* CTxLockCandidate, kept per outpoint and safenode, are the set tally.    *)
(*                                                                         *)
(* cs_main and cs_instantsend are held together from the first to the last *)
(* step of ProcessTxLockRequest; op records where that critical section    *)
(* stands, because it processes the orphan votes one at a time in the      *)
(* order of their hashes.  The message thread gives both locks up between  *)
(* ProcessTxLockRequest and AcceptToMemoryPool: awaiting holds the request *)
(* in between.  CheckBlock runs before cs_main is taken: checked holds the *)
(* block between its check and its connection.                             *)
(***************************************************************************)
EXTENDS Integers, Sequences, FiniteSets, Functions

CONSTANTS
    Txs,                    \* transactions that may ask for a lock
    Outpoints,              \* the coins they spend, in the order of COutPoint
    Inputs,                 \* [Txs -> SUBSET Outpoints], the vin of each
    Safenodes,              \* safenode collateral outpoints
    Foreign,                \* votes for outpoints their transaction does not spend
    Self,                   \* activeSafenode, or Absent when not a safenode
    Score,                  \* [Outpoints -> [Safenodes -> Nat]], by block hash
    Absent,
    SIGNATURES_REQUIRED, SIGNATURES_TOTAL,
    nInstantSendKeepLock,
    ORPHAN_VOTE_SECONDS,    \* in clock ticks
    OrphanRateSeconds,      \* the ten minutes of ProcessTxLockVote, in ticks
    SporkSettings,          \* the spork combinations the operators switch between
    Unstable,               \* safenodes that enter and leave the list
    MaxHeight, MaxTime, MaxRestarts, MaxReorgs,     \* bounds
    MaxVotes                \* bound on the votes known at a time

InstantSend == "SPORK_2_INSTANTSEND_ENABLED"
BlockFiltering == "SPORK_3_INSTANTSEND_BLOCK_FILTERING"

ASSUME OutpointAssumption == Outpoints \subseteq Nat
ASSUME InputAssumption ==
    /\ Inputs \in [Txs -> SUBSET Outpoints]
    /\ \A t \in Txs : Inputs[t] # {}
ASSUME AbsentAssumption ==
    /\ Absent \notin Txs \cup Safenodes \cup Int
    /\ Self \in Safenodes \cup {Absent}
ASSUME BoundAssumption ==
    /\ {SIGNATURES_REQUIRED, SIGNATURES_TOTAL} \subseteq Nat
    /\ nInstantSendKeepLock \in Nat \ {0}
    /\ {ORPHAN_VOTE_SECONDS, OrphanRateSeconds} \subseteq Nat
    /\ {MaxHeight, MaxTime, MaxRestarts, MaxReorgs, MaxVotes} \subseteq Nat
    /\ Unstable \subseteq Safenodes
    /\ {InstantSend, BlockFiltering} \in SporkSettings
ASSUME SafenodeAssumption == IsFiniteSet(Safenodes)

\* A candidate keeps votes for its own inputs; CTxLockVote::IsValid does not look
\* at what the transaction spends, so that Foreign votes arrive as well.
InputVotes == {v \in [tx : Txs, outpoint : Outpoints, safenode : Safenodes] :
                 v.outpoint \in Inputs[v.tx]}
Votes == InputVotes \cup Foreign
ASSUME ForeignAssumption ==
    /\ Foreign \subseteq [tx : Txs, outpoint : Outpoints, safenode : Safenodes]
    /\ \A v \in Foreign : v.outpoint \notin Inputs[v.tx]

VARIABLES
    mapLockRequestAccepted, mapLockRequestRejected,
    mapTxLockVotes,         \* vote -> nConfirmedHeight
    mapTxLockVotesOrphan,   \* vote -> nTimeCreated
    mapTxLockCandidates,    \* tx -> nConfirmedHeight
    tally,                  \* the votes inside the candidates
    mapVotedOutpoints,      \* outpoint -> set of txs, {} when absent
    mapLockedOutpoints,     \* outpoint -> tx
    mapSafenodeOrphanVotes, \* safenode -> time
    pCurrentBlockIndex,     \* its height
    op, awaiting, checked,  \* work in progress, see above
    chain,                  \* the blocks on top of the coins: sequence of sets
    mempool,
    mnodeman,               \* the safenodes in the list
    sporks,
    now,                    \* GetTime()
    cast,                   \* history: the votes this safenode ever relayed
    forgotten,              \* history: the outpoints whose votes an expiry erased
    overrun,                \* history: locks for which ResolveConflicts ran out of blocks
    restarts, reorgs        \* bounded counters

lockVars == <<mapLockRequestAccepted, mapLockRequestRejected>>
voteVars == <<mapTxLockVotes, mapTxLockVotesOrphan, tally, mapVotedOutpoints>>
chainVars == <<chain, mempool, checked, pCurrentBlockIndex, overrun>>
envVars == <<mnodeman, sporks, now, restarts, reorgs, forgotten>>
vars == <<lockVars, voteVars, mapTxLockCandidates, mapLockedOutpoints,
          mapSafenodeOrphanVotes, op, awaiting, chainVars, envVars, cast>>

Heights == -1..MaxHeight
NoOp == [pc |-> "idle", tx |-> Absent, todo |-> {}, caller |-> "none"]
NoLockHeld == op.pc = "idle"

----------------------------------------------------------------------------
(* Chain, memory pool and safenode list *)

Mined(ch) == UNION {ch[i] : i \in DOMAIN ch}
Conflicts(t) == {u \in Txs \ {t} : Inputs[u] \cap Inputs[t] # {}}
Unspent(ch, o) == \A t \in Mined(ch) : o \notin Inputs[t]
Spendable(ch, t) == \A o \in Inputs[t] : Unspent(ch, o)
HeightIn(ch, t) == IF t \in Mined(ch)
                   THEN CHOOSE i \in DOMAIN ch : t \in ch[i]
                   ELSE -1

Candidates == {t \in Txs : mapTxLockCandidates[t] # Absent}
Orphans == {v \in Votes : mapTxLockVotesOrphan[v] # Absent}

\* An input of t is locked for some other transaction.
LockConflict(t) ==
    \E o \in Inputs[t] : mapLockedOutpoints[o] \notin {Absent, t}

\* Fault: the check against completed locks is left out.
AcceptsLocked(t, pool, ch) ==
    t \notin pool /\ Spendable(ch, t) /\ Conflicts(t) \cap pool = {}
\* AcceptToMemoryPool: a transaction already pooled, with spent inputs, with an
\* input locked for another one or with a rival in the pool is turned away.
Accepts(t, pool, ch) ==
    /\ t \notin pool
    /\ Spendable(ch, t)
    /\ ~LockConflict(t)
    /\ Conflicts(t) \cap pool = {}

\* CSafenodeMan::GetSafenodeRank, 1 for the best score.
GetSafenodeRank(m, o) ==
    1 + Cardinality({k \in mnodeman : Score[o][k] > Score[o][m]})
InTop(m, o) == m \in mnodeman /\ GetSafenodeRank(m, o) <= SIGNATURES_TOTAL

----------------------------------------------------------------------------
(* Queries on votes and locks *)

VotesFor(T, t, o) == {v \in T : v.tx = t /\ v.outpoint = o}
IsReady(T, t, o) == Cardinality(VotesFor(T, t, o)) >= SIGNATURES_REQUIRED
\* Fault: votes are counted over the whole transaction, not per outpoint.
AnyOutPointReady(T, t) == \E o \in Inputs[t] : IsReady(T, t, o)
IsAllOutPointsReady(T, t) == \A o \in Inputs[t] : IsReady(T, t, o)

\* Fault: conflicting votes of a safenode are not noticed.
VotedForNoRival(v) == FALSE
\* A safenode already voted to spend the outpoint of v in another candidate.
VotedForRival(v) ==
    \E t \in mapVotedOutpoints[v.outpoint] \ {v.tx} : [v EXCEPT !.tx = t] \in tally

\* The transactions other than t whose candidate the look-ups over the voters of o
\* do not find.  They read mapTxLockCandidates.end() then, unchecked: what is
\* there may say that the safenode has voted, or that it has not.
Missed(o, t) == mapVotedOutpoints[o] \ (Candidates \cup {t})
RivalAnswers(v) ==
    {VotedForRival(v)} \cup {TRUE : t \in Missed(v.outpoint, v.tx)}

IsLockedInstantSendTransaction(t) ==
    /\ InstantSend \in sporks
    /\ t \in Candidates
    /\ \A o \in Inputs[t] : mapLockedOutpoints[o] = t

AlreadyHave(t) == t \in mapLockRequestAccepted \cup mapLockRequestRejected

IsEnoughOrphanVotesForTx(orphans, t) == IsAllOutPointsReady(orphans, t)
RequestIsValid(t, orphans) ==
    ~IsEnoughOrphanVotesForTx(orphans, t) => Spendable(chain, t)

\* nConfirmedHeight of the candidates and of the votes of the transactions T
\* after the chain became ch: CInstantSend::SyncTransaction for each of them.
SyncCandidates(T, ch) ==
    [t \in Txs |-> IF t \in T \cap Candidates THEN HeightIn(ch, t)
                   ELSE mapTxLockCandidates[t]]
SyncedVotes(T, counted) ==
    {v \in Votes : /\ v.tx \in T
                   /\ \/ v \in Orphans
                      \/ v \in counted /\ mapTxLockVotes[v] # Absent}
SyncVotes(T, ch, counted, votes) ==
    [v \in Votes |-> IF v \in SyncedVotes(T, counted) THEN HeightIn(ch, v.tx)
                     ELSE votes[v]]

----------------------------------------------------------------------------
(* Completing a lock *)

FilteredBy(b) == BlockFiltering \in sporks /\ \E t \in b : LockConflict(t)

\* How many blocks ResolveConflicts disconnects: down to the latest one that
\* spends an input of t, at most nInstantSendKeepLock.
ReplayDepth(t) ==
    LET above == {i \in DOMAIN chain :
                    \A j \in i..Len(chain) : chain[j] \cap Conflicts(t) = {}}
        depth == 1 + Cardinality(above)
    IN  IF depth <= nInstantSendKeepLock THEN depth ELSE nInstantSendKeepLock

\* The tail of ResolveConflicts: blocks are disconnected, their transactions
\* return to the pool, t replaces its rivals there if the recursion reached the
\* block that spends its inputs, and ActivateBestChain connects the blocks again
\* up to the first one CheckBlock now rejects.  The locks are those of before:
\* LockTransactionInputs(t) comes later.
Replay(t) ==
    LET d == ReplayDepth(t)
        base == Len(chain) - d
        kept == SubSeq(chain, 1, base)
        again == Cardinality({i \in 1..d :
                     \A j \in 1..i : ~FilteredBy(chain[base + j])})
        after == SubSeq(chain, 1, base + again)
        moved == Mined(SubSeq(chain, base + 1, Len(chain)))
        back == mempool \cup {u \in moved : Accepts(u, mempool, kept)}
        rivals == IF d < nInstantSendKeepLock THEN Conflicts(t) \cap back ELSE {}
        pool == (back \ rivals)
                  \cup (IF rivals # {} /\ Spendable(kept, t) THEN {t} ELSE {})
    IN  [ok |-> TRUE, chain |-> after, moved |-> moved,
         overrun |-> IF d = nInstantSendKeepLock THEN overrun \cup {t} ELSE overrun,
         tip |-> IF again > 0 THEN Len(after) ELSE pCurrentBlockIndex,
         pool |-> {u \in pool : Spendable(after, u)}]

ResolveConflicts(t) ==
    LET rivals == Conflicts(t) \cap mempool
        room == mempool \ rivals
        stay == [ok |-> TRUE, chain |-> chain, moved |-> {}, overrun |-> overrun,
                 tip |-> pCurrentBlockIndex, pool |-> mempool]
    IN  CASE LockConflict(t) -> [stay EXCEPT !.ok = FALSE]
          [] ~LockConflict(t) /\ rivals # {} ->
                IF Accepts(t, room, chain)
                THEN [stay EXCEPT !.pool = room \cup {t}]
                ELSE [stay EXCEPT !.ok = FALSE, !.pool = room]
          [] ~LockConflict(t) /\ rivals = {} ->
                IF t \in Mined(chain) \/ Spendable(chain, t) THEN stay
                ELSE Replay(t)

\* Fault: only the last input of the transaction is locked.
LockLastInput(t) ==
    [o \in Outpoints |-> IF /\ o \in Inputs[t] /\ mapLockedOutpoints[o] = Absent
                            /\ \A p \in Inputs[t] : p <= o
                         THEN t ELSE mapLockedOutpoints[o]]
\* std::map::insert leaves an existing entry alone.
LockTransactionInputs(t) ==
    [o \in Outpoints |-> IF o \in Inputs[t] /\ mapLockedOutpoints[o] = Absent
                         THEN t ELSE mapLockedOutpoints[o]]

\* TryToFinalizeLockCandidate, with the tally and mapTxLockVotes its caller leaves.
TryToFinalizeLockCandidate(t, counted, votes) ==
    IF IsAllOutPointsReady(counted, t) /\ ~IsLockedInstantSendTransaction(t)
    THEN LET r == ResolveConflicts(t)
         IN  /\ mapLockedOutpoints' =
                    IF r.ok THEN LockTransactionInputs(t) ELSE mapLockedOutpoints
             /\ mempool' = r.pool
             /\ chain' = r.chain
             /\ mapTxLockCandidates' = SyncCandidates(r.moved, r.chain)
             /\ mapTxLockVotes' = SyncVotes(r.moved, r.chain, counted, votes)
             /\ checked' = IF r.chain = chain THEN checked ELSE Absent
             /\ pCurrentBlockIndex' = r.tip
             /\ overrun' = r.overrun
    ELSE /\ mapTxLockVotes' = votes
         /\ UNCHANGED <<mapLockedOutpoints, mapTxLockCandidates, chainVars>>

----------------------------------------------------------------------------
(* Lock requests *)

\* Fault: only an earlier vote for the same transaction stops Vote().
HasVotedOnNothing(o) == FALSE
\* This safenode already voted on o, for t or for a rival of t.
HasVotedOn(o) ==
    \E v \in tally : /\ v.outpoint = o /\ v.safenode = Self
                     /\ v.tx \in mapVotedOutpoints[o]

\* The votes Vote(t) signs: one per input, up to the first input already spent,
\* if this node is among the top safenodes of the input and has not voted on it.
OwnVotes(t) ==
    {v \in InputVotes :
                   /\ v.tx = t /\ v.safenode = Self
                   /\ \A o \in Inputs[t] : o <= v.outpoint => Unspent(chain, o)
                   /\ InTop(Self, v.outpoint)
                   /\ ~HasVotedOn(v.outpoint)}
\* A look-up that misses may take any of them for already signed.
OwnChoices(t) ==
    {own \in SUBSET OwnVotes(t) : \A v \in OwnVotes(t) \ own : Missed(v.outpoint, t) # {}}
Vote(t, own, votes) ==
    /\ mapTxLockVotes' =
          [v \in Votes |-> IF v \in own /\ votes[v] = Absent THEN -1 ELSE votes[v]]
    /\ tally' = tally \cup own
    /\ cast' = cast \cup (own \ tally)
    /\ mapVotedOutpoints' =
          [o \in Outpoints |-> IF \E v \in own \ tally : v.outpoint = o
                               THEN mapVotedOutpoints[o] \cup {t}
                               ELSE mapVotedOutpoints[o]]

\* ProcessTxLockRequest up to ProcessOrphanTxLockVotes: a completed lock on an
\* input, or an invalid request, ends it; otherwise the candidate is created and
\* voted on, and the orphan votes are due.
RequestRefused(t, orphans) ==
    \/ \E o \in Inputs[t] : mapLockedOutpoints[o] # Absent
    \/ ~RequestIsValid(t, orphans)
StartRequest(t, orphans, votes, caller) ==
    /\ mapTxLockCandidates' = IF t \in Candidates THEN mapTxLockCandidates
                              ELSE [mapTxLockCandidates EXCEPT ![t] = -1]
    /\ \E own \in OwnChoices(t) : Vote(t, own, votes)
    /\ op' = [pc |-> "orphans", tx |-> t, todo |-> orphans, caller |-> caller]

\* TXLOCKREQUEST from a peer, first critical section.
ReceiveLockRequest(t) ==
    /\ NoLockHeld /\ awaiting = Absent
    /\ ~RequestRefused(t, Orphans)
    /\ StartRequest(t, Orphans, mapTxLockVotes, "message")
    /\ UNCHANGED <<lockVars, mapTxLockVotesOrphan, mapLockedOutpoints,
                   mapSafenodeOrphanVotes, awaiting, chainVars, envVars>>

\* The wallet pools the transaction it created, then asks for the lock
\* (CommitTransaction, RelayWalletTransaction), all under cs_main; so does
\* sendrawtransaction, which also takes a transaction that is in the pool.
SendLockRequest(t) ==
    /\ NoLockHeld
    /\ t \in mempool \/ Accepts(t, mempool, chain)
    /\ ~RequestRefused(t, Orphans)
    /\ mempool' = mempool \cup {t}
    /\ StartRequest(t, Orphans, mapTxLockVotes, "wallet")
    /\ UNCHANGED <<lockVars, mapTxLockVotesOrphan, mapLockedOutpoints,
                   mapSafenodeOrphanVotes, awaiting, chain, checked,
                   pCurrentBlockIndex, overrun, envVars>>

\* ProcessTxLockRequest ends: the candidate it was called for may be ready.
FinishRequest ==
    /\ op.pc = "orphans" /\ op.todo = {}
    /\ TryToFinalizeLockCandidate(op.tx, tally, mapTxLockVotes)
    /\ op' = NoOp
    /\ awaiting' = IF op.caller = "message" THEN op.tx ELSE awaiting
    /\ UNCHANGED <<lockVars, mapTxLockVotesOrphan, tally, mapVotedOutpoints,
                   mapSafenodeOrphanVotes, envVars, cast>>

\* The second critical section of the handler: AcceptToMemoryPool and the verdict.
PoolLockRequest ==
    /\ NoLockHeld /\ awaiting # Absent
    /\ LET t == awaiting
           accepted == ~AlreadyHave(t) /\ Accepts(t, mempool, chain)
           mayMiss == /\ ~Spendable(chain, t) /\ t \notin Mined(chain)
                      /\ t \notin Candidates /\ ~LockConflict(t)
       IN \E orphaned \in {FALSE, mayMiss} :
           /\ mempool' = IF accepted THEN mempool \cup {t} ELSE mempool
           /\ mapLockRequestAccepted' =
                 IF accepted THEN mapLockRequestAccepted \cup {t}
                 ELSE mapLockRequestAccepted
           /\ mapLockRequestRejected' =
                 IF AlreadyHave(t) \/ accepted \/ orphaned
                 THEN mapLockRequestRejected ELSE mapLockRequestRejected \cup {t}
    /\ awaiting' = Absent
    /\ UNCHANGED <<voteVars, mapTxLockCandidates, mapLockedOutpoints,
                   mapSafenodeOrphanVotes, op, chain, checked,
                   pCurrentBlockIndex, overrun, envVars, cast>>

----------------------------------------------------------------------------
(* Lock votes *)

\* Another orphan vote by m is refused while its last one is recent and more
\* recent than the average (GetAverageSafenodeOrphanVoteTime).
Spamming(m) ==
    LET seen == {k \in Safenodes : mapSafenodeOrphanVotes[k] # Absent}
        total == FoldFunctionOnSet(LAMBDA a, b : a + b, 0,
                                   mapSafenodeOrphanVotes, seen)
    IN  /\ m \in seen
        /\ mapSafenodeOrphanVotes[m] > now
        /\ mapSafenodeOrphanVotes[m] > total \div Cardinality(seen)
\* Fault: the time is pushed on from the last one, not from now.
NoteOrphanVoteOnTop(m) ==
    LET last == mapSafenodeOrphanVotes[m]
    IN  [mapSafenodeOrphanVotes EXCEPT
            ![m] = OrphanRateSeconds + (IF last = Absent THEN now ELSE last)]
NoteOrphanVote(m) ==
    IF Spamming(m) THEN mapSafenodeOrphanVotes
    ELSE [mapSafenodeOrphanVotes EXCEPT ![m] = now + OrphanRateSeconds]

VoteIsValid(v) == InTop(v.safenode, v.outpoint)

\* CTxLockCandidate::AddVote: false for an outpoint the candidate does not spend,
\* and for a second vote of the safenode.
AddVote(v) == v.outpoint \in Inputs[v.tx] /\ v \notin tally

\* ProcessTxLockVote for a candidate at hand, no rival vote in the way: the
\* outpoint has its voter before AddVote may refuse; a new vote may complete the
\* lock.
CountVote(v, votes) ==
    /\ mapVotedOutpoints' = [mapVotedOutpoints EXCEPT ![v.outpoint] = @ \cup {v.tx}]
    /\ IF AddVote(v)
       THEN /\ tally' = tally \cup {v}
            /\ TryToFinalizeLockCandidate(v.tx, tally \cup {v}, votes)
       ELSE /\ mapTxLockVotes' = votes
            /\ UNCHANGED <<tally, mapLockedOutpoints, mapTxLockCandidates, chainVars>>

\* TXLOCKVOTE: remembered by its hash before anything is known about it.
VoteArrives(v) ==
    /\ NoLockHeld /\ awaiting = Absent
    /\ InstantSend \in sporks
    /\ v.safenode = Self => v \in cast
    /\ mapTxLockVotes[v] = Absent
    /\ Cardinality({w \in Votes : mapTxLockVotes[w] # Absent}) < MaxVotes
Remembered(v) == [mapTxLockVotes EXCEPT ![v] = -1]

ReceiveRefusedVote(v) ==
    /\ VoteArrives(v)
    /\ ~VoteIsValid(v) \/ (v.tx \in Candidates /\ TRUE \in RivalAnswers(v))
    /\ mapTxLockVotes' = Remembered(v)
    /\ UNCHANGED <<lockVars, mapTxLockVotesOrphan, tally, mapVotedOutpoints,
                   mapTxLockCandidates, mapLockedOutpoints,
                   mapSafenodeOrphanVotes, op, awaiting, chainVars, envVars, cast>>

ReceiveVote(v) ==
    /\ VoteArrives(v)
    /\ VoteIsValid(v) /\ v.tx \in Candidates /\ FALSE \in RivalAnswers(v)
    /\ CountVote(v, Remembered(v))
    /\ UNCHANGED <<lockVars, mapTxLockVotesOrphan, mapSafenodeOrphanVotes, op,
                   awaiting, envVars, cast>>

\* A vote without its candidate waits; when it makes enough votes for a request
\* that was accepted or rejected before, the request is processed again.
OrphansWith(v) == Orphans \cup {v}
Reprocessed(v) ==
    v \notin Orphans /\ AlreadyHave(v.tx) /\ IsEnoughOrphanVotesForTx(OrphansWith(v), v.tx)
ReceiveOrphanVote(v) ==
    /\ VoteArrives(v)
    /\ VoteIsValid(v) /\ v.tx \notin Candidates
    /\ mapTxLockVotesOrphan' =
          IF v \in Orphans THEN mapTxLockVotesOrphan
          ELSE [mapTxLockVotesOrphan EXCEPT ![v] = now]
    /\ IF Reprocessed(v)
       THEN /\ IF RequestRefused(v.tx, OrphansWith(v))
               THEN /\ mapTxLockVotes' = Remembered(v)
                    /\ UNCHANGED <<mapTxLockCandidates, tally, cast,
                                   mapVotedOutpoints, op>>
               ELSE StartRequest(v.tx, OrphansWith(v), Remembered(v), "vote")
            /\ UNCHANGED mapSafenodeOrphanVotes
       ELSE /\ mapSafenodeOrphanVotes' = NoteOrphanVote(v.safenode)
            /\ mapTxLockVotes' = Remembered(v)
            /\ UNCHANGED <<mapTxLockCandidates, tally, cast, mapVotedOutpoints, op>>
    /\ UNCHANGED <<lockVars, mapLockedOutpoints, awaiting, chainVars, envVars>>

\* One turn of ProcessOrphanTxLockVotes; the vote leaves the orphan map exactly
\* when ProcessTxLockVote returns true.
KeepsOrphan(v, rival) ==
    \/ ~VoteIsValid(v)
    \/ v.tx \notin Candidates /\ Spamming(v.safenode)
    \/ v.tx \in Candidates /\ (rival \/ ~AddVote(v))
RetryOrphanVote(v) ==
    /\ op.pc = "orphans" /\ v \in op.todo
    /\ op' = [op EXCEPT !.todo = @ \ {v}]
    /\ mapSafenodeOrphanVotes' =
          IF VoteIsValid(v) /\ v.tx \notin Candidates
          THEN NoteOrphanVote(v.safenode) ELSE mapSafenodeOrphanVotes
    /\ \E rival \in RivalAnswers(v) :
          /\ mapTxLockVotesOrphan' =
                IF KeepsOrphan(v, rival) THEN mapTxLockVotesOrphan
                ELSE [mapTxLockVotesOrphan EXCEPT ![v] = Absent]
          /\ IF VoteIsValid(v) /\ v.tx \in Candidates /\ ~rival
             THEN CountVote(v, mapTxLockVotes)
             ELSE UNCHANGED <<mapTxLockVotes, tally, mapVotedOutpoints,
                              mapTxLockCandidates, mapLockedOutpoints, chainVars>>
    /\ UNCHANGED <<lockVars, awaiting, envVars, cast>>

----------------------------------------------------------------------------
(* Transactions and blocks *)

\* A plain transaction, from a peer or from the wallet.
ReceiveTx(t) ==
    /\ NoLockHeld
    /\ Accepts(t, mempool, chain)
    /\ mempool' = mempool \cup {t}
    /\ UNCHANGED <<lockVars, voteVars, mapTxLockCandidates, mapLockedOutpoints,
                   mapSafenodeOrphanVotes, op, awaiting, chain, checked,
                   pCurrentBlockIndex, overrun, envVars, cast>>

\* The blocks miners may find on top of ch.
BlocksOn(ch) ==
    {b \in SUBSET (Txs \ Mined(ch)) :
        \A t \in b : Spendable(ch, t) /\ Conflicts(t) \cap b = {}}

\* ProcessNewBlock before it takes cs_main.
CheckBlock(b) ==
    /\ NoLockHeld /\ checked = Absent
    /\ Len(chain) < MaxHeight
    /\ b \in BlocksOn(chain)
    /\ ~FilteredBy(b)
    /\ checked' = b
    /\ UNCHANGED <<lockVars, voteVars, mapTxLockCandidates, mapLockedOutpoints,
                   mapSafenodeOrphanVotes, op, awaiting, chain, mempool,
                   pCurrentBlockIndex, overrun, envVars, cast>>

\* Fault: the wallet signal is not sent for a disconnected block.
MoveTipSilently(ch, T) ==
    chain' = ch /\ checked' = Absent /\ UNCHANGED <<mapTxLockCandidates, mapTxLockVotes>>
\* The chain becomes ch; the transactions T were mined, unmined or evicted.
MoveTip(ch, T) ==
    /\ chain' = ch
    /\ checked' = Absent
    /\ mapTxLockCandidates' = SyncCandidates(T, ch)
    /\ mapTxLockVotes' = SyncVotes(T, ch, tally, mapTxLockVotes)

\* ConnectTip: fChecked spares the block a second look at the locks.
ConnectTip ==
    /\ NoLockHeld /\ checked # Absent
    /\ LET ch == Append(chain, checked)
           left == {t \in mempool : Spendable(ch, t)}
       IN  /\ mempool' = left
           /\ MoveTip(ch, checked \cup (mempool \ left))
           /\ pCurrentBlockIndex' = Len(ch)
    /\ UNCHANGED <<lockVars, mapTxLockVotesOrphan, tally, mapVotedOutpoints,
                   mapLockedOutpoints, mapSafenodeOrphanVotes, op, awaiting,
                   overrun, envVars, cast>>

\* InvalidateBlock of the tip: its transactions go back to the pool.
DisconnectTip ==
    /\ NoLockHeld /\ chain # <<>> /\ reorgs < MaxReorgs
    /\ LET tip == chain[Len(chain)]
           ch == SubSeq(chain, 1, Len(chain) - 1)
       IN  /\ mempool' = mempool \cup {t \in tip : Accepts(t, mempool, ch)}
           /\ MoveTip(ch, tip)
    /\ reorgs' = reorgs + 1
    /\ UNCHANGED <<lockVars, mapTxLockVotesOrphan, tally, mapVotedOutpoints,
                   mapLockedOutpoints, mapSafenodeOrphanVotes, op, awaiting,
                   pCurrentBlockIndex, overrun, mnodeman, sporks, now, restarts, cast,
                   forgotten>>

----------------------------------------------------------------------------
(* Expiry, restarts and the rest of the node *)

\* Fault: unconfirmed entries expire, too.
IsExpiredAlways(height) ==
    height # Absent /\ pCurrentBlockIndex - height > nInstantSendKeepLock
\* IsExpired, for candidates and votes.
IsExpired(height) ==
    height # Absent /\ height # -1 /\ pCurrentBlockIndex - height > nInstantSendKeepLock

Expired == {t \in Txs : IsExpired(mapTxLockCandidates[t])}
\* Fault: the votes on the outpoints of an expired candidate stay.
ForgottenNone == {}
Forgotten == UNION {Inputs[t] : t \in Expired}
StaleOrphans == {v \in Orphans : now - mapTxLockVotesOrphan[v] > ORPHAN_VOTE_SECONDS}
StaleVotes == StaleOrphans \cup {v \in Votes : IsExpired(mapTxLockVotes[v])}

\* Once a minute; nothing is done before the first UpdatedBlockTip.
CheckAndRemove ==
    /\ NoLockHeld /\ pCurrentBlockIndex # Absent
    /\ mapLockedOutpoints' =
          [o \in Outpoints |-> IF o \in Forgotten THEN Absent ELSE mapLockedOutpoints[o]]
    /\ mapVotedOutpoints' =
          [o \in Outpoints |-> IF o \in Forgotten THEN {} ELSE mapVotedOutpoints[o]]
    /\ mapLockRequestAccepted' = mapLockRequestAccepted \ Expired
    /\ mapLockRequestRejected' = mapLockRequestRejected \ Expired
    /\ mapTxLockCandidates' =
          [t \in Txs |-> IF t \in Expired THEN Absent ELSE mapTxLockCandidates[t]]
    /\ tally' = {v \in tally : v.tx \notin Expired}
    /\ mapTxLockVotes' =
          [v \in Votes |-> IF v \in StaleVotes THEN Absent ELSE mapTxLockVotes[v]]
    /\ mapTxLockVotesOrphan' =
          [v \in Votes |-> IF v \in StaleOrphans THEN Absent ELSE mapTxLockVotesOrphan[v]]
    /\ mapSafenodeOrphanVotes' =
          [m \in Safenodes |-> IF /\ mapSafenodeOrphanVotes[m] # Absent
                                  /\ mapSafenodeOrphanVotes[m] < now
                               THEN Absent ELSE mapSafenodeOrphanVotes[m]]
    /\ forgotten' = forgotten \cup Forgotten
    /\ UNCHANGED <<op, awaiting, chainVars, mnodeman, sporks, now, restarts, reorgs, cast>>

Forget ==
    /\ mapLockRequestAccepted' = {} /\ mapLockRequestRejected' = {}
    /\ mapTxLockVotes' = [v \in Votes |-> Absent]
    /\ mapTxLockVotesOrphan' = [v \in Votes |-> Absent]
    /\ mapTxLockCandidates' = [t \in Txs |-> Absent]
    /\ tally' = {}
    /\ mapVotedOutpoints' = [o \in Outpoints |-> {}]
    /\ mapLockedOutpoints' = [o \in Outpoints |-> Absent]
    /\ mapSafenodeOrphanVotes' = [m \in Safenodes |-> Absent]
    /\ pCurrentBlockIndex' = Absent
    /\ op' = NoOp /\ awaiting' = Absent /\ checked' = Absent
    /\ mempool' = {}
    /\ forgotten' = {} /\ overrun' = {}

\* Every map above is memory only, so is the pool; init.cpp gives the tip to
\* the other managers but not to instantsend.
Restart ==
    /\ restarts < MaxRestarts
    /\ restarts' = restarts + 1
    /\ Forget
    /\ UNCHANGED <<chain, mnodeman, sporks, now, reorgs, cast>>

Tick ==
    /\ NoLockHeld /\ now < MaxTime
    /\ now' = now + 1
    /\ UNCHANGED <<lockVars, voteVars, mapTxLockCandidates, mapLockedOutpoints,
                   mapSafenodeOrphanVotes, op, awaiting, chainVars, mnodeman,
                   sporks, restarts, reorgs, cast, forgotten>>

SafenodeListChanges(m) ==
    /\ NoLockHeld
    /\ mnodeman' = IF m \in mnodeman THEN mnodeman \ {m} ELSE mnodeman \cup {m}
    /\ UNCHANGED <<lockVars, voteVars, mapTxLockCandidates, mapLockedOutpoints,
                   mapSafenodeOrphanVotes, op, awaiting, chainVars, sporks, now,
                   restarts, reorgs, cast, forgotten>>

SporkArrives(s) ==
    /\ NoLockHeld /\ sporks # s
    /\ sporks' = s
    /\ UNCHANGED <<lockVars, voteVars, mapTxLockCandidates, mapLockedOutpoints,
                   mapSafenodeOrphanVotes, op, awaiting, chainVars, mnodeman,
                   now, restarts, reorgs, cast, forgotten>>

Init ==
    /\ mapLockRequestAccepted = {} /\ mapLockRequestRejected = {}
    /\ mapTxLockVotes = [v \in Votes |-> Absent]
    /\ mapTxLockVotesOrphan = [v \in Votes |-> Absent]
    /\ mapTxLockCandidates = [t \in Txs |-> Absent]
    /\ tally = {}
    /\ mapVotedOutpoints = [o \in Outpoints |-> {}]
    /\ mapLockedOutpoints = [o \in Outpoints |-> Absent]
    /\ mapSafenodeOrphanVotes = [m \in Safenodes |-> Absent]
    /\ pCurrentBlockIndex = Absent
    /\ op = NoOp /\ awaiting = Absent /\ checked = Absent
    /\ chain = <<>> /\ mempool = {}
    /\ mnodeman = Safenodes
    /\ sporks = {InstantSend, BlockFiltering}
    /\ now = 0 /\ restarts = 0 /\ reorgs = 0
    /\ cast = {} /\ forgotten = {} /\ overrun = {}

Next ==
    \/ \E t \in Txs : ReceiveLockRequest(t) \/ SendLockRequest(t) \/ ReceiveTx(t)
    \/ FinishRequest \/ PoolLockRequest
    \/ \E v \in Votes : \/ ReceiveRefusedVote(v) \/ ReceiveVote(v)
                        \/ ReceiveOrphanVote(v) \/ RetryOrphanVote(v)
    \/ \E b \in SUBSET Txs : CheckBlock(b)
    \/ ConnectTip \/ DisconnectTip
    \/ CheckAndRemove \/ Restart \/ Tick
    \/ \E m \in Unstable : SafenodeListChanges(m)
    \/ \E s \in SporkSettings : SporkArrives(s)

Spec == Init /\ [][Next]_vars

----------------------------------------------------------------------------
(* Properties *)

Times == 0..(MaxTime + OrphanRateSeconds)

\* The type of every map, of the chain and of the work in progress.
LockTypes ==
    /\ tally \subseteq InputVotes
    /\ mapTxLockCandidates \in [Txs -> Heights \cup {Absent}]
    /\ mapVotedOutpoints \in [Outpoints -> SUBSET Txs]
    /\ mapLockedOutpoints \in [Outpoints -> Txs \cup {Absent}]
VoteTypes ==
    /\ mapTxLockVotes \in [Votes -> Heights \cup {Absent}]
    /\ mapTxLockVotesOrphan \in [Votes -> Times \cup {Absent}]
    /\ mapSafenodeOrphanVotes \in [Safenodes -> Times \cup {Absent}]
    /\ mapLockRequestAccepted \subseteq Txs /\ mapLockRequestRejected \subseteq Txs
    /\ cast \subseteq InputVotes
ChainTypes ==
    /\ chain \in Seq(SUBSET Txs) /\ Len(chain) <= MaxHeight
    /\ pCurrentBlockIndex \in 0..MaxHeight \cup {Absent}
    /\ mempool \subseteq Txs /\ overrun \subseteq Txs
WorkTypes ==
    /\ op \in [pc : {"idle", "orphans"}, tx : Txs \cup {Absent},
               todo : SUBSET Votes, caller : {"none", "message", "wallet", "vote"}]
    /\ op.pc = "orphans" => op.tx \in Candidates
    /\ awaiting \in Txs \cup {Absent}
    /\ checked # Absent => checked \subseteq Txs /\ Len(chain) < MaxHeight
NodeTypes ==
    /\ mnodeman \subseteq Safenodes /\ sporks \in SporkSettings
    /\ forgotten \subseteq Outpoints
    /\ now \in 0..MaxTime /\ restarts \in 0..MaxRestarts /\ reorgs \in 0..MaxReorgs
TypeOK == LockTypes /\ VoteTypes /\ ChainTypes /\ WorkTypes /\ NodeTypes

\* Vote and ProcessTxLockVote dereference mapTxLockCandidates.find(hash) for
\* every hash in mapVotedOutpoints without a check.  It may miss on account of a
\* foreign vote alone, which the code lets in ("this should never happen") and
\* CheckAndRemove does not see: a voter that spends the outpoint has a candidate.
NoDanglingVote ==
    \A o \in Outpoints : \A t \in mapVotedOutpoints[o] :
        t \in Candidates \/ o \notin Inputs[t]

\* An outpoint is locked only for a known candidate that spends it and has
\* SIGNATURES_REQUIRED votes on every one of its inputs.
LockHasQuorum ==
    \A o \in Outpoints : mapLockedOutpoints[o] # Absent =>
        LET t == mapLockedOutpoints[o]
        IN  /\ t \in Candidates
            /\ o \in Inputs[t]
            /\ \A p \in Inputs[t] :
                  Cardinality(VotesFor(tally, t, p)) >= SIGNATURES_REQUIRED

\* The pool never holds a transaction that a completed lock rules out: neither
\* when a lock completes over it, nor when a disconnected block gives it back.
\* A lock for which ResolveConflicts ran out of blocks is completed all the same.
PoolRespectsLocks ==
    \A t \in mempool : \A o \in Inputs[t] :
        mapLockedOutpoints[o] \in {Absent, t} \cup overrun

\* A confirmed height is the height of the block that holds the transaction, as
\* reorganisations move it; -1 stands for 0-confirmed or conflicted.
ConfirmedHeightTrue ==
    \A t \in Candidates : mapTxLockCandidates[t] # -1 =>
        mapTxLockCandidates[t] = HeightIn(chain, t)

\* No safenode counts for two candidates on the same outpoint, from the time its
\* votes are counted to the expiry of one of the candidates, which makes
\* CheckAndRemove erase what it knows of the votes for the rest.
OneVotePerOutpoint ==
    \A v, w \in tally :
        v.outpoint = w.outpoint /\ v.safenode = w.safenode /\ v.outpoint \notin forgotten
            => v.tx = w.tx

\* This safenode never relays votes that spend an outpoint in two transactions: as
\* long as it remembers them, that is until it restarts or one of them expires.
NeverVotesTwice ==
    restarts = 0 =>
        \A v, w \in cast : v.outpoint = w.outpoint /\ v.outpoint \notin forgotten
                                => v.tx = w.tx

\* A transaction that spends o is nInstantSendKeepLock blocks deep.
SpentDeep(o) ==
    \E t \in Mined(chain) :
        o \in Inputs[t] /\ pCurrentBlockIndex - HeightIn(chain, t) > nInstantSendKeepLock

\* A completed lock is never handed to another transaction, and goes away only
\* with a restart or after the outpoint was spent nInstantSendKeepLock blocks deep.
LockNeverMoves ==
    [][\A o \in Outpoints :
          mapLockedOutpoints[o] # Absent =>
              \/ mapLockedOutpoints'[o] = mapLockedOutpoints[o]
              \/ mapLockedOutpoints'[o] = Absent /\ (restarts' # restarts \/ SpentDeep(o))]_vars

\* The promise of TxLock is kept, whatever happens around it.
Lock == INSTANCE TxLock WITH ballots <- tally, holder <- mapLockedOutpoints
ImplementsTxLock == Lock!Spec

\* "will actually process only after the lock request itself has arrived": a vote
\* that waits for its request leaves the orphan map counted, expired or rebooted.
OrphanVoteWaits ==
    [][\A v \in Orphans :
          mapTxLockVotesOrphan'[v] = Absent =>
              \/ v \in tally' \/ restarts' # restarts
              \/ now - mapTxLockVotesOrphan[v] > ORPHAN_VOTE_SECONDS]_vars

\* "We should never accept block which conflicts with completed transaction lock".
BlockRespectsLocks ==
    [][ConnectTip /\ BlockFiltering \in sporks => ~FilteredBy(checked)]_vars

\* "block which includes conflicting tx should be rejected by ConnectBlock": when
\* a lock completes, no rival of it is left in the chain.
LockEvictsRivals ==
    [][\A t \in Txs :
          (\E o \in Outpoints : mapLockedOutpoints'[o] = t /\ mapLockedOutpoints[o] # t)
              => Conflicts(t) \cap Mined(chain') = {}]_vars
=============================================================================

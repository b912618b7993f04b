------------------------- MODULE InstantSendProofs -------------------------
(***************************************************************************)
(* TLAPS proofs about InstantSend, for every set of transactions, coins    *)
(* and safenodes, every quorum and every bound.                            *)
(***************************************************************************)
EXTENDS InstantSend, FiniteSetTheorems, TLAPS

ChainType == {ch \in Seq(SUBSET Txs) : Len(ch) <= MaxHeight}

\* A confirmed height is a height of the chain, or -1.
LEMMA HeightType ==
  ASSUME NEW ch \in ChainType, NEW t
  PROVE  HeightIn(ch, t) \in Heights
<1>1. CASE t \in Mined(ch)
  <2>1. \E i \in DOMAIN ch : t \in ch[i]
    BY <1>1 DEF Mined
  <2>2. HeightIn(ch, t) \in DOMAIN ch
    BY <1>1, <2>1 DEF HeightIn
  <2>3. DOMAIN ch = 1..Len(ch) /\ Len(ch) \in Nat /\ Len(ch) <= MaxHeight
    BY DEF ChainType
  <2> QED BY <2>2, <2>3, BoundAssumption DEF Heights
<1>2. CASE t \notin Mined(ch)
  BY <1>2, BoundAssumption DEF HeightIn, Heights
<1> QED BY <1>1, <1>2

\* SyncTransaction moves heights; it neither adds nor removes a candidate.
LEMMA SyncTypes ==
  ASSUME LockTypes, NEW ch \in ChainType, NEW T
  PROVE  /\ SyncCandidates(T, ch) \in [Txs -> Heights \cup {Absent}]
         /\ \A t \in Txs : (SyncCandidates(T, ch)[t] # Absent) <=> t \in Candidates
         /\ \A counted, votes : votes \in [Votes -> Heights \cup {Absent}]
               => SyncVotes(T, ch, counted, votes) \in [Votes -> Heights \cup {Absent}]
<1>1. \A t : HeightIn(ch, t) \in Heights
  BY HeightType
<1>2. Absent \notin Heights
  BY AbsentAssumption DEF Heights
<1> QED BY <1>1, <1>2 DEF SyncCandidates, SyncVotes, LockTypes, Candidates

\* A prefix of the chain is a chain.
LEMMA PrefixType ==
  ASSUME ChainTypes, NEW n \in Nat, n <= Len(chain)
  PROVE  SubSeq(chain, 1, n) \in ChainType /\ Len(SubSeq(chain, 1, n)) = n
BY BoundAssumption DEF ChainTypes, ChainType

LEMMA IntervalSize ==
  ASSUME NEW n \in Nat
  PROVE  IsFiniteSet(1..n) /\ Cardinality(1..n) = n
<1>1. 1 \in Int /\ n \in Int
  OBVIOUS
<1>2. /\ IsFiniteSet(1..n)
      /\ Cardinality(1..n) = IF 1 > n THEN 0 ELSE n - 1 + 1
  BY <1>1, FS_Interval, Zenon
<1>3. (IF 1 > n THEN 0 ELSE n - 1 + 1) = n
  OBVIOUS
<1> QED BY <1>2, <1>3

\* What is disconnected is at most the chain, what is connected again is at most
\* what was disconnected.
LEMMA ReplayBounds ==
  ASSUME ChainTypes, NEW t \in Txs, ~Spendable(chain, t), t \notin Mined(chain)
  PROVE  /\ ReplayDepth(t) \in 1..Len(chain)
         /\ \A S \in SUBSET (1..ReplayDepth(t)) :
               Cardinality(S) \in Nat /\ Cardinality(S) <= ReplayDepth(t)
<1> DEFINE above == {i \in DOMAIN chain :
                        \A j \in i..Len(chain) : chain[j] \cap Conflicts(t) = {}}
<1>1. DOMAIN chain = 1..Len(chain) /\ Len(chain) \in Nat
  BY DEF ChainTypes
<1>2. PICK k \in DOMAIN chain : chain[k] \cap Conflicts(t) # {}
  <2>1. PICK u \in Mined(chain) : Inputs[t] \cap Inputs[u] # {}
    BY DEF Spendable, Unspent
  <2>2. PICK i \in DOMAIN chain : u \in chain[i]
    BY DEF Mined
  <2>3. u \in Conflicts(t)
    BY <1>1, <2>1, <2>2 DEF ChainTypes, Conflicts
  <2> QED BY <2>2, <2>3
<1>3. IsFiniteSet(1..Len(chain)) /\ Cardinality(1..Len(chain)) = Len(chain)
  BY <1>1, IntervalSize
<1>4. above \subseteq (1..Len(chain)) \ {k}
  BY <1>1, <1>2
<1>5. /\ IsFiniteSet((1..Len(chain)) \ {k})
      /\ Cardinality((1..Len(chain)) \ {k}) = Len(chain) - 1
  <2>1. k \in 1..Len(chain)
    BY <1>1
  <2>2. Cardinality((1..Len(chain)) \ {k}) = Cardinality(1..Len(chain)) - 1
    BY <1>3, <2>1, FS_RemoveElement, Zenon
  <2> QED BY <1>3, <2>2, FS_RemoveElement
<1>6. Cardinality(above) \in Nat /\ Cardinality(above) <= Len(chain) - 1
  BY <1>4, <1>5, FS_Subset, FS_CardinalityType
<1>7. ReplayDepth(t) = IF 1 + Cardinality(above) <= nInstantSendKeepLock
                       THEN 1 + Cardinality(above) ELSE nInstantSendKeepLock
  BY DEF ReplayDepth
<1> HIDE DEF above
<1>8. ReplayDepth(t) \in 1..Len(chain)
  BY <1>1, <1>6, <1>7, BoundAssumption
<1>9. /\ IsFiniteSet(1..ReplayDepth(t))
      /\ Cardinality(1..ReplayDepth(t)) = ReplayDepth(t)
  BY <1>1, <1>8, IntervalSize
<1>10. ASSUME NEW S \in SUBSET (1..ReplayDepth(t))
       PROVE  Cardinality(S) \in Nat /\ Cardinality(S) <= ReplayDepth(t)
  BY <1>9, FS_Subset, FS_CardinalityType
<1> QED BY <1>8, <1>10

\* Disconnecting and connecting again leaves a prefix of the chain.
LEMMA ReplayType ==
  ASSUME ChainTypes, NEW t \in Txs, ~Spendable(chain, t), t \notin Mined(chain)
  PROVE  /\ Replay(t).ok = TRUE /\ Replay(t).chain \in ChainType
         /\ Replay(t).tip \in 0..MaxHeight \cup {Absent}
         /\ Replay(t).pool \subseteq Txs /\ Replay(t).overrun \subseteq Txs
<1> DEFINE d == ReplayDepth(t)
           base == Len(chain) - d
           again == Cardinality({i \in 1..d :
                        \A j \in 1..i : ~FilteredBy(chain[base + j])})
           n == base + again
<1>1. d \in 1..Len(chain) /\ Len(chain) \in Nat
  BY ReplayBounds DEF ChainTypes
<1>2. again \in Nat /\ again <= d
  BY ReplayBounds
<1>3. Replay(t).chain = SubSeq(chain, 1, n) /\ Replay(t).ok = TRUE
  BY DEF Replay
<1>4. Replay(t).tip = IF again > 0 THEN Len(SubSeq(chain, 1, n)) ELSE pCurrentBlockIndex
  BY DEF Replay
<1>5. Replay(t).pool \subseteq Txs
  <2>1. Mined(SubSeq(chain, base + 1, Len(chain))) \subseteq Txs
    <3>1. SubSeq(chain, base + 1, Len(chain)) \in Seq(SUBSET Txs)
      BY <1>1 DEF ChainTypes
    <3> DEFINE tail == SubSeq(chain, base + 1, Len(chain))
    <3>2. tail \in Seq(SUBSET Txs)
      BY <3>1
    <3> HIDE DEF tail
    <3>3. Mined(tail) \subseteq Txs
      BY <3>2 DEF Mined
    <3> QED BY <3>3 DEF tail
  <2> QED BY <2>1 DEF Replay, ChainTypes
<1>9. Replay(t).overrun \subseteq Txs
  BY DEF Replay, ChainTypes
<1> HIDE DEF d, base, again
<1>6. n \in Nat /\ n <= Len(chain)
  BY <1>1, <1>2 DEF base
<1>7. SubSeq(chain, 1, n) \in ChainType /\ Len(SubSeq(chain, 1, n)) = n
  BY <1>6, PrefixType
<1>8. Len(chain) <= MaxHeight /\ MaxHeight \in Nat
  BY BoundAssumption DEF ChainTypes
<1> QED BY <1>3, <1>4, <1>5, <1>6, <1>7, <1>8, <1>9 DEF ChainTypes

\* Whatever ResolveConflicts does to the chain and the pool, they stay of their
\* type; it succeeds only when no input of t is locked for another transaction.
LEMMA ResolveTypes ==
  ASSUME ChainTypes, NEW t \in Txs
  PROVE  /\ ResolveConflicts(t).chain \in ChainType
         /\ ResolveConflicts(t).tip \in 0..MaxHeight \cup {Absent}
         /\ ResolveConflicts(t).pool \subseteq Txs
         /\ ResolveConflicts(t).overrun \subseteq Txs
         /\ ResolveConflicts(t).ok => ~LockConflict(t)
<1> DEFINE rivals == Conflicts(t) \cap mempool
<1>1. chain \in ChainType
  BY DEF ChainTypes, ChainType
<1>2. CASE LockConflict(t)
  BY <1>1, <1>2 DEF ResolveConflicts, ChainTypes
<1>3. CASE ~LockConflict(t) /\ rivals # {}
  BY <1>1, <1>3 DEF ResolveConflicts, ChainTypes
<1>4. CASE ~LockConflict(t) /\ rivals = {} /\ (t \in Mined(chain) \/ Spendable(chain, t))
  BY <1>1, <1>4 DEF ResolveConflicts, ChainTypes
<1>5. CASE ~LockConflict(t) /\ rivals = {} /\ ~(t \in Mined(chain) \/ Spendable(chain, t))
  <2>1. ResolveConflicts(t) = Replay(t)
    BY <1>5 DEF ResolveConflicts
  <2> QED BY <1>5, <2>1, ReplayType
<1> QED BY <1>2, <1>3, <1>4, <1>5

\* One call of TryToFinalizeLockCandidate: candidates come and go elsewhere, and
\* a lock is set only for a candidate with its votes and no rival lock.
LEMMA FinalizeStep ==
  ASSUME LockTypes, ChainTypes, WorkTypes, NEW t \in Txs, NEW counted,
         NEW votes \in [Votes -> Heights \cup {Absent}],
         TryToFinalizeLockCandidate(t, counted, votes)
  PROVE  /\ mapTxLockCandidates' \in [Txs -> Heights \cup {Absent}]
         /\ \A u \in Txs : mapTxLockCandidates'[u] # Absent <=> u \in Candidates
         /\ mapTxLockVotes' \in [Votes -> Heights \cup {Absent}]
         /\ ChainTypes'
         /\ checked' # Absent => checked' \subseteq Txs /\ Len(chain') < MaxHeight
         /\ \/ mapLockedOutpoints' = mapLockedOutpoints
            \/ /\ mapLockedOutpoints' = LockTransactionInputs(t)
               /\ IsAllOutPointsReady(counted, t)
               /\ ~LockConflict(t)
<1> DEFINE r == ResolveConflicts(t)
<1>1. CASE IsAllOutPointsReady(counted, t) /\ ~IsLockedInstantSendTransaction(t)
  <2>1. /\ mapLockedOutpoints' =
             IF r.ok THEN LockTransactionInputs(t) ELSE mapLockedOutpoints
        /\ mempool' = r.pool /\ chain' = r.chain
        /\ mapTxLockCandidates' = SyncCandidates(r.moved, r.chain)
        /\ mapTxLockVotes' = SyncVotes(r.moved, r.chain, counted, votes)
        /\ checked' = (IF r.chain = chain THEN checked ELSE Absent)
        /\ pCurrentBlockIndex' = r.tip /\ overrun' = r.overrun
    BY <1>1 DEF TryToFinalizeLockCandidate
  <2>2. /\ r.chain \in ChainType /\ r.tip \in 0..MaxHeight \cup {Absent}
        /\ r.pool \subseteq Txs /\ r.overrun \subseteq Txs
        /\ (r.ok => ~LockConflict(t))
    BY ResolveTypes
  <2> HIDE DEF r
  <2>3. ChainTypes'
    BY <2>1, <2>2 DEF ChainTypes, ChainType
  <2>4. checked' # Absent => checked' \subseteq Txs /\ Len(chain') < MaxHeight
    BY <2>1 DEF WorkTypes
  <2>5. /\ mapTxLockCandidates' \in [Txs -> Heights \cup {Absent}]
        /\ \A u \in Txs : mapTxLockCandidates'[u] # Absent <=> u \in Candidates
        /\ mapTxLockVotes' \in [Votes -> Heights \cup {Absent}]
    BY <2>1, <2>2, SyncTypes
  <2> QED BY <1>1, <2>1, <2>2, <2>3, <2>4, <2>5
<1>2. CASE ~(IsAllOutPointsReady(counted, t) /\ ~IsLockedInstantSendTransaction(t))
  BY <1>2 DEF TryToFinalizeLockCandidate, LockTypes, ChainTypes, WorkTypes,
              chainVars, Candidates
<1> QED BY <1>1, <1>2

LEMMA LockInputsType ==
  ASSUME LockTypes, NEW t \in Txs
  PROVE  LockTransactionInputs(t) \in [Outpoints -> Txs \cup {Absent}]
BY DEF LockTypes, LockTransactionInputs

LEMMA FieldsOfVotes ==
  ASSUME NEW v \in Votes
  PROVE  /\ v \in [tx : Txs, outpoint : Outpoints, safenode : Safenodes]
         /\ v.tx \in Txs /\ v.outpoint \in Outpoints /\ v.safenode \in Safenodes
BY ForeignAssumption DEF Votes, InputVotes

LEMMA InputsOfVotes ==
  ASSUME NEW v \in InputVotes
  PROVE  /\ v \in Votes
         /\ v.tx \in Txs /\ v.outpoint \in Outpoints /\ v.safenode \in Safenodes
         /\ v.outpoint \in Inputs[v.tx]
BY DEF InputVotes, Votes

\* AddVote takes votes for the inputs of their transaction, each of them once.
LEMMA AddedVotes ==
  ASSUME NEW v \in Votes, AddVote(v)
  PROVE  v \in InputVotes /\ v \notin tally
BY FieldsOfVotes DEF AddVote, InputVotes

\* What RetryOrphanVote does to the candidate of the vote, whatever a look-up that
\* misses answers: it is left alone, or the vote is counted and no vote of the
\* safenode for a rival is known.
LEMMA RetryKinds ==
  ASSUME NEW v, RetryOrphanVote(v)
  PROVE  \/ /\ v.tx \in Candidates /\ ~VotedForRival(v)
            /\ CountVote(v, mapTxLockVotes)
         \/ UNCHANGED <<mapTxLockVotes, tally, mapVotedOutpoints,
                        mapTxLockCandidates, mapLockedOutpoints, chainVars>>
<1>1. PICK rival \in RivalAnswers(v) :
         IF VoteIsValid(v) /\ v.tx \in Candidates /\ ~rival
         THEN CountVote(v, mapTxLockVotes)
         ELSE UNCHANGED <<mapTxLockVotes, tally, mapVotedOutpoints,
                          mapTxLockCandidates, mapLockedOutpoints, chainVars>>
  BY DEF RetryOrphanVote
<1>2. CASE VoteIsValid(v) /\ v.tx \in Candidates /\ ~rival
  <2>1. ~VotedForRival(v)
    BY <1>2 DEF RivalAnswers
  <2> QED BY <1>1, <1>2, <2>1
<1>3. CASE ~(VoteIsValid(v) /\ v.tx \in Candidates /\ ~rival)
  BY <1>1, <1>3
<1> QED BY <1>2, <1>3

LEMMA ReceivedVote ==
  ASSUME NEW v, ReceiveVote(v)
  PROVE  v.tx \in Candidates /\ ~VotedForRival(v) /\ CountVote(v, Remembered(v))
BY DEF ReceiveVote, RivalAnswers

\* The start of a request: its candidate exists, and its votes have their type.
LEMMA StartTypes ==
  ASSUME LockTypes, VoteTypes, NEW t \in Txs, NEW orphans \in SUBSET Votes,
         NEW votes \in [Votes -> Heights \cup {Absent}],
         NEW caller \in {"none", "message", "wallet", "vote"},
         StartRequest(t, orphans, votes, caller)
  PROVE  /\ mapTxLockCandidates' \in [Txs -> Heights \cup {Absent}]
         /\ mapTxLockCandidates'[t] # Absent
         /\ \A u \in Candidates : mapTxLockCandidates'[u] # Absent
         /\ mapTxLockVotes' \in [Votes -> Heights \cup {Absent}]
         /\ tally' \subseteq InputVotes /\ cast' \subseteq InputVotes
         /\ mapVotedOutpoints' \in [Outpoints -> SUBSET Txs]
         /\ op' \in [pc : {"idle", "orphans"}, tx : Txs \cup {Absent},
                     todo : SUBSET Votes, caller : {"none", "message", "wallet", "vote"}]
         /\ op'.tx = t
<1>1. -1 \in Heights /\ Absent # -1
  BY BoundAssumption, AbsentAssumption DEF Heights
<1>2. PICK own \in SUBSET InputVotes : Vote(t, own, votes)
  BY DEF StartRequest, OwnChoices, OwnVotes
<1>3. /\ mapTxLockCandidates' \in [Txs -> Heights \cup {Absent}]
      /\ mapTxLockCandidates'[t] # Absent
      /\ \A u \in Candidates : mapTxLockCandidates'[u] # Absent
  BY <1>1 DEF StartRequest, LockTypes, Candidates
<1>4. /\ mapTxLockVotes' \in [Votes -> Heights \cup {Absent}]
      /\ tally' \subseteq InputVotes /\ cast' \subseteq InputVotes
      /\ mapVotedOutpoints' \in [Outpoints -> SUBSET Txs]
  BY <1>1, <1>2 DEF Vote, LockTypes, VoteTypes
<1>5. /\ op' \in [pc : {"idle", "orphans"}, tx : Txs \cup {Absent},
                  todo : SUBSET Votes, caller : {"none", "message", "wallet", "vote"}]
      /\ op'.tx = t
  BY DEF StartRequest
<1> QED BY <1>3, <1>4, <1>5

\* Counting a vote of a candidate.
LEMMA CountTypes ==
  ASSUME LockTypes, VoteTypes, ChainTypes, WorkTypes, NEW v \in Votes,
         NEW votes \in [Votes -> Heights \cup {Absent}], CountVote(v, votes)
  PROVE  /\ LockTypes' /\ ChainTypes'
         /\ mapTxLockVotes' \in [Votes -> Heights \cup {Absent}]
         /\ \A u \in Txs : mapTxLockCandidates'[u] # Absent <=> u \in Candidates
         /\ checked' # Absent => checked' \subseteq Txs /\ Len(chain') < MaxHeight
<1>1. v.tx \in Txs /\ v.outpoint \in Outpoints
  BY FieldsOfVotes
<1>2. /\ mapVotedOutpoints' \in [Outpoints -> SUBSET Txs]
      /\ tally' \subseteq InputVotes
  BY <1>1, AddedVotes DEF CountVote, LockTypes
<1>3. CASE ~AddVote(v)
  BY <1>2, <1>3 DEF CountVote, LockTypes, ChainTypes, WorkTypes, chainVars, Candidates
<1>4. CASE AddVote(v)
  <2>1. TryToFinalizeLockCandidate(v.tx, tally \cup {v}, votes)
    BY <1>4 DEF CountVote
  <2>2. /\ mapTxLockCandidates' \in [Txs -> Heights \cup {Absent}]
        /\ \A u \in Txs : mapTxLockCandidates'[u] # Absent <=> u \in Candidates
        /\ mapTxLockVotes' \in [Votes -> Heights \cup {Absent}]
        /\ ChainTypes'
        /\ checked' # Absent => checked' \subseteq Txs /\ Len(chain') < MaxHeight
        /\ \/ mapLockedOutpoints' = mapLockedOutpoints
           \/ mapLockedOutpoints' = LockTransactionInputs(v.tx)
    BY <1>1, <2>1, FinalizeStep
  <2>3. mapLockedOutpoints' \in [Outpoints -> Txs \cup {Absent}]
    BY <1>1, <2>2, LockInputsType DEF LockTypes
  <2> QED BY <1>2, <2>2, <2>3 DEF LockTypes
<1> QED BY <1>3, <1>4

\* MoveTip, for a chain of the right type.
LEMMA MoveTypes ==
  ASSUME LockTypes, VoteTypes, NEW ch \in ChainType, NEW T, MoveTip(ch, T)
  PROVE  /\ mapTxLockCandidates' \in [Txs -> Heights \cup {Absent}]
         /\ \A u \in Txs : mapTxLockCandidates'[u] # Absent <=> u \in Candidates
         /\ mapTxLockVotes' \in [Votes -> Heights \cup {Absent}]
         /\ chain' \in Seq(SUBSET Txs) /\ Len(chain') <= MaxHeight
         /\ checked' = Absent
<1>1. /\ chain' = ch /\ checked' = Absent
      /\ mapTxLockCandidates' = SyncCandidates(T, ch)
      /\ mapTxLockVotes' = SyncVotes(T, ch, tally, mapTxLockVotes)
  BY DEF MoveTip
<1>2. mapTxLockVotes \in [Votes -> Heights \cup {Absent}]
  BY DEF VoteTypes
<1>3. /\ SyncCandidates(T, ch) \in [Txs -> Heights \cup {Absent}]
      /\ \A t \in Txs : (SyncCandidates(T, ch)[t] # Absent) <=> t \in Candidates
      /\ SyncVotes(T, ch, tally, mapTxLockVotes) \in [Votes -> Heights \cup {Absent}]
  BY <1>2, SyncTypes
<1> QED BY <1>1, <1>3 DEF ChainType

\* The safenodes' orphan vote times stay within the clock's reach.
LEMMA NoteTypes ==
  ASSUME VoteTypes, NodeTypes, NEW m \in Safenodes
  PROVE  NoteOrphanVote(m) \in [Safenodes -> Times \cup {Absent}]
<1>1. now + OrphanRateSeconds \in Times
  BY BoundAssumption DEF NodeTypes, Times
<1>2. CASE Spamming(m)
  BY <1>2 DEF NoteOrphanVote, VoteTypes
<1>3. CASE ~Spamming(m)
  BY <1>1, <1>3 DEF NoteOrphanVote, VoteTypes
<1> QED BY <1>2, <1>3

LEMMA RememberedType ==
  ASSUME VoteTypes, NEW v \in Votes
  PROVE  Remembered(v) \in [Votes -> Heights \cup {Absent}]
BY BoundAssumption DEF VoteTypes, Remembered, Heights

LEMMA ForgottenType == Forgotten \subseteq Outpoints
BY InputAssumption DEF Forgotten, Expired

LEMMA TypeStep == TypeOK /\ [Next]_vars => TypeOK'
<1> SUFFICES ASSUME TypeOK, [Next]_vars PROVE TypeOK'
  OBVIOUS
<1>0. LockTypes /\ VoteTypes /\ ChainTypes /\ WorkTypes /\ NodeTypes
  BY DEF TypeOK
<1> USE <1>0
<1>a. mapTxLockVotes \in [Votes -> Heights \cup {Absent}] /\ Orphans \subseteq Votes
  BY DEF VoteTypes, Orphans
<1>b. Absent \notin Txs
  BY AbsentAssumption
<1>1. ASSUME NEW t \in Txs, ReceiveLockRequest(t) PROVE TypeOK'
  <2>1. StartRequest(t, Orphans, mapTxLockVotes, "message")
    BY <1>1 DEF ReceiveLockRequest
  <2>2. /\ UNCHANGED lockVars /\ UNCHANGED mapTxLockVotesOrphan
        /\ UNCHANGED mapLockedOutpoints /\ UNCHANGED mapSafenodeOrphanVotes
        /\ UNCHANGED awaiting /\ UNCHANGED chainVars /\ UNCHANGED envVars
    BY <1>1 DEF ReceiveLockRequest
  <2>3. LockTypes' /\ VoteTypes' /\ WorkTypes'
    BY <1>a, <2>1, <2>2, StartTypes
       DEF LockTypes, VoteTypes, WorkTypes, lockVars, chainVars, Candidates
  <2>4. ChainTypes' /\ NodeTypes'
    BY <2>2 DEF ChainTypes, NodeTypes, chainVars, envVars
  <2> QED BY <2>3, <2>4 DEF TypeOK
<1>2. ASSUME NEW t \in Txs, SendLockRequest(t) PROVE TypeOK'
  <2>1. StartRequest(t, Orphans, mapTxLockVotes, "wallet")
    BY <1>2 DEF SendLockRequest
  <2>2. /\ UNCHANGED lockVars /\ UNCHANGED mapTxLockVotesOrphan
        /\ UNCHANGED mapLockedOutpoints /\ UNCHANGED mapSafenodeOrphanVotes
        /\ UNCHANGED awaiting /\ UNCHANGED chain /\ UNCHANGED checked
        /\ UNCHANGED pCurrentBlockIndex /\ UNCHANGED overrun /\ UNCHANGED envVars
        /\ mempool' = mempool \cup {t}
    BY <1>2 DEF SendLockRequest
  <2>3. LockTypes' /\ VoteTypes' /\ WorkTypes'
    BY <1>a, <2>1, <2>2, StartTypes
       DEF LockTypes, VoteTypes, WorkTypes, lockVars, Candidates
  <2>4. ChainTypes' /\ NodeTypes'
    BY <2>2 DEF ChainTypes, NodeTypes, envVars
  <2> QED BY <2>3, <2>4 DEF TypeOK
<1>3. ASSUME FinishRequest PROVE TypeOK'
  <2>1. /\ op.pc = "orphans"
        /\ TryToFinalizeLockCandidate(op.tx, tally, mapTxLockVotes)
        /\ op' = NoOp
        /\ awaiting' = IF op.caller = "message" THEN op.tx ELSE awaiting
        /\ UNCHANGED lockVars /\ UNCHANGED mapTxLockVotesOrphan
        /\ UNCHANGED tally /\ UNCHANGED mapVotedOutpoints
        /\ UNCHANGED mapSafenodeOrphanVotes /\ UNCHANGED envVars /\ UNCHANGED cast
    BY <1>3 DEF FinishRequest
  <2>2. op.tx \in Txs
    BY <2>1 DEF WorkTypes, Candidates
  <2>3. /\ mapTxLockCandidates' \in [Txs -> Heights \cup {Absent}]
        /\ mapTxLockVotes' \in [Votes -> Heights \cup {Absent}]
        /\ ChainTypes'
        /\ checked' # Absent => checked' \subseteq Txs /\ Len(chain') < MaxHeight
        /\ \/ mapLockedOutpoints' = mapLockedOutpoints
           \/ mapLockedOutpoints' = LockTransactionInputs(op.tx)
    BY <1>a, <2>1, <2>2, FinalizeStep
  <2>4. LockTypes'
    BY <2>1, <2>2, <2>3, LockInputsType DEF LockTypes
  <2>5. VoteTypes' /\ NodeTypes'
    BY <2>1, <2>3 DEF VoteTypes, NodeTypes, lockVars, envVars
  <2>6. WorkTypes'
    <3>1. op' \in [pc : {"idle", "orphans"}, tx : Txs \cup {Absent},
                   todo : SUBSET Votes, caller : {"none", "message", "wallet", "vote"}]
          /\ op'.pc = "idle"
      BY <2>1 DEF NoOp
    <3> QED BY <2>1, <2>2, <2>3, <3>1 DEF WorkTypes
  <2> QED BY <2>3, <2>4, <2>5, <2>6 DEF TypeOK
<1>4. ASSUME PoolLockRequest PROVE TypeOK'
  <2>1. /\ awaiting \in Txs
        /\ mempool' \subseteq mempool \cup {awaiting}
        /\ mapLockRequestAccepted' \subseteq mapLockRequestAccepted \cup {awaiting}
        /\ mapLockRequestRejected' \subseteq mapLockRequestRejected \cup {awaiting}
    BY <1>4 DEF PoolLockRequest, WorkTypes
  <2>2. /\ awaiting' = Absent /\ UNCHANGED voteVars
        /\ UNCHANGED mapTxLockCandidates /\ UNCHANGED mapLockedOutpoints
        /\ UNCHANGED mapSafenodeOrphanVotes /\ UNCHANGED op /\ UNCHANGED chain
        /\ UNCHANGED checked /\ UNCHANGED pCurrentBlockIndex
        /\ UNCHANGED overrun /\ UNCHANGED envVars /\ UNCHANGED cast
    BY <1>4 DEF PoolLockRequest
  <2>3. LockTypes' /\ VoteTypes' /\ ChainTypes' /\ WorkTypes' /\ NodeTypes'
    BY <2>1, <2>2 DEF LockTypes, VoteTypes, ChainTypes, WorkTypes, NodeTypes,
                      voteVars, envVars, Candidates
  <2> QED BY <2>3 DEF TypeOK
<1>5. ASSUME NEW v \in Votes, ReceiveRefusedVote(v) PROVE TypeOK'
  <2>1. mapTxLockVotes' \in [Votes -> Heights \cup {Absent}]
    BY <1>5, RememberedType DEF ReceiveRefusedVote
  <2>2. LockTypes' /\ VoteTypes' /\ ChainTypes' /\ WorkTypes' /\ NodeTypes'
    BY <1>5, <2>1 DEF ReceiveRefusedVote, LockTypes, VoteTypes, ChainTypes,
         WorkTypes, NodeTypes, lockVars, chainVars, envVars, Candidates
  <2> QED BY <2>2 DEF TypeOK
<1>6. ASSUME NEW v \in Votes, ReceiveVote(v) PROVE TypeOK'
  <2>1. /\ CountVote(v, Remembered(v))
        /\ UNCHANGED lockVars /\ UNCHANGED mapTxLockVotesOrphan
        /\ UNCHANGED mapSafenodeOrphanVotes /\ UNCHANGED op
        /\ UNCHANGED awaiting /\ UNCHANGED envVars /\ UNCHANGED cast
    BY <1>6 DEF ReceiveVote
  <2>2. /\ LockTypes' /\ ChainTypes'
        /\ mapTxLockVotes' \in [Votes -> Heights \cup {Absent}]
        /\ \A u \in Txs : mapTxLockCandidates'[u] # Absent <=> u \in Candidates
        /\ checked' # Absent => checked' \subseteq Txs /\ Len(chain') < MaxHeight
    BY <2>1, CountTypes, RememberedType
  <2>3. VoteTypes' /\ WorkTypes' /\ NodeTypes'
    BY <2>1, <2>2 DEF VoteTypes, WorkTypes, NodeTypes, lockVars, envVars, Candidates
  <2> QED BY <2>2, <2>3 DEF TypeOK
<1>7. ASSUME NEW v \in Votes, ReceiveOrphanVote(v) PROVE TypeOK'
  <2>1. v.tx \in Txs /\ v.safenode \in Safenodes
    BY FieldsOfVotes
  <2>2. mapTxLockVotesOrphan' \in [Votes -> Times \cup {Absent}]
    BY <1>7, BoundAssumption DEF ReceiveOrphanVote, VoteTypes, NodeTypes, Times
  <2>3. Remembered(v) \in [Votes -> Heights \cup {Absent}]
    BY RememberedType
  <2>4. /\ UNCHANGED lockVars /\ UNCHANGED mapLockedOutpoints /\ UNCHANGED awaiting
        /\ UNCHANGED chainVars /\ UNCHANGED envVars
    BY <1>7 DEF ReceiveOrphanVote
  <2>5. CASE Reprocessed(v) /\ ~RequestRefused(v.tx, OrphansWith(v))
    <3>1. /\ StartRequest(v.tx, OrphansWith(v), Remembered(v), "vote")
          /\ UNCHANGED mapSafenodeOrphanVotes
      BY <1>7, <2>5 DEF ReceiveOrphanVote
    <3>2. OrphansWith(v) \in SUBSET Votes
      BY <1>a DEF OrphansWith
    <3>3. LockTypes' /\ VoteTypes' /\ WorkTypes'
      BY <2>1, <2>2, <2>3, <2>4, <3>1, <3>2, StartTypes
         DEF LockTypes, VoteTypes, WorkTypes, lockVars, chainVars, Candidates
    <3> QED BY <2>4, <3>3 DEF TypeOK, ChainTypes, NodeTypes, chainVars, envVars
  <2>6. CASE ~(Reprocessed(v) /\ ~RequestRefused(v.tx, OrphansWith(v)))
    <3>1. /\ mapTxLockVotes' = Remembered(v)
          /\ UNCHANGED <<mapTxLockCandidates, tally, cast, mapVotedOutpoints, op>>
          /\ \/ UNCHANGED mapSafenodeOrphanVotes
             \/ mapSafenodeOrphanVotes' = NoteOrphanVote(v.safenode)
      BY <1>7, <2>6 DEF ReceiveOrphanVote
    <3>2. mapSafenodeOrphanVotes' \in [Safenodes -> Times \cup {Absent}]
      BY <2>1, <3>1, NoteTypes DEF VoteTypes
    <3>3. LockTypes' /\ VoteTypes' /\ WorkTypes'
      BY <2>2, <2>3, <2>4, <3>1, <3>2
         DEF LockTypes, VoteTypes, WorkTypes, lockVars, chainVars, Candidates
    <3> QED BY <2>4, <3>3 DEF TypeOK, ChainTypes, NodeTypes, chainVars, envVars
  <2> QED BY <2>5, <2>6
<1>8. ASSUME NEW v \in Votes, RetryOrphanVote(v) PROVE TypeOK'
  <2>1. v.tx \in Txs /\ v.safenode \in Safenodes
    BY FieldsOfVotes
  <2>2. /\ op' = [op EXCEPT !.todo = @ \ {v}]
        /\ UNCHANGED lockVars /\ UNCHANGED awaiting /\ UNCHANGED envVars
        /\ UNCHANGED cast
    BY <1>8 DEF RetryOrphanVote
  <2>3. mapTxLockVotesOrphan' \in [Votes -> Times \cup {Absent}]
    BY <1>8 DEF RetryOrphanVote, VoteTypes
  <2>4. mapSafenodeOrphanVotes' \in [Safenodes -> Times \cup {Absent}]
    BY <1>8, <2>1, NoteTypes DEF RetryOrphanVote, VoteTypes
  <2>5. /\ LockTypes' /\ ChainTypes'
        /\ mapTxLockVotes' \in [Votes -> Heights \cup {Absent}]
        /\ \A u \in Txs : mapTxLockCandidates'[u] # Absent <=> u \in Candidates
        /\ checked' # Absent => checked' \subseteq Txs /\ Len(chain') < MaxHeight
    <3>1. CASE CountVote(v, mapTxLockVotes)
      BY <1>a, <3>1, CountTypes
    <3>2. CASE UNCHANGED <<mapTxLockVotes, tally, mapVotedOutpoints,
                           mapTxLockCandidates, mapLockedOutpoints, chainVars>>
      BY <1>a, <3>2 DEF LockTypes, ChainTypes, WorkTypes, chainVars, Candidates
    <3> QED BY <1>8, <3>1, <3>2, RetryKinds
  <2>6. VoteTypes' /\ NodeTypes'
    BY <2>2, <2>3, <2>4, <2>5 DEF VoteTypes, NodeTypes, lockVars, envVars
  <2>7. WorkTypes'
    BY <2>2, <2>5 DEF WorkTypes, Candidates
  <2> QED BY <2>5, <2>6, <2>7 DEF TypeOK
<1>9. ASSUME NEW t \in Txs, ReceiveTx(t) PROVE TypeOK'
  BY <1>9 DEF ReceiveTx, TypeOK, LockTypes, VoteTypes, ChainTypes, WorkTypes,
       NodeTypes, lockVars, voteVars, envVars, Candidates
<1>10. ASSUME NEW b \in SUBSET Txs, CheckBlock(b) PROVE TypeOK'
  BY <1>10 DEF CheckBlock, TypeOK, LockTypes, VoteTypes, ChainTypes, WorkTypes,
       NodeTypes, lockVars, voteVars, envVars, Candidates
<1>11. ASSUME ConnectTip PROVE TypeOK'
  <2> DEFINE ch == Append(chain, checked)
             left == {t \in mempool : Spendable(ch, t)}
  <2>1. checked \subseteq Txs /\ Len(chain) < MaxHeight
    BY <1>11 DEF ConnectTip, WorkTypes
  <2>2. ch \in Seq(SUBSET Txs) /\ Len(ch) = Len(chain) + 1 /\ Len(chain) \in Nat
    BY <2>1 DEF ChainTypes
  <2>3. /\ mempool' = left /\ MoveTip(ch, checked \cup (mempool \ left))
        /\ pCurrentBlockIndex' = Len(ch)
        /\ UNCHANGED lockVars /\ UNCHANGED mapTxLockVotesOrphan
        /\ UNCHANGED tally /\ UNCHANGED mapVotedOutpoints
        /\ UNCHANGED mapLockedOutpoints /\ UNCHANGED mapSafenodeOrphanVotes
        /\ UNCHANGED op /\ UNCHANGED awaiting /\ UNCHANGED overrun
        /\ UNCHANGED envVars /\ UNCHANGED cast
    BY <1>11 DEF ConnectTip
  <2>4. left \subseteq mempool
    OBVIOUS
  <2> HIDE DEF ch, left
  <2>5. ch \in ChainType
    BY <2>1, <2>2, BoundAssumption DEF ChainType
  <2>6. /\ mapTxLockCandidates' \in [Txs -> Heights \cup {Absent}]
        /\ \A u \in Txs : mapTxLockCandidates'[u] # Absent <=> u \in Candidates
        /\ mapTxLockVotes' \in [Votes -> Heights \cup {Absent}]
        /\ chain' \in Seq(SUBSET Txs) /\ Len(chain') <= MaxHeight
        /\ checked' = Absent
    BY <2>3, <2>5, MoveTypes
  <2>7. ChainTypes'
    BY <2>1, <2>2, <2>3, <2>4, <2>6, BoundAssumption DEF ChainTypes
  <2>8. LockTypes' /\ VoteTypes' /\ WorkTypes' /\ NodeTypes'
    BY <2>3, <2>6 DEF LockTypes, VoteTypes, WorkTypes, NodeTypes, lockVars,
                      envVars, Candidates
  <2> QED BY <2>7, <2>8 DEF TypeOK
<1>12. ASSUME DisconnectTip PROVE TypeOK'
  <2> DEFINE ch == SubSeq(chain, 1, Len(chain) - 1)
             tip == chain[Len(chain)]
  <2>1. Len(chain) \in Nat /\ Len(chain) # 0 /\ tip \subseteq Txs
    BY <1>12 DEF DisconnectTip, ChainTypes
  <2>2. ch \in ChainType
    BY <2>1, PrefixType
  <2>3. /\ mempool' = mempool \cup {t \in tip : Accepts(t, mempool, ch)}
        /\ MoveTip(ch, tip) /\ reorgs' = reorgs + 1 /\ reorgs < MaxReorgs
        /\ UNCHANGED lockVars /\ UNCHANGED mapTxLockVotesOrphan
        /\ UNCHANGED tally /\ UNCHANGED mapVotedOutpoints
        /\ UNCHANGED mapLockedOutpoints /\ UNCHANGED mapSafenodeOrphanVotes
        /\ UNCHANGED op /\ UNCHANGED awaiting /\ UNCHANGED pCurrentBlockIndex
        /\ UNCHANGED overrun /\ UNCHANGED forgotten
        /\ UNCHANGED mnodeman /\ UNCHANGED sporks /\ UNCHANGED now
        /\ UNCHANGED restarts /\ UNCHANGED cast
    BY <1>12 DEF DisconnectTip
  <2> HIDE DEF ch, tip
  <2>4. /\ mapTxLockCandidates' \in [Txs -> Heights \cup {Absent}]
        /\ \A u \in Txs : mapTxLockCandidates'[u] # Absent <=> u \in Candidates
        /\ mapTxLockVotes' \in [Votes -> Heights \cup {Absent}]
        /\ chain' \in Seq(SUBSET Txs) /\ Len(chain') <= MaxHeight
        /\ checked' = Absent
    BY <2>2, <2>3, MoveTypes
  <2>5. ChainTypes'
    BY <2>1, <2>3, <2>4 DEF ChainTypes
  <2>6. NodeTypes'
    BY <2>3, BoundAssumption DEF NodeTypes
  <2>7. LockTypes' /\ VoteTypes' /\ WorkTypes'
    BY <2>3, <2>4 DEF LockTypes, VoteTypes, WorkTypes, lockVars, Candidates
  <2> QED BY <2>5, <2>6, <2>7 DEF TypeOK
<1>13. ASSUME CheckAndRemove PROVE TypeOK'
  <2>1. /\ UNCHANGED op /\ UNCHANGED awaiting /\ UNCHANGED chainVars
        /\ UNCHANGED mnodeman /\ UNCHANGED sporks /\ UNCHANGED now
        /\ UNCHANGED restarts /\ UNCHANGED reorgs /\ UNCHANGED cast /\ NoLockHeld
        /\ forgotten' = forgotten \cup Forgotten
    BY <1>13 DEF CheckAndRemove
  <2>2. LockTypes'
    BY <1>13 DEF CheckAndRemove, LockTypes
  <2>3. VoteTypes'
    BY <1>13 DEF CheckAndRemove, VoteTypes
  <2>4. ChainTypes' /\ NodeTypes' /\ WorkTypes'
    BY <2>1, ForgottenType DEF ChainTypes, NodeTypes, WorkTypes, chainVars, NoLockHeld
  <2> QED BY <2>2, <2>3, <2>4 DEF TypeOK
<1>14. ASSUME Restart PROVE TypeOK'
  <2>1. /\ Forget /\ restarts < MaxRestarts /\ restarts' = restarts + 1
        /\ UNCHANGED chain /\ UNCHANGED mnodeman /\ UNCHANGED sporks
        /\ UNCHANGED now /\ UNCHANGED reorgs /\ UNCHANGED cast
        /\ forgotten' = {}
    BY <1>14 DEF Restart, Forget
  <2>2. LockTypes' /\ VoteTypes' /\ ChainTypes'
    BY <2>1 DEF Forget, LockTypes, VoteTypes, ChainTypes
  <2>3. WorkTypes'
    BY <2>1 DEF Forget, NoOp, WorkTypes
  <2>4. NodeTypes'
    BY <2>1, BoundAssumption DEF NodeTypes
  <2> QED BY <2>2, <2>3, <2>4 DEF TypeOK
<1>15. ASSUME Tick PROVE TypeOK'
  <2>1. NodeTypes'
    BY <1>15, BoundAssumption DEF Tick, NodeTypes
  <2>2. LockTypes' /\ VoteTypes' /\ ChainTypes' /\ WorkTypes'
    BY <1>15 DEF Tick, LockTypes, VoteTypes, ChainTypes, WorkTypes, lockVars,
                 voteVars, chainVars, Candidates
  <2> QED BY <2>1, <2>2 DEF TypeOK
<1>16. ASSUME NEW m \in Unstable, SafenodeListChanges(m) PROVE TypeOK'
  <2>1. NodeTypes'
    BY <1>16, BoundAssumption DEF SafenodeListChanges, NodeTypes
  <2>2. LockTypes' /\ VoteTypes' /\ ChainTypes' /\ WorkTypes'
    BY <1>16 DEF SafenodeListChanges, LockTypes, VoteTypes, ChainTypes, WorkTypes,
                 lockVars, voteVars, chainVars, Candidates
  <2> QED BY <2>1, <2>2 DEF TypeOK
<1>17. ASSUME NEW s \in SporkSettings, SporkArrives(s) PROVE TypeOK'
  <2>1. NodeTypes'
    BY <1>17 DEF SporkArrives, NodeTypes
  <2>2. LockTypes' /\ VoteTypes' /\ ChainTypes' /\ WorkTypes'
    BY <1>17 DEF SporkArrives, LockTypes, VoteTypes, ChainTypes, WorkTypes,
                 lockVars, voteVars, chainVars, Candidates
  <2> QED BY <2>1, <2>2 DEF TypeOK
<1>18. CASE UNCHANGED vars
  BY <1>18 DEF vars, TypeOK, LockTypes, VoteTypes, ChainTypes, WorkTypes,
               NodeTypes, lockVars, voteVars, chainVars, envVars, Candidates
<1> QED BY <1>1, <1>2, <1>3, <1>4, <1>5, <1>6, <1>7, <1>8, <1>9, <1>10, <1>11,
           <1>12, <1>13, <1>14, <1>15, <1>16, <1>17, <1>18 DEF Next

\* Every map, the chain and the work in progress keep their type: in particular
\* the candidate a lock-held request works on exists until it is done
\* (TryToFinalizeLockCandidate after ProcessOrphanTxLockVotes).
THEOREM TypeCorrect == Spec => []TypeOK
<1>1. Init => TypeOK
  BY BoundAssumption DEF Init, NoOp, TypeOK, LockTypes, VoteTypes, ChainTypes,
                         WorkTypes, NodeTypes
<1> QED BY <1>1, TypeStep, PTL DEF Spec

----------------------------------------------------------------------------
(* Locks and votes *)

\* Votes for one outpoint of a transaction are at most one per safenode.
LEMMA VotesForFinite ==
  ASSUME NEW T \in SUBSET Votes, NEW t, NEW o
  PROVE  IsFiniteSet(VotesFor(T, t, o)) /\ Cardinality(VotesFor(T, t, o)) \in Nat
<1> DEFINE vote == [s \in Safenodes |-> [tx |-> t, outpoint |-> o, safenode |-> s]]
           all == {vote[s] : s \in Safenodes}
<1>1. vote \in Surjection(Safenodes, all)
  BY DEF Surjection
<1> HIDE DEF vote
<1>2. IsFiniteSet(all)
  <2> HIDE DEF all
  <2> QED BY <1>1, SafenodeAssumption, FS_Surjection
<1>3. VotesFor(T, t, o) \subseteq all
  <2>1. ASSUME NEW v \in VotesFor(T, t, o) PROVE v \in all
    <3>1. v.safenode \in Safenodes /\ v = [tx |-> t, outpoint |-> o, safenode |-> v.safenode]
      BY FieldsOfVotes DEF VotesFor
    <3>2. v = vote[v.safenode]
      BY <3>1 DEF vote
    <3> QED BY <3>1, <3>2
  <2> QED BY <2>1
<1> HIDE DEF all
<1>4. IsFiniteSet(VotesFor(T, t, o))
  BY <1>2, <1>3, FS_Subset
<1> QED BY <1>4, FS_CardinalityType

\* More votes never make an outpoint less ready.
LEMMA ReadyMonotone ==
  ASSUME NEW U \in SUBSET Votes, NEW T \in SUBSET U, NEW t, NEW o, IsReady(T, t, o)
  PROVE  IsReady(U, t, o)
<1>1. VotesFor(T, t, o) \in SUBSET VotesFor(U, t, o)
  BY DEF VotesFor
<1>2. /\ IsFiniteSet(VotesFor(U, t, o))
      /\ Cardinality(VotesFor(U, t, o)) \in Nat
      /\ Cardinality(VotesFor(T, t, o)) \in Nat
  BY VotesForFinite
<1>3. Cardinality(VotesFor(T, t, o)) <= Cardinality(VotesFor(U, t, o))
  BY <1>1, <1>2, FS_Subset
<1> QED BY <1>2, <1>3, BoundAssumption DEF IsReady

\* A step that neither expires nor forgets: votes and candidates only grow, an
\* outpoint is voted only for a candidate, and at most one lock is completed, for
\* a candidate whose votes are there and whose inputs are free.
Grows ==
  /\ tally \subseteq tally' /\ tally' \subseteq InputVotes
  /\ \A t \in Candidates : t \in Candidates'
  /\ \A o \in Outpoints : \A t \in mapVotedOutpoints'[o] :
        t \in mapVotedOutpoints[o] \/ t \in Candidates'
  /\ \/ mapLockedOutpoints' = mapLockedOutpoints
     \/ \E t \in Candidates : /\ mapLockedOutpoints' = LockTransactionInputs(t)
                              /\ IsAllOutPointsReady(tally', t)
                              /\ ~LockConflict(t)

LEMMA StartGrows ==
  ASSUME TypeOK, NEW t \in Txs, NEW orphans \in SUBSET Votes,
         NEW votes \in [Votes -> Heights \cup {Absent}],
         NEW caller \in {"none", "message", "wallet", "vote"},
         StartRequest(t, orphans, votes, caller), UNCHANGED mapLockedOutpoints
  PROVE  Grows
<1>1. LockTypes /\ VoteTypes
  BY DEF TypeOK
<1>2. /\ mapTxLockCandidates'[t] # Absent
      /\ \A u \in Candidates : mapTxLockCandidates'[u] # Absent
      /\ tally' \subseteq InputVotes
  BY <1>1, StartTypes
<1>3. PICK own \in SUBSET InputVotes : Vote(t, own, votes)
  BY DEF StartRequest, OwnChoices, OwnVotes
<1>4. \A o \in Outpoints : \A u \in mapVotedOutpoints'[o] :
         u \in mapVotedOutpoints[o] \/ u = t
  BY <1>3 DEF Vote
<1>5. tally \subseteq tally'
  BY <1>3 DEF Vote
<1> QED BY <1>2, <1>4, <1>5 DEF Grows, Candidates

LEMMA CountGrows ==
  ASSUME TypeOK, NEW v \in Votes, v.tx \in Candidates,
         NEW votes \in [Votes -> Heights \cup {Absent}], CountVote(v, votes)
  PROVE  Grows
<1>1. LockTypes /\ VoteTypes /\ ChainTypes /\ WorkTypes
  BY DEF TypeOK
<1>2. v.tx \in Txs /\ v.outpoint \in Outpoints
  BY FieldsOfVotes
<1>3. /\ LockTypes'
      /\ \A u \in Txs : mapTxLockCandidates'[u] # Absent <=> u \in Candidates
  BY <1>1, CountTypes
<1>4. /\ tally \subseteq tally'
      /\ \A o \in Outpoints : \A t \in mapVotedOutpoints'[o] :
            t \in mapVotedOutpoints[o] \/ t = v.tx
  BY <1>1, <1>2 DEF CountVote, LockTypes
<1>5. \/ mapLockedOutpoints' = mapLockedOutpoints
      \/ /\ mapLockedOutpoints' = LockTransactionInputs(v.tx)
         /\ IsAllOutPointsReady(tally', v.tx) /\ ~LockConflict(v.tx)
  <2>1. CASE ~AddVote(v)
    BY <2>1 DEF CountVote
  <2>2. CASE AddVote(v)
    <3>1. /\ TryToFinalizeLockCandidate(v.tx, tally \cup {v}, votes)
          /\ tally' = tally \cup {v}
      BY <2>2 DEF CountVote
    <3> QED BY <1>1, <1>2, <3>1, FinalizeStep
  <2> QED BY <2>1, <2>2
<1> QED BY <1>2, <1>3, <1>4, <1>5 DEF Grows, Candidates, LockTypes

\* Every step is one of three kinds.
LEMMA StepKinds ==
  ASSUME TypeOK, [Next]_vars
  PROVE  Grows \/ CheckAndRemove \/ Restart
<1>0. LockTypes /\ VoteTypes /\ ChainTypes /\ WorkTypes
  BY DEF TypeOK
<1>a. mapTxLockVotes \in [Votes -> Heights \cup {Absent}] /\ Orphans \subseteq Votes
  BY <1>0 DEF VoteTypes, Orphans
<1>b. ASSUME UNCHANGED <<tally, mapVotedOutpoints, mapLockedOutpoints>>,
             \A t \in Candidates : t \in Candidates'
      PROVE  Grows
  BY <1>0, <1>b DEF Grows, LockTypes
<1>1. ASSUME NEW t \in Txs, ReceiveLockRequest(t) PROVE Grows
  BY <1>1, <1>a, StartGrows DEF ReceiveLockRequest
<1>2. ASSUME NEW t \in Txs, SendLockRequest(t) PROVE Grows
  BY <1>2, <1>a, StartGrows DEF SendLockRequest
<1>3. ASSUME FinishRequest PROVE Grows
  <2>1. op.tx \in Candidates /\ op.tx \in Txs
    BY <1>0, <1>3 DEF FinishRequest, WorkTypes, Candidates
  <2>2. /\ TryToFinalizeLockCandidate(op.tx, tally, mapTxLockVotes)
        /\ tally' = tally /\ mapVotedOutpoints' = mapVotedOutpoints
    BY <1>3 DEF FinishRequest
  <2>3. /\ \A u \in Txs : mapTxLockCandidates'[u] # Absent <=> u \in Candidates
        /\ \/ mapLockedOutpoints' = mapLockedOutpoints
           \/ /\ mapLockedOutpoints' = LockTransactionInputs(op.tx)
              /\ IsAllOutPointsReady(tally, op.tx) /\ ~LockConflict(op.tx)
    BY <1>0, <1>a, <2>1, <2>2, FinalizeStep
  <2> QED BY <1>0, <2>1, <2>2, <2>3 DEF Grows, Candidates, LockTypes
<1>4. ASSUME PoolLockRequest PROVE Grows
  BY <1>4, <1>b DEF PoolLockRequest, voteVars, Candidates
<1>5. ASSUME NEW v \in Votes, ReceiveRefusedVote(v) PROVE Grows
  BY <1>5, <1>b DEF ReceiveRefusedVote, Candidates
<1>6. ASSUME NEW v \in Votes, ReceiveVote(v) PROVE Grows
  BY <1>0, <1>6, CountGrows, RememberedType, ReceivedVote
<1>7. ASSUME NEW v \in Votes, ReceiveOrphanVote(v) PROVE Grows
  <2>1. CASE Reprocessed(v) /\ ~RequestRefused(v.tx, OrphansWith(v))
    <3>1. /\ StartRequest(v.tx, OrphansWith(v), Remembered(v), "vote")
          /\ UNCHANGED mapLockedOutpoints
      BY <1>7, <2>1 DEF ReceiveOrphanVote
    <3>2. OrphansWith(v) \in SUBSET Votes /\ v.tx \in Txs
      BY <1>a, FieldsOfVotes DEF OrphansWith
    <3> QED BY <1>0, <3>1, <3>2, StartGrows, RememberedType
  <2>2. CASE ~(Reprocessed(v) /\ ~RequestRefused(v.tx, OrphansWith(v)))
    BY <1>7, <2>2, <1>b DEF ReceiveOrphanVote, Candidates
  <2> QED BY <2>1, <2>2
<1>8. ASSUME NEW v \in Votes, RetryOrphanVote(v) PROVE Grows
  <2>1. CASE v.tx \in Candidates /\ CountVote(v, mapTxLockVotes)
    BY <1>a, <2>1, CountGrows
  <2>2. CASE UNCHANGED <<mapTxLockVotes, tally, mapVotedOutpoints,
                         mapTxLockCandidates, mapLockedOutpoints, chainVars>>
    BY <2>2, <1>b DEF Candidates
  <2> QED BY <1>8, <2>1, <2>2, RetryKinds
<1>9. ASSUME NEW t \in Txs, ReceiveTx(t) PROVE Grows
  BY <1>9, <1>b DEF ReceiveTx, voteVars, Candidates
<1>10. ASSUME NEW b \in SUBSET Txs, CheckBlock(b) PROVE Grows
  BY <1>10, <1>b DEF CheckBlock, voteVars, Candidates
<1>11. ASSUME ConnectTip PROVE Grows
  <2> DEFINE ch == Append(chain, checked)
             left == {t \in mempool : Spendable(ch, t)}
  <2>1. /\ MoveTip(ch, checked \cup (mempool \ left))
        /\ UNCHANGED <<tally, mapVotedOutpoints, mapLockedOutpoints>>
    BY <1>11 DEF ConnectTip
  <2>2. ch \in ChainType
    <3>1. checked \subseteq Txs /\ Len(chain) < MaxHeight
      BY <1>0, <1>11 DEF ConnectTip, WorkTypes
    <3> QED BY <1>0, <3>1, BoundAssumption DEF ChainTypes, ChainType
  <2> HIDE DEF ch, left
  <2>3. \A u \in Txs : mapTxLockCandidates'[u] # Absent <=> u \in Candidates
    BY <1>0, <2>1, <2>2, MoveTypes
  <2> QED BY <2>1, <2>3, <1>b DEF Candidates
<1>12. ASSUME DisconnectTip PROVE Grows
  <2> DEFINE ch == SubSeq(chain, 1, Len(chain) - 1)
             tip == chain[Len(chain)]
  <2>1. /\ MoveTip(ch, tip)
        /\ UNCHANGED <<tally, mapVotedOutpoints, mapLockedOutpoints>>
    BY <1>12 DEF DisconnectTip
  <2>2. ch \in ChainType
    <3>1. Len(chain) \in Nat /\ Len(chain) # 0
      BY <1>0, <1>12 DEF DisconnectTip, ChainTypes
    <3> QED BY <1>0, <3>1, PrefixType
  <2> HIDE DEF ch, tip
  <2>3. \A u \in Txs : mapTxLockCandidates'[u] # Absent <=> u \in Candidates
    BY <1>0, <2>1, <2>2, MoveTypes
  <2> QED BY <2>1, <2>3, <1>b DEF Candidates
<1>13. ASSUME Tick PROVE Grows
  BY <1>13, <1>b DEF Tick, voteVars, Candidates
<1>14. ASSUME NEW m \in Unstable, SafenodeListChanges(m) PROVE Grows
  BY <1>14, <1>b DEF SafenodeListChanges, voteVars, Candidates
<1>15. ASSUME NEW s \in SporkSettings, SporkArrives(s) PROVE Grows
  BY <1>15, <1>b DEF SporkArrives, voteVars, Candidates
<1>16. CASE UNCHANGED vars
  BY <1>16, <1>b DEF vars, voteVars, Candidates
<1> QED BY <1>1, <1>2, <1>3, <1>4, <1>5, <1>6, <1>7, <1>8, <1>9, <1>10, <1>11,
           <1>12, <1>13, <1>14, <1>15, <1>16 DEF Next

\* mapTxLockCandidates.find(hash) succeeds for every hash that mapVotedOutpoints
\* keeps at an input of that transaction, through expiry, orphan votes and
\* restarts: where Vote and ProcessTxLockVote dereference end(), a vote for an
\* outpoint that its transaction does not spend was let in before.
THEOREM NoDanglingVoteHolds == Spec => []NoDanglingVote
<1>1. Init => NoDanglingVote
  BY DEF Init, NoDanglingVote
<1>2. TypeOK /\ NoDanglingVote /\ [Next]_vars => NoDanglingVote'
  <2> SUFFICES ASSUME TypeOK, NoDanglingVote, [Next]_vars PROVE NoDanglingVote'
    OBVIOUS
  <2>1. CASE Grows
    BY <2>1 DEF Grows, NoDanglingVote
  <2>2. CASE CheckAndRemove
    <3> SUFFICES ASSUME NEW o \in Outpoints, NEW t \in mapVotedOutpoints'[o],
                        o \in Inputs[t]
                 PROVE  t \in Candidates'
      BY DEF NoDanglingVote
    <3>1. o \notin Forgotten /\ t \in mapVotedOutpoints[o]
      BY <2>2 DEF CheckAndRemove
    <3>2. t \in Candidates /\ t \in Txs
      BY <3>1 DEF NoDanglingVote, Candidates
    <3>3. t \notin Expired
      BY <3>1, <3>2 DEF Forgotten
    <3>4. mapTxLockCandidates'[t] = mapTxLockCandidates[t]
      BY <2>2, <3>2, <3>3 DEF CheckAndRemove
    <3> QED BY <3>2, <3>4 DEF Candidates
  <2>3. CASE Restart
    BY <2>3 DEF Restart, Forget, NoDanglingVote
  <2> QED BY <2>1, <2>2, <2>3, StepKinds
<1> QED BY <1>1, <1>2, TypeCorrect, PTL DEF Spec

\* A completed lock is backed by SIGNATURES_REQUIRED votes on every input of its
\* transaction, a candidate that spends the outpoint, until it is given up:
\* neither expiry nor a lock of some other transaction takes them from under it.
THEOREM LockHasQuorumHolds == Spec => []LockHasQuorum
<1>1. Init => LockHasQuorum
  BY DEF Init, LockHasQuorum
<1>2. TypeOK /\ LockHasQuorum /\ [Next]_vars => LockHasQuorum'
  <2> SUFFICES ASSUME TypeOK, LockHasQuorum, [Next]_vars,
                      NEW o \in Outpoints, mapLockedOutpoints'[o] # Absent
               PROVE  LET t == mapLockedOutpoints'[o]
                      IN  /\ t \in Candidates' /\ o \in Inputs[t]
                          /\ \A p \in Inputs[t] : IsReady(tally', t, p)
    BY DEF LockHasQuorum, IsReady
  <2> DEFINE t == mapLockedOutpoints'[o]
  <2>0. tally \subseteq Votes /\ Candidates \subseteq Txs
    BY DEF TypeOK, LockTypes, Candidates, Votes
  <2>a. ASSUME mapLockedOutpoints[o] = t
        PROVE  /\ t \in Candidates /\ o \in Inputs[t]
               /\ \A p \in Inputs[t] : IsReady(tally, t, p)
    BY <2>a DEF LockHasQuorum, IsReady
  <2>1. CASE Grows
    <3>1. CASE mapLockedOutpoints'[o] = mapLockedOutpoints[o]
      <4>1. t \in Candidates' /\ o \in Inputs[t]
        BY <2>1, <2>a, <3>1 DEF Grows
      <4>2. ASSUME NEW p \in Inputs[t] PROVE IsReady(tally', t, p)
        BY <2>1, <2>a, <3>1, ReadyMonotone DEF Grows, Votes
      <4> QED BY <4>1, <4>2
    <3>2. CASE mapLockedOutpoints'[o] # mapLockedOutpoints[o]
      <4>1. PICK u \in Candidates : /\ mapLockedOutpoints' = LockTransactionInputs(u)
                                    /\ IsAllOutPointsReady(tally', u)
        BY <2>1, <3>2 DEF Grows
      <4>2. t = u /\ o \in Inputs[u]
        BY <3>2, <4>1 DEF LockTransactionInputs
      <4>3. u \in Candidates'
        BY <2>1 DEF Grows
      <4> QED BY <4>1, <4>2, <4>3 DEF IsAllOutPointsReady
    <3> QED BY <3>1, <3>2
  <2>2. CASE CheckAndRemove
    <3>1. o \notin Forgotten /\ mapLockedOutpoints[o] = t
      BY <2>2 DEF CheckAndRemove
    <3>2. t \in Candidates /\ o \in Inputs[t] /\ t \in Txs
      BY <2>0, <2>a, <3>1
    <3>3. t \notin Expired
      BY <3>1, <3>2 DEF Forgotten
    <3>4. mapTxLockCandidates'[t] = mapTxLockCandidates[t]
      BY <2>2, <3>2, <3>3 DEF CheckAndRemove
    <3>5. ASSUME NEW p PROVE VotesFor(tally', t, p) = VotesFor(tally, t, p)
      BY <2>2, <3>3 DEF CheckAndRemove, VotesFor
    <3>6. ASSUME NEW p \in Inputs[t] PROVE IsReady(tally', t, p)
      BY <2>a, <3>1, <3>5 DEF IsReady
    <3>7. t \in Candidates'
      BY <3>2, <3>4 DEF Candidates
    <3> QED BY <3>2, <3>6, <3>7
  <2>3. CASE Restart
    BY <2>3 DEF Restart, Forget
  <2> QED BY <2>1, <2>2, <2>3, StepKinds
<1> QED BY <1>1, <1>2, TypeCorrect, PTL DEF Spec

\* CInstantSend keeps the promise of TxLock, whatever the chain, the pool, the
\* safenode list and the sporks do meanwhile: a lock takes all inputs of its
\* transaction at once, with the votes and with no rival lock on any of them.
THEOREM LocksRefine == Spec => ImplementsTxLock
<1>1. Init => Lock!Init
  BY DEF Init, Lock!Init
<1>2. TypeOK /\ [Next]_vars => [Lock!Next]_<<tally, mapLockedOutpoints>>
  <2> SUFFICES ASSUME TypeOK, [Next]_vars
               PROVE  Lock!Next \/ UNCHANGED <<tally, mapLockedOutpoints>>
    OBVIOUS
  <2>0. Lock!Votes = InputVotes
    BY DEF Lock!Votes, InputVotes
  <2>1. CASE Grows
    <3>1. tally \subseteq tally' /\ tally' \subseteq Lock!Votes
      BY <2>0, <2>1 DEF Grows
    <3>2. CASE mapLockedOutpoints' = mapLockedOutpoints
      BY <3>1, <3>2 DEF Lock!Collect, Lock!Next
    <3>3. CASE \E t \in Candidates : /\ mapLockedOutpoints' = LockTransactionInputs(t)
                                     /\ IsAllOutPointsReady(tally', t)
                                     /\ ~LockConflict(t)
      <4>1. PICK t \in Txs : /\ mapLockedOutpoints' = LockTransactionInputs(t)
                             /\ IsAllOutPointsReady(tally', t)
                             /\ ~LockConflict(t)
        BY <3>3 DEF Candidates
      <4>2. ASSUME NEW o \in Inputs[t] PROVE Lock!Quorum(tally', t, o)
        <5>1. Cardinality(VotesFor(tally', t, o)) >= SIGNATURES_REQUIRED
          BY <4>1 DEF IsAllOutPointsReady, IsReady
        <5>2. VotesFor(tally', t, o) = {v \in tally' : v.tx = t /\ v.outpoint = o}
          BY DEF VotesFor
        <5>3. Lock!Cardinality(VotesFor(tally', t, o)) = Cardinality(VotesFor(tally', t, o))
          BY DEF Lock!Cardinality, Cardinality
        <5> QED BY <5>1, <5>2, <5>3 DEF Lock!Quorum
      <4>3. ASSUME NEW o \in Inputs[t] PROVE mapLockedOutpoints[o] \in {Absent, t}
        BY <4>1 DEF LockConflict
      <4>4. mapLockedOutpoints' =
              [o \in Outpoints |-> IF o \in Inputs[t] THEN t ELSE mapLockedOutpoints[o]]
        BY <4>1, <4>3 DEF LockTransactionInputs
      <4>5. Lock!CollectAndLock(t)
        BY <3>1, <4>2, <4>3, <4>4 DEF Lock!CollectAndLock
      <4> QED BY <4>5 DEF Lock!Next
    <3> QED BY <2>1, <3>2, <3>3 DEF Grows
  <2>2. CASE CheckAndRemove
    <3>1. \A o : o \in Forgotten <=> \E t \in Expired : o \in Inputs[t]
      BY DEF Forgotten
    <3>2. mapLockedOutpoints' =
            [o \in Outpoints |-> IF \E t \in Expired : o \in Inputs[t] THEN Absent
                                 ELSE mapLockedOutpoints[o]]
      BY <2>2, <3>1 DEF CheckAndRemove
    <3>3. Lock!Expire(Expired)
      BY <2>2, <3>2 DEF CheckAndRemove, Lock!Expire
    <3>4. Expired \in SUBSET Txs
      BY DEF Expired
    <3> QED BY <3>3, <3>4 DEF Lock!Next
  <2>3. CASE Restart
    BY <2>3 DEF Restart, Forget, Lock!Restart, Lock!Next
  <2> QED BY <2>1, <2>2, <2>3, StepKinds
<1> QED BY <1>1, <1>2, TypeCorrect, PTL DEF Spec, ImplementsTxLock, Lock!Spec

----------------------------------------------------------------------------
(* The chain and the heights of the candidates *)

\* No transaction is in two blocks.
Disjoint(ch) == \A i, j \in DOMAIN ch : i # j => ch[i] \cap ch[j] = {}

LEMMA HeightOf ==
  ASSUME NEW ch, Disjoint(ch), NEW i \in DOMAIN ch, NEW t \in ch[i]
  PROVE  HeightIn(ch, t) = i
<1>1. t \in Mined(ch)
  BY DEF Mined
<1>2. \A j \in DOMAIN ch : t \in ch[j] => j = i
  BY DEF Disjoint
<1> QED BY <1>1, <1>2 DEF HeightIn

LEMMA HeightNowhere ==
  ASSUME NEW ch, NEW t, t \notin Mined(ch) PROVE HeightIn(ch, t) = -1
BY DEF HeightIn

\* A block on top changes the height of its own transactions only.
LEMMA AppendHeights ==
  ASSUME NEW ch \in Seq(SUBSET Txs), Disjoint(ch), NEW b \in SUBSET Txs, b \cap Mined(ch) = {}
  PROVE  /\ Disjoint(Append(ch, b))
         /\ \A t : t \notin b => HeightIn(Append(ch, b), t) = HeightIn(ch, t)
<1> DEFINE up == Append(ch, b)
<1>1. /\ DOMAIN ch = 1..Len(ch) /\ Len(ch) \in Nat
      /\ DOMAIN up = 1..(Len(ch) + 1) /\ up[Len(ch) + 1] = b
      /\ \A i \in 1..Len(ch) : up[i] = ch[i]
  OBVIOUS
<1> HIDE DEF up
<1>2. \A i \in DOMAIN ch : ch[i] \cap b = {}
  BY DEF Mined
<1>3. Disjoint(up)
  BY <1>1, <1>2 DEF Disjoint
<1>4. ASSUME NEW t, t \notin b PROVE HeightIn(up, t) = HeightIn(ch, t)
  <2>1. CASE t \in Mined(ch)
    <3>1. PICK i \in DOMAIN ch : t \in ch[i]
      BY <2>1 DEF Mined
    <3>2. i \in DOMAIN up /\ t \in up[i]
      BY <1>1, <3>1
    <3> QED BY <1>3, <3>1, <3>2, HeightOf
  <2>2. CASE t \notin Mined(ch)
    <3>1. t \notin Mined(up)
      BY <1>1, <1>4, <2>2 DEF Mined
    <3> QED BY <2>2, <3>1, HeightNowhere
  <2> QED BY <2>1, <2>2
<1> QED BY <1>3, <1>4 DEF up

\* Blocks taken off the chain, some of them put back: only their transactions move.
LEMMA PrefixHeights ==
  ASSUME NEW ch \in Seq(SUBSET Txs), Disjoint(ch), NEW base \in Nat, NEW n \in Nat,
         base <= n, n <= Len(ch)
  PROVE  /\ Disjoint(SubSeq(ch, 1, n))
         /\ Mined(SubSeq(ch, 1, n)) \subseteq Mined(ch)
         /\ \A t : t \notin Mined(SubSeq(ch, base + 1, Len(ch)))
               => HeightIn(SubSeq(ch, 1, n), t) = HeightIn(ch, t)
<1> DEFINE low == SubSeq(ch, 1, n)
           tail == SubSeq(ch, base + 1, Len(ch))
<1>1. /\ DOMAIN ch = 1..Len(ch) /\ Len(ch) \in Nat
      /\ DOMAIN low = 1..n /\ \A i \in 1..n : low[i] = ch[i]
  OBVIOUS
<1>2. /\ DOMAIN tail = 1..(Len(ch) - base)
      /\ \A i \in 1..(Len(ch) - base) : tail[i] = ch[base + i]
  BY <1>1
<1> HIDE DEF low, tail
<1>3. Disjoint(low) /\ Mined(low) \subseteq Mined(ch)
  BY <1>1 DEF Disjoint, Mined
<1>4. ASSUME NEW t, t \notin Mined(tail) PROVE HeightIn(low, t) = HeightIn(ch, t)
  <2>1. CASE t \in Mined(ch)
    <3>1. PICK i \in DOMAIN ch : t \in ch[i]
      BY <2>1 DEF Mined
    <3>2. ~(i > base)
      <4> SUFFICES ASSUME i > base PROVE FALSE
        OBVIOUS
      <4>1. i - base \in DOMAIN tail /\ t \in tail[i - base]
        BY <1>1, <1>2, <3>1
      <4> QED BY <1>4, <4>1 DEF Mined
    <3>3. i \in DOMAIN low /\ t \in low[i]
      BY <1>1, <3>1, <3>2
    <3> QED BY <1>3, <3>1, <3>3, HeightOf
  <2>2. CASE t \notin Mined(ch)
    BY <1>3, <2>2, HeightNowhere
  <2> QED BY <2>1, <2>2
<1> QED BY <1>3, <1>4 DEF low, tail

\* Nothing is mined twice, and the block under way holds nothing mined.
MinedOnce ==
  /\ Disjoint(chain)
  /\ checked # Absent => checked \cap Mined(chain) = {}

\* A step keeps MinedOnce, and each height it does not set stays true.
Follows ==
  /\ MinedOnce'
  /\ \A t \in Txs :
        \/ mapTxLockCandidates'[t] \in {Absent, -1, HeightIn(chain', t)}
        \/ /\ mapTxLockCandidates'[t] = mapTxLockCandidates[t]
           /\ HeightIn(chain', t) = HeightIn(chain, t)

\* SyncTransaction for all that moved leaves no stale height behind.
LEMMA SyncFollows ==
  ASSUME NEW ch, NEW T, chain' = ch, mapTxLockCandidates' = SyncCandidates(T, ch),
         \A t : t \notin T => HeightIn(ch, t) = HeightIn(chain, t)
  PROVE  \A t \in Txs :
            \/ mapTxLockCandidates'[t] \in {Absent, -1, HeightIn(chain', t)}
            \/ /\ mapTxLockCandidates'[t] = mapTxLockCandidates[t]
               /\ HeightIn(chain', t) = HeightIn(chain, t)
<1> SUFFICES ASSUME NEW t \in Txs
             PROVE  \/ mapTxLockCandidates'[t] \in {Absent, -1, HeightIn(chain', t)}
                    \/ /\ mapTxLockCandidates'[t] = mapTxLockCandidates[t]
                       /\ HeightIn(chain', t) = HeightIn(chain, t)
  OBVIOUS
<1>1. CASE t \in T
  <2>1. CASE t \in Candidates
    BY <1>1, <2>1 DEF SyncCandidates
  <2>2. CASE t \notin Candidates
    BY <1>1, <2>2 DEF SyncCandidates, Candidates
  <2> QED BY <2>1, <2>2
<1>2. CASE t \notin T
  BY <1>2 DEF SyncCandidates
<1> QED BY <1>1, <1>2

\* What ResolveConflicts leaves of the chain is a prefix of it, and it reports
\* every transaction of the blocks it touched.
LEMMA ResolveHeights ==
  ASSUME ChainTypes, Disjoint(chain), NEW t \in Txs
  PROVE  /\ Disjoint(ResolveConflicts(t).chain)
         /\ \A u : u \notin ResolveConflicts(t).moved
               => HeightIn(ResolveConflicts(t).chain, u) = HeightIn(chain, u)
<1>1. CASE LockConflict(t) \/ Conflicts(t) \cap mempool # {}
             \/ t \in Mined(chain) \/ Spendable(chain, t)
  <2>1. ResolveConflicts(t).chain = chain
    BY <1>1 DEF ResolveConflicts
  <2> QED BY <2>1
<1>2. CASE ~LockConflict(t) /\ Conflicts(t) \cap mempool = {}
             /\ t \notin Mined(chain) /\ ~Spendable(chain, t)
  <2> DEFINE d == ReplayDepth(t)
             base == Len(chain) - d
             again == Cardinality({i \in 1..d :
                          \A j \in 1..i : ~FilteredBy(chain[base + j])})
             n == base + again
  <2>1. ResolveConflicts(t) = Replay(t)
    BY <1>2 DEF ResolveConflicts
  <2>2. /\ Replay(t).chain = SubSeq(chain, 1, n)
        /\ Replay(t).moved = Mined(SubSeq(chain, base + 1, Len(chain)))
    BY DEF Replay
  <2>3. d \in 1..Len(chain) /\ Len(chain) \in Nat /\ chain \in Seq(SUBSET Txs)
    BY <1>2, ReplayBounds DEF ChainTypes
  <2>4. again \in Nat /\ again <= d
    BY <1>2, ReplayBounds
  <2> HIDE DEF d, again
  <2>5. base \in Nat /\ n \in Nat /\ base <= n /\ n <= Len(chain)
    BY <2>3, <2>4
  <2> HIDE DEF base, n
  <2> QED BY <2>1, <2>2, <2>3, <2>5, PrefixHeights
<1> QED BY <1>1, <1>2

LEMMA FinalizeFollows ==
  ASSUME ChainTypes, MinedOnce, NEW t \in Txs, NEW counted, NEW votes,
         TryToFinalizeLockCandidate(t, counted, votes)
  PROVE  Follows
<1> DEFINE r == ResolveConflicts(t)
<1>1. CASE IsAllOutPointsReady(counted, t) /\ ~IsLockedInstantSendTransaction(t)
  <2>1. /\ chain' = r.chain
        /\ mapTxLockCandidates' = SyncCandidates(r.moved, r.chain)
        /\ checked' = (IF r.chain = chain THEN checked ELSE Absent)
    BY <1>1 DEF TryToFinalizeLockCandidate
  <2>2. /\ Disjoint(r.chain)
        /\ \A u : u \notin r.moved => HeightIn(r.chain, u) = HeightIn(chain, u)
    BY ResolveHeights DEF MinedOnce
  <2> HIDE DEF r
  <2>3. MinedOnce'
    BY <2>1, <2>2 DEF MinedOnce
  <2>4. \A u \in Txs :
           \/ mapTxLockCandidates'[u] \in {Absent, -1, HeightIn(chain', u)}
           \/ /\ mapTxLockCandidates'[u] = mapTxLockCandidates[u]
              /\ HeightIn(chain', u) = HeightIn(chain, u)
    BY <2>1, <2>2, SyncFollows
  <2> QED BY <2>3, <2>4 DEF Follows
<1>2. CASE ~(IsAllOutPointsReady(counted, t) /\ ~IsLockedInstantSendTransaction(t))
  <2>1. UNCHANGED <<mapTxLockCandidates, chain, checked>>
    BY <1>2 DEF TryToFinalizeLockCandidate, chainVars
  <2> QED BY <2>1 DEF Follows, MinedOnce
<1> QED BY <1>1, <1>2

\* Every step follows the chain.
LEMMA StepFollows ==
  ASSUME TypeOK, MinedOnce, [Next]_vars
  PROVE  Follows
<1>0. LockTypes /\ ChainTypes /\ WorkTypes
  BY DEF TypeOK
<1>a. ASSUME UNCHANGED <<chain, checked, mapTxLockCandidates>> PROVE Follows
  BY <1>a DEF Follows, MinedOnce
<1>b. ASSUME UNCHANGED <<chain, checked>>, NEW t \in Txs,
             mapTxLockCandidates' = IF t \in Candidates THEN mapTxLockCandidates
                                    ELSE [mapTxLockCandidates EXCEPT ![t] = -1]
      PROVE  Follows
  <2>1. MinedOnce'
    BY <1>b DEF MinedOnce
  <2>2. \A u \in Txs : mapTxLockCandidates'[u] \in {-1, mapTxLockCandidates[u]}
    BY <1>0, <1>b DEF LockTypes
  <2> QED BY <1>b, <2>1, <2>2 DEF Follows
<1>c. ASSUME NEW v \in Votes, NEW votes, CountVote(v, votes) PROVE Follows
  <2>1. CASE ~AddVote(v)
    BY <1>c, <2>1, <1>a DEF CountVote, chainVars
  <2>2. CASE AddVote(v)
    BY <1>0, <1>c, <2>2, FieldsOfVotes, FinalizeFollows DEF CountVote
  <2> QED BY <2>1, <2>2
<1>1. ASSUME NEW t \in Txs, ReceiveLockRequest(t) PROVE Follows
  BY <1>1, <1>b DEF ReceiveLockRequest, StartRequest, chainVars
<1>2. ASSUME NEW t \in Txs, SendLockRequest(t) PROVE Follows
  BY <1>2, <1>b DEF SendLockRequest, StartRequest
<1>3. ASSUME FinishRequest PROVE Follows
  <2>1. op.tx \in Txs
    BY <1>0, <1>3 DEF FinishRequest, WorkTypes, Candidates
  <2> QED BY <1>0, <1>3, <2>1, FinalizeFollows DEF FinishRequest
<1>4. ASSUME PoolLockRequest PROVE Follows
  BY <1>4, <1>a DEF PoolLockRequest
<1>5. ASSUME NEW v \in Votes, ReceiveRefusedVote(v) PROVE Follows
  BY <1>5, <1>a DEF ReceiveRefusedVote, chainVars
<1>6. ASSUME NEW v \in Votes, ReceiveVote(v) PROVE Follows
  BY <1>6, <1>c DEF ReceiveVote
<1>7. ASSUME NEW v \in Votes, ReceiveOrphanVote(v) PROVE Follows
  <2>1. UNCHANGED <<chain, checked>> /\ v.tx \in Txs
    BY <1>7, FieldsOfVotes DEF ReceiveOrphanVote, chainVars
  <2>2. CASE Reprocessed(v) /\ ~RequestRefused(v.tx, OrphansWith(v))
    BY <1>7, <2>1, <2>2, <1>b DEF ReceiveOrphanVote, StartRequest
  <2>3. CASE ~(Reprocessed(v) /\ ~RequestRefused(v.tx, OrphansWith(v)))
    BY <1>7, <2>1, <2>3, <1>a DEF ReceiveOrphanVote
  <2> QED BY <2>2, <2>3
<1>8. ASSUME NEW v \in Votes, RetryOrphanVote(v) PROVE Follows
  <2>1. CASE CountVote(v, mapTxLockVotes)
    BY <2>1, <1>c
  <2>2. CASE UNCHANGED <<mapTxLockVotes, tally, mapVotedOutpoints,
                         mapTxLockCandidates, mapLockedOutpoints, chainVars>>
    BY <2>2, <1>a DEF chainVars
  <2> QED BY <1>8, <2>1, <2>2, RetryKinds
<1>9. ASSUME NEW t \in Txs, ReceiveTx(t) PROVE Follows
  BY <1>9, <1>a DEF ReceiveTx
<1>10. ASSUME NEW b \in SUBSET Txs, CheckBlock(b) PROVE Follows
  <2>1. /\ checked' = b /\ b \cap Mined(chain) = {}
        /\ UNCHANGED <<chain, mapTxLockCandidates>>
    BY <1>10 DEF CheckBlock, BlocksOn
  <2> QED BY <2>1 DEF Follows, MinedOnce
<1>11. ASSUME ConnectTip PROVE Follows
  <2> DEFINE ch == Append(chain, checked)
             left == {t \in mempool : Spendable(ch, t)}
             T == checked \cup (mempool \ left)
  <2>1. /\ chain' = ch /\ checked' = Absent
        /\ mapTxLockCandidates' = SyncCandidates(T, ch)
    BY <1>11 DEF ConnectTip, MoveTip
  <2>2. /\ checked \in SUBSET Txs /\ checked \cap Mined(chain) = {}
        /\ chain \in Seq(SUBSET Txs) /\ Disjoint(chain)
    BY <1>0, <1>11 DEF ConnectTip, WorkTypes, ChainTypes, MinedOnce
  <2>3. Disjoint(ch) /\ \A t : t \notin checked => HeightIn(ch, t) = HeightIn(chain, t)
    BY <2>2, AppendHeights
  <2>4. \A t : t \notin T => HeightIn(ch, t) = HeightIn(chain, t)
    BY <2>3
  <2> HIDE DEF ch, T
  <2>5. MinedOnce'
    BY <2>1, <2>3 DEF MinedOnce
  <2> QED BY <2>1, <2>4, <2>5, SyncFollows DEF Follows
<1>12. ASSUME DisconnectTip PROVE Follows
  <2> DEFINE n == Len(chain) - 1
             ch == SubSeq(chain, 1, n)
             tip == chain[Len(chain)]
  <2>1. /\ chain' = ch /\ checked' = Absent
        /\ mapTxLockCandidates' = SyncCandidates(tip, ch)
    BY <1>12 DEF DisconnectTip, MoveTip
  <2>2. /\ chain \in Seq(SUBSET Txs) /\ Disjoint(chain)
        /\ n \in Nat /\ n <= Len(chain) /\ n + 1 = Len(chain)
    BY <1>0, <1>12 DEF DisconnectTip, ChainTypes, MinedOnce
  <2>3. Mined(SubSeq(chain, n + 1, Len(chain))) = tip
    <3> DEFINE tail == SubSeq(chain, n + 1, Len(chain))
    <3>1. DOMAIN tail = {1} /\ tail[1] = tip
      BY <2>2
    <3> HIDE DEF tail
    <3>2. Mined(tail) = tip
      BY <3>1 DEF Mined
    <3> QED BY <3>2 DEF tail
  <2> HIDE DEF tip, n
  <2>4. Disjoint(ch) /\ \A t : t \notin tip => HeightIn(ch, t) = HeightIn(chain, t)
    BY <2>2, <2>3, PrefixHeights
  <2> HIDE DEF ch
  <2>5. MinedOnce'
    BY <2>1, <2>4 DEF MinedOnce
  <2> QED BY <2>1, <2>4, <2>5, SyncFollows DEF Follows
<1>13. ASSUME CheckAndRemove PROVE Follows
  <2>1. /\ UNCHANGED <<chain, checked>>
        /\ \A t \in Txs : mapTxLockCandidates'[t] \in {Absent, mapTxLockCandidates[t]}
    BY <1>13 DEF CheckAndRemove, chainVars
  <2> QED BY <2>1 DEF Follows, MinedOnce
<1>14. ASSUME Restart PROVE Follows
  BY <1>14 DEF Restart, Forget, Follows, MinedOnce
<1>15. ASSUME Tick PROVE Follows
  BY <1>15, <1>a DEF Tick, chainVars
<1>16. ASSUME NEW m \in Unstable, SafenodeListChanges(m) PROVE Follows
  BY <1>16, <1>a DEF SafenodeListChanges, chainVars
<1>17. ASSUME NEW s \in SporkSettings, SporkArrives(s) PROVE Follows
  BY <1>17, <1>a DEF SporkArrives, chainVars
<1>18. CASE UNCHANGED vars
  BY <1>18, <1>a DEF vars, chainVars
<1> QED BY <1>1, <1>2, <1>3, <1>4, <1>5, <1>6, <1>7, <1>8, <1>9, <1>10, <1>11,
           <1>12, <1>13, <1>14, <1>15, <1>16, <1>17, <1>18 DEF Next

\* nConfirmedHeight, which decides when a lock expires, is the height of the
\* block that holds the transaction: no reorganisation, not even the one inside
\* ResolveConflicts, leaves a candidate with the height of a block that is gone.
THEOREM ConfirmedHeightHolds == Spec => []ConfirmedHeightTrue
<1>1. Init => MinedOnce /\ ConfirmedHeightTrue
  BY DEF Init, MinedOnce, Disjoint, ConfirmedHeightTrue, Candidates
<1>2. TypeOK /\ MinedOnce /\ ConfirmedHeightTrue /\ [Next]_vars
        => MinedOnce' /\ ConfirmedHeightTrue'
  <2> SUFFICES ASSUME TypeOK, MinedOnce, ConfirmedHeightTrue, [Next]_vars
               PROVE  MinedOnce' /\ ConfirmedHeightTrue'
    OBVIOUS
  <2>1. Follows
    BY StepFollows
  <2>2. ASSUME NEW t \in Txs, mapTxLockCandidates'[t] # Absent, mapTxLockCandidates'[t] # -1
        PROVE  mapTxLockCandidates'[t] = HeightIn(chain', t)
    BY <2>1, <2>2 DEF Follows, ConfirmedHeightTrue, Candidates
  <2> QED BY <2>1, <2>2 DEF Follows, ConfirmedHeightTrue, Candidates
<1> QED BY <1>1, <1>2, TypeCorrect, PTL DEF Spec

----------------------------------------------------------------------------
(* One vote per safenode and outpoint *)

\* Two votes of one safenode on one outpoint.
SameBallot(v, w) == v.outpoint = w.outpoint /\ v.safenode = w.safenode

\* mapVotedOutpoints knows what every counted vote spends its outpoint in, until
\* an expiry erases it.
VotesKnown ==
  \A v \in tally : v.outpoint \notin forgotten => v.tx \in mapVotedOutpoints[v.outpoint]

\* What this safenode relayed is its own, and counted until a restart or an expiry.
CastCounted ==
  \A v \in cast : /\ v.safenode = Self
                  /\ restarts = 0 /\ v.outpoint \notin forgotten => v \in tally

BallotInv == VotesKnown /\ CastCounted /\ OneVotePerOutpoint

\* A step that neither expires nor forgets counts votes for one transaction, none
\* by a safenode that mapVotedOutpoints knows to have voted for another one.
Counts(B) ==
  /\ UNCHANGED <<forgotten, restarts>>
  /\ tally' = tally \cup B
  /\ \A v, w \in B : v.tx = w.tx
  /\ \A v \in B, w \in tally :
        SameBallot(v, w) /\ w.tx \in mapVotedOutpoints[w.outpoint] => v.tx = w.tx
  /\ \A o \in Outpoints : mapVotedOutpoints[o] \subseteq mapVotedOutpoints'[o]
  /\ \A v \in B \ tally : v.tx \in mapVotedOutpoints'[v.outpoint]
  /\ cast \subseteq cast' /\ \A v \in cast' \ cast : v \in B /\ v.safenode = Self

LEMMA CountsNothing ==
  ASSUME UNCHANGED <<tally, cast, mapVotedOutpoints, forgotten, restarts>>
  PROVE  \E B \in SUBSET InputVotes : Counts(B)
<1>1. Counts({})
  BY DEF Counts
<1> QED BY <1>1

LEMMA StartCounts ==
  ASSUME LockTypes, NEW t \in Txs, NEW orphans, NEW votes, NEW caller,
         StartRequest(t, orphans, votes, caller), UNCHANGED <<forgotten, restarts>>
  PROVE  \E B \in SUBSET InputVotes : Counts(B)
<1>0. PICK B \in OwnChoices(t) : Vote(t, B, votes)
  BY DEF StartRequest
<1>1. B \in SUBSET InputVotes /\ \A v \in B : /\ v.tx = t /\ v.safenode = Self
                                              /\ ~HasVotedOn(v.outpoint)
  BY DEF OwnChoices, OwnVotes
<1>2. /\ tally' = tally \cup B /\ cast' = cast \cup (B \ tally)
      /\ mapVotedOutpoints' =
            [o \in Outpoints |->
               IF \E v \in B \ tally : v.outpoint = o
               THEN mapVotedOutpoints[o] \cup {t} ELSE mapVotedOutpoints[o]]
  BY <1>0 DEF Vote
<1>3. ASSUME NEW v \in B, NEW w \in tally, SameBallot(v, w),
             w.tx \in mapVotedOutpoints[w.outpoint]
      PROVE  v.tx = w.tx
  BY <1>1, <1>3 DEF HasVotedOn, SameBallot
<1>4. \A v \in B \ tally : v.tx \in mapVotedOutpoints'[v.outpoint]
  BY <1>1, <1>2, InputsOfVotes
<1>5. \A o \in Outpoints : mapVotedOutpoints[o] \subseteq mapVotedOutpoints'[o]
  BY <1>2
<1>6. Counts(B)
  BY <1>1, <1>2, <1>3, <1>4, <1>5 DEF Counts
<1> QED BY <1>1, <1>6

LEMMA VoteCounts ==
  ASSUME LockTypes, NEW v \in Votes, NEW votes, CountVote(v, votes),
         ~VotedForRival(v), UNCHANGED <<forgotten, restarts, cast>>
  PROVE  \E B \in SUBSET InputVotes : Counts(B)
<1> DEFINE B == IF AddVote(v) THEN {v} ELSE {}
<1>1. /\ tally' = tally \cup B /\ B \subseteq InputVotes /\ B \subseteq {v}
      /\ mapVotedOutpoints' = [mapVotedOutpoints EXCEPT ![v.outpoint] = @ \cup {v.tx}]
  BY AddedVotes DEF CountVote
<1> HIDE DEF B
<1>2. ASSUME NEW w \in tally, SameBallot(v, w), w.tx \in mapVotedOutpoints[w.outpoint]
      PROVE  v.tx = w.tx
  <2>1. w = [v EXCEPT !.tx = w.tx]
    <3>1. /\ v \in [tx : Txs, outpoint : Outpoints, safenode : Safenodes]
          /\ w \in [tx : Txs, outpoint : Outpoints, safenode : Safenodes]
      BY <1>2, FieldsOfVotes DEF LockTypes, InputVotes
    <3> QED BY <1>2, <3>1 DEF SameBallot
  <2> QED BY <1>2, <2>1 DEF VotedForRival, SameBallot
<1>3. /\ v.tx \in mapVotedOutpoints'[v.outpoint]
      /\ \A o \in Outpoints : mapVotedOutpoints[o] \subseteq mapVotedOutpoints'[o]
  BY <1>1, FieldsOfVotes DEF LockTypes
<1>4. Counts(B)
  BY <1>1, <1>2, <1>3 DEF Counts
<1> QED BY <1>1, <1>4

\* Every step counts, expires or restarts.
LEMMA StepCounts ==
  ASSUME TypeOK, [Next]_vars
  PROVE  (\E B \in SUBSET InputVotes : Counts(B)) \/ CheckAndRemove \/ Restart
<1> DEFINE Counting == \E B \in SUBSET InputVotes : Counts(B)
<1>0. LockTypes
  BY DEF TypeOK
<1>a. ASSUME UNCHANGED <<tally, cast, mapVotedOutpoints, forgotten, restarts>>
      PROVE  Counting
  BY <1>a, CountsNothing
<1>b. ASSUME NEW t \in Txs, NEW orphans, NEW votes, NEW caller,
             StartRequest(t, orphans, votes, caller), UNCHANGED <<forgotten, restarts>>
      PROVE  Counting
  BY <1>0, <1>b, StartCounts
<1>c. ASSUME NEW v \in Votes, NEW votes, CountVote(v, votes), ~VotedForRival(v),
             UNCHANGED <<forgotten, restarts, cast>>
      PROVE  Counting
  BY <1>0, <1>c, VoteCounts
<1> HIDE DEF Counting
<1>1. ASSUME NEW t \in Txs, ReceiveLockRequest(t) PROVE Counting
  BY <1>1, <1>b DEF ReceiveLockRequest, envVars
<1>2. ASSUME NEW t \in Txs, SendLockRequest(t) PROVE Counting
  BY <1>2, <1>b DEF SendLockRequest, envVars
<1>3. ASSUME FinishRequest PROVE Counting
  BY <1>3, <1>a DEF FinishRequest, envVars
<1>4. ASSUME PoolLockRequest PROVE Counting
  BY <1>4, <1>a DEF PoolLockRequest, voteVars, envVars
<1>5. ASSUME NEW v \in Votes, ReceiveRefusedVote(v) PROVE Counting
  BY <1>5, <1>a DEF ReceiveRefusedVote, envVars
<1>6. ASSUME NEW v \in Votes, ReceiveVote(v) PROVE Counting
  <2>1. UNCHANGED <<forgotten, restarts, cast>>
    BY <1>6 DEF ReceiveVote, envVars
  <2> QED BY <1>6, <2>1, <1>c, ReceivedVote
<1>7. ASSUME NEW v \in Votes, ReceiveOrphanVote(v) PROVE Counting
  <2>1. UNCHANGED <<forgotten, restarts>> /\ v.tx \in Txs
    BY <1>7, FieldsOfVotes DEF ReceiveOrphanVote, envVars
  <2>2. CASE Reprocessed(v) /\ ~RequestRefused(v.tx, OrphansWith(v))
    BY <1>7, <2>1, <2>2, <1>b DEF ReceiveOrphanVote
  <2>3. CASE ~(Reprocessed(v) /\ ~RequestRefused(v.tx, OrphansWith(v)))
    BY <1>7, <2>1, <2>3, <1>a DEF ReceiveOrphanVote
  <2> QED BY <2>2, <2>3
<1>8. ASSUME NEW v \in Votes, RetryOrphanVote(v) PROVE Counting
  <2>1. UNCHANGED <<forgotten, restarts, cast>>
    BY <1>8 DEF RetryOrphanVote, envVars
  <2>2. CASE ~VotedForRival(v) /\ CountVote(v, mapTxLockVotes)
    BY <2>1, <2>2, <1>c
  <2>3. CASE UNCHANGED <<mapTxLockVotes, tally, mapVotedOutpoints,
                         mapTxLockCandidates, mapLockedOutpoints, chainVars>>
    BY <2>1, <2>3, <1>a
  <2> QED BY <1>8, <2>2, <2>3, RetryKinds
<1>9. ASSUME NEW t \in Txs, ReceiveTx(t) PROVE Counting
  BY <1>9, <1>a DEF ReceiveTx, voteVars, envVars
<1>10. ASSUME NEW b \in SUBSET Txs, CheckBlock(b) PROVE Counting
  BY <1>10, <1>a DEF CheckBlock, voteVars, envVars
<1>11. ASSUME ConnectTip PROVE Counting
  BY <1>11, <1>a DEF ConnectTip, envVars
<1>12. ASSUME DisconnectTip PROVE Counting
  BY <1>12, <1>a DEF DisconnectTip
<1>13. ASSUME Tick PROVE Counting
  BY <1>13, <1>a DEF Tick, voteVars
<1>14. ASSUME NEW m \in Unstable, SafenodeListChanges(m) PROVE Counting
  BY <1>14, <1>a DEF SafenodeListChanges, voteVars
<1>15. ASSUME NEW s \in SporkSettings, SporkArrives(s) PROVE Counting
  BY <1>15, <1>a DEF SporkArrives, voteVars
<1>16. ASSUME UNCHANGED vars PROVE Counting
  <2>1. UNCHANGED voteVars /\ UNCHANGED envVars /\ UNCHANGED cast
    BY <1>16 DEF vars
  <2> QED BY <2>1, <1>a DEF voteVars, envVars
<1> QED BY <1>1, <1>2, <1>3, <1>4, <1>5, <1>6, <1>7, <1>8, <1>9, <1>10, <1>11,
           <1>12, <1>13, <1>14, <1>15, <1>16 DEF Next, Counting

LEMMA BallotStep == TypeOK /\ BallotInv /\ [Next]_vars => BallotInv'
<1> SUFFICES ASSUME TypeOK, BallotInv, [Next]_vars PROVE BallotInv'
  OBVIOUS
<1>0. tally \subseteq InputVotes /\ cast \subseteq InputVotes /\ restarts \in Nat
  BY BoundAssumption DEF TypeOK, LockTypes, VoteTypes, NodeTypes
<1>1. ASSUME NEW B \in SUBSET InputVotes, Counts(B) PROVE BallotInv'
  <2>1. \A v, w \in B : v.tx = w.tx
    BY <1>1 DEF Counts
  <2>2. ASSUME NEW v \in B, NEW w \in tally, SameBallot(v, w), v.outpoint \notin forgotten
        PROVE  v.tx = w.tx
    BY <1>1, <2>2 DEF Counts, BallotInv, VotesKnown, SameBallot
  <2>3. OneVotePerOutpoint'
    <3> SUFFICES ASSUME NEW v \in tally', NEW w \in tally', SameBallot(v, w),
                        v.outpoint \notin forgotten
                 PROVE  v.tx = w.tx
      BY <1>1 DEF OneVotePerOutpoint, SameBallot, Counts
    <3>1. v \in tally \cup B /\ w \in tally \cup B
      BY <1>1 DEF Counts
    <3>2. CASE v \in tally /\ w \in tally
      BY <3>2 DEF BallotInv, OneVotePerOutpoint, SameBallot
    <3> QED BY <2>1, <2>2, <3>1, <3>2 DEF SameBallot
  <2>4. VotesKnown'
    BY <1>0, <1>1, InputsOfVotes DEF Counts, BallotInv, VotesKnown
  <2>5. CastCounted'
    BY <1>1 DEF Counts, BallotInv, CastCounted
  <2> QED BY <2>3, <2>4, <2>5 DEF BallotInv
<1>2. CASE CheckAndRemove
  <2>1. /\ forgotten' = forgotten \cup Forgotten
        /\ tally' = {v \in tally : v.tx \notin Expired}
        /\ \A o \in Outpoints : o \notin Forgotten
              => mapVotedOutpoints'[o] = mapVotedOutpoints[o]
        /\ cast' = cast /\ restarts' = restarts
    BY <1>2 DEF CheckAndRemove
  <2>2. OneVotePerOutpoint'
    BY <2>1 DEF BallotInv, OneVotePerOutpoint
  <2>3. VotesKnown'
    BY <1>0, <2>1, InputsOfVotes DEF BallotInv, VotesKnown
  <2>4. ASSUME NEW v \in InputVotes, v.tx \in Expired PROVE v.outpoint \in Forgotten
    BY <2>4, InputsOfVotes DEF Forgotten
  <2>5. CastCounted'
    BY <1>0, <2>1, <2>4 DEF BallotInv, CastCounted
  <2> QED BY <2>2, <2>3, <2>5 DEF BallotInv
<1>3. CASE Restart
  <2>1. tally' = {} /\ cast' = cast /\ restarts' # 0
    BY <1>0, <1>3 DEF Restart, Forget
  <2> QED BY <2>1 DEF BallotInv, VotesKnown, CastCounted, OneVotePerOutpoint
<1> QED BY <1>1, <1>2, <1>3, StepCounts

LEMMA BallotCorrect == Spec => []BallotInv
<1>1. Init => BallotInv
  BY DEF Init, BallotInv, VotesKnown, CastCounted, OneVotePerOutpoint
<1> QED BY <1>1, BallotStep, TypeCorrect, PTL DEF Spec

\* No safenode counts for two transactions that spend the same outpoint, in
\* whatever order its votes, the requests and the orphan votes come in: so two
\* locks on one outpoint need two disjoint sets of SIGNATURES_REQUIRED safenodes.
THEOREM OneVoteHolds == Spec => []OneVotePerOutpoint
<1>1. BallotInv => OneVotePerOutpoint
  BY DEF BallotInv
<1> QED BY <1>1, BallotCorrect, PTL

\* Vote relays no second vote on an outpoint for a rival, as long as this node
\* remembers its first.
THEOREM NeverVotesTwiceHolds == Spec => []NeverVotesTwice
<1>1. BallotInv => NeverVotesTwice
  BY DEF BallotInv, OneVotePerOutpoint, CastCounted, NeverVotesTwice
<1> QED BY <1>1, BallotCorrect, PTL

----------------------------------------------------------------------------
(* The pool and the completed locks *)

\* What a call of TryToFinalizeLockCandidate may do to the pool: it takes in only
\* what no completed lock rules out, and when t is locked no rival stays, unless
\* the blocks ran out.
LEMMA ResolvePool ==
  ASSUME ChainTypes, NEW t \in Txs
  PROVE  /\ overrun \subseteq ResolveConflicts(t).overrun
         /\ \A u \in ResolveConflicts(t).pool \ mempool : ~LockConflict(u)
         /\ ResolveConflicts(t).ok =>
               \/ t \in ResolveConflicts(t).overrun
               \/ ResolveConflicts(t).pool \cap Conflicts(t) = {}
<1> DEFINE rivals == Conflicts(t) \cap mempool
           r == ResolveConflicts(t)
<1>a. t \notin Conflicts(t)
  BY DEF Conflicts
<1>1. CASE LockConflict(t)
  <2>1. r.ok = FALSE /\ r.pool = mempool /\ r.overrun = overrun
    BY <1>1 DEF ResolveConflicts
  <2> QED BY <2>1
<1>2. CASE ~LockConflict(t) /\ rivals # {}
  <2>1. /\ r.overrun = overrun
        /\ \/ r.pool = (mempool \ rivals) \cup {t}
           \/ r.ok = FALSE /\ r.pool = mempool \ rivals
    BY <1>2 DEF ResolveConflicts
  <2> QED BY <1>a, <1>2, <2>1
<1>3. CASE ~LockConflict(t) /\ rivals = {} /\ (t \in Mined(chain) \/ Spendable(chain, t))
  <2>1. r.pool = mempool /\ r.overrun = overrun
    BY <1>3 DEF ResolveConflicts
  <2> QED BY <1>3, <2>1
<1>4. CASE ~LockConflict(t) /\ rivals = {} /\ ~(t \in Mined(chain) \/ Spendable(chain, t))
  <2> DEFINE d == ReplayDepth(t)
             kept == SubSeq(chain, 1, Len(chain) - d)
             moved == Mined(SubSeq(chain, Len(chain) - d + 1, Len(chain)))
             back == mempool \cup {u \in moved : Accepts(u, mempool, kept)}
             gone == IF d < nInstantSendKeepLock THEN Conflicts(t) \cap back ELSE {}
             pool == (back \ gone)
                        \cup (IF gone # {} /\ Spendable(kept, t) THEN {t} ELSE {})
  <2>1. r = Replay(t)
    BY <1>4 DEF ResolveConflicts
  <2>2. Replay(t).overrun = IF d = nInstantSendKeepLock THEN overrun \cup {t} ELSE overrun
    BY DEF Replay
  <2>3. Replay(t).pool \subseteq pool
    BY DEF Replay
  <2>4. d \in Nat /\ d <= nInstantSendKeepLock
    <3>1. d \in 1..Len(chain) /\ Len(chain) \in Nat
      BY <1>4, ReplayBounds DEF ChainTypes
    <3>2. d = nInstantSendKeepLock \/ d <= nInstantSendKeepLock
      BY DEF ReplayDepth
    <3> QED BY <3>1, <3>2, BoundAssumption
  <2>5. \A u \in back \ mempool : ~LockConflict(u)
    BY DEF Accepts
  <2> HIDE DEF d, r, back
  <2>6. pool \subseteq back \cup {t}
    OBVIOUS
  <2>7. ASSUME d # nInstantSendKeepLock PROVE pool \cap Conflicts(t) = {}
    <3>1. d < nInstantSendKeepLock
      BY <2>4, <2>7, BoundAssumption
    <3> QED BY <1>a, <3>1
  <2> HIDE DEF pool
  <2> QED BY <1>4, <2>1, <2>2, <2>3, <2>5, <2>6, <2>7 DEF r
<1> QED BY <1>1, <1>2, <1>3, <1>4

\* The same with the lock that completes.
LEMMA FinalizePool ==
  ASSUME LockTypes, ChainTypes, PoolRespectsLocks, NEW t \in Txs, NEW counted, NEW votes,
         TryToFinalizeLockCandidate(t, counted, votes)
  PROVE  PoolRespectsLocks'
<1> DEFINE r == ResolveConflicts(t)
<1>1. CASE IsAllOutPointsReady(counted, t) /\ ~IsLockedInstantSendTransaction(t)
  <2>1. /\ mapLockedOutpoints' =
             IF r.ok THEN LockTransactionInputs(t) ELSE mapLockedOutpoints
        /\ mempool' = r.pool /\ overrun' = r.overrun
    BY <1>1 DEF TryToFinalizeLockCandidate
  <2>2. /\ overrun \subseteq r.overrun /\ r.pool \subseteq Txs
        /\ \A u \in r.pool \ mempool : ~LockConflict(u)
        /\ r.ok => t \in r.overrun \/ r.pool \cap Conflicts(t) = {}
    BY ResolvePool, ResolveTypes
  <2> HIDE DEF r
  <2> SUFFICES ASSUME NEW u \in mempool', NEW o \in Inputs[u]
               PROVE  mapLockedOutpoints'[o] \in {Absent, u} \cup overrun'
    BY DEF PoolRespectsLocks
  <2>3. u \in r.pool /\ u \in Txs /\ o \in Outpoints
    BY <2>1, <2>2, InputAssumption
  <2>4. mapLockedOutpoints[o] \in {Absent, u} \cup overrun'
    <3>1. CASE u \in mempool
      BY <2>1, <2>2, <3>1 DEF PoolRespectsLocks
    <3>2. CASE u \notin mempool
      BY <2>2, <2>3, <3>2 DEF LockConflict
    <3> QED BY <3>1, <3>2
  <2>5. CASE mapLockedOutpoints'[o] = mapLockedOutpoints[o]
    BY <2>4, <2>5
  <2>6. CASE mapLockedOutpoints'[o] # mapLockedOutpoints[o]
    <3>1. r.ok /\ mapLockedOutpoints'[o] = t /\ o \in Inputs[t]
      BY <2>1, <2>3, <2>6 DEF LockTransactionInputs
    <3>2. u = t \/ u \in Conflicts(t)
      BY <2>3, <3>1 DEF Conflicts
    <3> QED BY <2>1, <2>2, <2>3, <3>1, <3>2
  <2> QED BY <2>5, <2>6
<1>2. CASE ~(IsAllOutPointsReady(counted, t) /\ ~IsLockedInstantSendTransaction(t))
  <2>1. UNCHANGED <<mapLockedOutpoints, mempool, overrun>>
    BY <1>2 DEF TryToFinalizeLockCandidate, chainVars
  <2> QED BY <2>1 DEF PoolRespectsLocks
<1> QED BY <1>1, <1>2

LEMMA PoolStep == TypeOK /\ PoolRespectsLocks /\ [Next]_vars => PoolRespectsLocks'
<1> SUFFICES ASSUME TypeOK, PoolRespectsLocks, [Next]_vars PROVE PoolRespectsLocks'
  OBVIOUS
<1>0. LockTypes /\ ChainTypes /\ WorkTypes
  BY DEF TypeOK
\* The pool takes in transactions that pass AcceptToMemoryPool and loses others.
<1>a. ASSUME UNCHANGED <<mapLockedOutpoints, overrun>>,
             \A u \in mempool' \ mempool : ~LockConflict(u)
      PROVE  PoolRespectsLocks'
  <2>1. ASSUME NEW u \in mempool', NEW o \in Inputs[u]
        PROVE  mapLockedOutpoints[o] \in {Absent, u} \cup overrun
    BY <1>a DEF PoolRespectsLocks, LockConflict
  <2> QED BY <1>a, <2>1 DEF PoolRespectsLocks
<1>b. ASSUME NEW v \in Votes, NEW votes, CountVote(v, votes) PROVE PoolRespectsLocks'
  <2>1. CASE ~AddVote(v)
    BY <1>b, <2>1, <1>a DEF CountVote, chainVars
  <2>2. CASE AddVote(v)
    BY <1>0, <1>b, <2>2, FieldsOfVotes, FinalizePool DEF CountVote
  <2> QED BY <2>1, <2>2
<1>1. ASSUME NEW t \in Txs, ReceiveLockRequest(t) PROVE PoolRespectsLocks'
  BY <1>1, <1>a DEF ReceiveLockRequest, chainVars
<1>2. ASSUME NEW t \in Txs, SendLockRequest(t) PROVE PoolRespectsLocks'
  BY <1>2, <1>a DEF SendLockRequest, Accepts
<1>3. ASSUME FinishRequest PROVE PoolRespectsLocks'
  <2>1. op.tx \in Txs
    BY <1>0, <1>3 DEF FinishRequest, WorkTypes, Candidates
  <2> QED BY <1>0, <1>3, <2>1, FinalizePool DEF FinishRequest
<1>4. ASSUME PoolLockRequest PROVE PoolRespectsLocks'
  <2>1. /\ UNCHANGED <<mapLockedOutpoints, overrun>>
        /\ \A u \in mempool' \ mempool : ~LockConflict(u)
    BY <1>4 DEF PoolLockRequest, Accepts
  <2> QED BY <2>1, <1>a
<1>5. ASSUME NEW v \in Votes, ReceiveRefusedVote(v) PROVE PoolRespectsLocks'
  BY <1>5, <1>a DEF ReceiveRefusedVote, chainVars
<1>6. ASSUME NEW v \in Votes, ReceiveVote(v) PROVE PoolRespectsLocks'
  BY <1>6, <1>b DEF ReceiveVote
<1>7. ASSUME NEW v \in Votes, ReceiveOrphanVote(v) PROVE PoolRespectsLocks'
  BY <1>7, <1>a DEF ReceiveOrphanVote, chainVars
<1>8. ASSUME NEW v \in Votes, RetryOrphanVote(v) PROVE PoolRespectsLocks'
  <2>1. CASE CountVote(v, mapTxLockVotes)
    BY <2>1, <1>b
  <2>2. CASE UNCHANGED <<mapTxLockVotes, tally, mapVotedOutpoints,
                         mapTxLockCandidates, mapLockedOutpoints, chainVars>>
    BY <2>2, <1>a DEF chainVars
  <2> QED BY <1>8, <2>1, <2>2, RetryKinds
<1>9. ASSUME NEW t \in Txs, ReceiveTx(t) PROVE PoolRespectsLocks'
  BY <1>9, <1>a DEF ReceiveTx, Accepts
<1>10. ASSUME NEW b \in SUBSET Txs, CheckBlock(b) PROVE PoolRespectsLocks'
  BY <1>10, <1>a DEF CheckBlock
<1>11. ASSUME ConnectTip PROVE PoolRespectsLocks'
  BY <1>11, <1>a DEF ConnectTip
<1>12. ASSUME DisconnectTip PROVE PoolRespectsLocks'
  BY <1>12, <1>a DEF DisconnectTip, Accepts
<1>13. ASSUME CheckAndRemove PROVE PoolRespectsLocks'
  <2>1. /\ UNCHANGED <<mempool, overrun>> /\ mempool \subseteq Txs
        /\ \A o \in Outpoints : mapLockedOutpoints'[o] \in {Absent, mapLockedOutpoints[o]}
    BY <1>0, <1>13 DEF CheckAndRemove, chainVars, ChainTypes
  <2> QED BY <2>1, InputAssumption DEF PoolRespectsLocks
<1>14. ASSUME Restart PROVE PoolRespectsLocks'
  BY <1>14 DEF Restart, Forget, PoolRespectsLocks
<1>15. ASSUME Tick PROVE PoolRespectsLocks'
  BY <1>15, <1>a DEF Tick, chainVars
<1>16. ASSUME NEW m \in Unstable, SafenodeListChanges(m) PROVE PoolRespectsLocks'
  BY <1>16, <1>a DEF SafenodeListChanges, chainVars
<1>17. ASSUME NEW s \in SporkSettings, SporkArrives(s) PROVE PoolRespectsLocks'
  BY <1>17, <1>a DEF SporkArrives, chainVars
<1>18. CASE UNCHANGED vars
  BY <1>18, <1>a DEF vars, chainVars
<1> QED BY <1>1, <1>2, <1>3, <1>4, <1>5, <1>6, <1>7, <1>8, <1>9, <1>10, <1>11,
           <1>12, <1>13, <1>14, <1>15, <1>16, <1>17, <1>18 DEF Next

\* The pool holds no transaction that spends what is locked for another one,
\* whether the lock came over it or a block gave it back: except a rival of a
\* lock for which ResolveConflicts ran out of blocks.
THEOREM PoolRespectsLocksHolds == Spec => []PoolRespectsLocks
<1>1. Init => PoolRespectsLocks
  BY DEF Init, PoolRespectsLocks
<1> QED BY <1>1, PoolStep, TypeCorrect, PTL DEF Spec

----------------------------------------------------------------------------
(* A lock stays with its transaction *)

\* A candidate that expires was mined, and its block is nInstantSendKeepLock deep.
LEMMA ExpiredIsDeep ==
  ASSUME TypeOK, ConfirmedHeightTrue, NEW o \in Forgotten
  PROVE  SpentDeep(o)
<1>1. PICK t \in Expired : o \in Inputs[t]
  BY DEF Forgotten
<1>2. /\ t \in Txs /\ mapTxLockCandidates[t] \notin {Absent, -1}
      /\ pCurrentBlockIndex - mapTxLockCandidates[t] > nInstantSendKeepLock
  BY <1>1 DEF Expired, IsExpired
<1>3. mapTxLockCandidates[t] = HeightIn(chain, t)
  BY <1>2 DEF ConfirmedHeightTrue, Candidates
<1>4. t \in Mined(chain)
  BY <1>2, <1>3 DEF HeightIn
<1> QED BY <1>1, <1>2, <1>3, <1>4 DEF SpentDeep

\* Once an outpoint is locked for a transaction it is never locked for another,
\* and unlocked only by a restart or deep under the block that spends it: no
\* reorganisation, no expiry of a rival and no vote gives it up earlier.
THEOREM LockNeverMovesHolds == Spec => LockNeverMoves
<1> DEFINE Kept == \A o \in Outpoints :
              mapLockedOutpoints[o] # Absent =>
                  \/ mapLockedOutpoints'[o] = mapLockedOutpoints[o]
                  \/ mapLockedOutpoints'[o] = Absent /\ (restarts' # restarts \/ SpentDeep(o))
<1>1. TypeOK /\ ConfirmedHeightTrue /\ [Next]_vars => Kept
  <2> SUFFICES ASSUME TypeOK, ConfirmedHeightTrue, [Next]_vars,
                      NEW o \in Outpoints, mapLockedOutpoints[o] # Absent
               PROVE  \/ mapLockedOutpoints'[o] = mapLockedOutpoints[o]
                      \/ /\ mapLockedOutpoints'[o] = Absent
                         /\ restarts' # restarts \/ SpentDeep(o)
    OBVIOUS
  <2>1. CASE Grows
    BY <2>1 DEF Grows, LockTransactionInputs
  <2>2. CASE CheckAndRemove
    <3>1. mapLockedOutpoints'[o] = IF o \in Forgotten THEN Absent ELSE mapLockedOutpoints[o]
      BY <2>2 DEF CheckAndRemove
    <3> QED BY <3>1, ExpiredIsDeep
  <2>3. CASE Restart
    <3>1. restarts' = restarts + 1 /\ restarts \in Nat /\ mapLockedOutpoints'[o] = Absent
      BY <2>3, BoundAssumption DEF Restart, Forget, TypeOK, NodeTypes
    <3> QED BY <3>1
  <2> QED BY <2>1, <2>2, <2>3, StepKinds
<1> QED BY <1>1, TypeCorrect, ConfirmedHeightHolds, PTL DEF Spec, LockNeverMoves
=============================================================================

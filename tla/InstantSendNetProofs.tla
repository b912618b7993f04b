------------------------ MODULE InstantSendNetProofs ------------------------
(***************************************************************************)
(* TLAPS proofs about InstantSendNet: agreement of the nodes on locks, for *)
(* every number of nodes and safenodes, every quorum and every way the     *)
(* nodes rank the safenodes, as long as QuorumAssumption holds.            *)
(***************************************************************************)
EXTENDS InstantSendNet, FiniteSetTheorems, TLAPS

\* The safenodes with a vote for t on o in C and that n ranks for o.
Voters(C, n, t, o) ==
    {s \in Top[n][o] : \E v \in C : v.tx = t /\ v.outpoint = o /\ v.safenode = s}

\* What a node counts was cast, by safenodes it ranks.
CountedWasCast ==
    \A n \in Nodes : \A v \in ballots[n] :
        v \in cast /\ v.safenode \in Top[n][v.outpoint]

\* A safenode that did not restart still has its vote and the index to it, unless
\* the outpoint is spent for good.
Remembers ==
    \A v \in cast :
        \/ v.safenode \in forgetful
        \/ v.outpoint \in Spent
        \/ v \in ballots[v.safenode] /\ v.tx \in voted[v.safenode][v.outpoint]

\* Hence it has voted to spend an outpoint in one transaction only.
OneVote ==
    \A v, w \in cast :
        v.safenode = w.safenode /\ v.outpoint = w.outpoint /\ v.safenode \notin forgetful
            => v.tx = w.tx

\* A lock was completed with a quorum of votes on each input.
LockHasVoters ==
    \A n \in Nodes, o \in Outpoints : holder[n][o] # Absent =>
        Cardinality(Voters(cast, n, holder[n][o], o)) >= SIGNATURES_REQUIRED

Forgetting == Cardinality(forgetful) <= MaxForgetful

IInv == /\ TypeOK
        /\ CountedWasCast
        /\ Remembers
        /\ OneVote
        /\ LockHasVoters
        /\ Forgetting

----------------------------------------------------------------------------
LEMMA VoteFields ==
  ASSUME NEW v \in Votes
  PROVE  /\ v.tx \in Txs /\ v.outpoint \in Outpoints /\ v.safenode \in Safenodes
         /\ v.safenode \in Nodes /\ v.outpoint \in Inputs[v.tx]
BY NodeAssumption DEF Votes

LEMMA FiniteTop ==
  ASSUME NEW n \in Nodes, NEW o \in Outpoints, NEW S \in SUBSET Top[n][o]
  PROVE  IsFiniteSet(S) /\ Cardinality(S) \in Nat
<1>1. S \subseteq Safenodes
  BY TopAssumption
<1>2. IsFiniteSet(S)
  BY <1>1, NodeAssumption, FS_Subset
<1> QED BY <1>2, FS_CardinalityType

\* Counted only adds the votes V, and the index to each of them.
LEMMA CountedAdds ==
  ASSUME TypeOK, NEW n \in Nodes, NEW V \in SUBSET Votes, Counted(n, V)
  PROVE  /\ ballots' \in [Nodes -> SUBSET Votes]
         /\ voted' \in [Nodes -> [Outpoints -> SUBSET Txs]]
         /\ ballots'[n] = ballots[n] \cup V
         /\ \A m \in Nodes \ {n} : ballots'[m] = ballots[m] /\ voted'[m] = voted[m]
         /\ \A o \in Outpoints : voted[n][o] \subseteq voted'[n][o]
         /\ \A v \in V : v.tx \in voted'[n][v.outpoint]
<1>1. \A v \in V : v.tx \in Txs /\ v.outpoint \in Outpoints
  BY VoteFields
<1>2. /\ ballots \in [Nodes -> SUBSET Votes]
      /\ voted \in [Nodes -> [Outpoints -> SUBSET Txs]]
  BY DEF TypeOK
<1>3. /\ ballots' \in [Nodes -> SUBSET Votes]
      /\ ballots'[n] = ballots[n] \cup V
      /\ \A m \in Nodes \ {n} : ballots'[m] = ballots[m]
  BY <1>2 DEF Counted
<1> DEFINE now == [o \in Outpoints |->
                     voted[n][o] \cup {v.tx : v \in {w \in V : w.outpoint = o}}]
<1>4. voted' = [voted EXCEPT ![n] = now]
  BY DEF Counted
<1>5. now \in [Outpoints -> SUBSET Txs]
  BY <1>1, <1>2
<1>6. /\ \A o \in Outpoints : voted[n][o] \subseteq now[o]
      /\ \A v \in V : v.tx \in now[v.outpoint]
  BY <1>1
<1> HIDE DEF now
<1> QED BY <1>2, <1>3, <1>4, <1>5, <1>6

\* Completing a lock: its transaction has a quorum of the votes B on each input.
LEMMA FinalizesTypes ==
  ASSUME TypeOK, NEW n \in Nodes, NEW B, NEW t \in Txs, NEW h \in Finalizes(n, B, t)
  PROVE  /\ h \in [Outpoints -> Txs \cup {Absent}]
         /\ \A o \in Outpoints : h[o] # holder[n][o] => h[o] = t /\ Quorum(B, t, o)
BY DEF Finalizes, TypeOK

\* Votes counted by n are votes of safenodes n ranks.
LEMMA QuorumHasVoters ==
  ASSUME NEW n \in Nodes, NEW o \in Outpoints, NEW t \in Txs,
         NEW B \in SUBSET Votes, NEW C,
         \A v \in B : v \in C /\ v.safenode \in Top[n][v.outpoint],
         Quorum(B, t, o)
  PROVE  Cardinality(Voters(C, n, t, o)) >= SIGNATURES_REQUIRED
<1> DEFINE Q == {v \in B : v.tx = t /\ v.outpoint = o}
           S == Voters(C, n, t, o)
           who == [v \in Q |-> v.safenode]
<1>1. who \in [Q -> S]
  BY DEF Voters
<1>2. \A v, w \in Q : who[v] = who[w] => v = w
  BY DEF Votes
<1>3. who \in Injection(Q, S)
  BY <1>1, <1>2 DEF Injection, IsInjective
<1>4. IsFiniteSet(S) /\ Cardinality(S) \in Nat
  BY FiniteTop DEF Voters
<1> HIDE DEF Q, S, who
<1>5. IsFiniteSet(Q) /\ Cardinality(Q) <= Cardinality(S)
  BY <1>3, <1>4, FS_Injection
<1>6. Cardinality(Q) \in Nat
  BY <1>5, FS_CardinalityType
<1>7. Cardinality(Q) >= SIGNATURES_REQUIRED
  BY DEF Quorum, Q
<1>8. Cardinality(S) >= SIGNATURES_REQUIRED
  BY <1>4, <1>5, <1>6, <1>7, QuorumAssumption
<1> QED BY <1>8 DEF S

\* Two quorums on one outpoint have a safenode in common that did not forget.
LEMMA QuorumsMeet ==
  ASSUME NEW n \in Nodes, NEW m \in Nodes, NEW o \in Outpoints,
         NEW P \in SUBSET Top[n][o], NEW Q \in SUBSET Top[m][o],
         Cardinality(P) >= SIGNATURES_REQUIRED, Cardinality(Q) >= SIGNATURES_REQUIRED,
         forgetful \subseteq Safenodes, Forgetting
  PROVE  \E s \in P \cap Q : s \notin forgetful
<1> SUFFICES ASSUME P \cap Q \subseteq forgetful PROVE FALSE
  OBVIOUS
<1>1. /\ IsFiniteSet(P) /\ Cardinality(P) \in Nat
      /\ IsFiniteSet(Q) /\ Cardinality(Q) \in Nat
  BY FiniteTop
<1>2. IsFiniteSet(forgetful) /\ Cardinality(forgetful) \in Nat
  BY NodeAssumption, FS_Subset, FS_CardinalityType
<1>3. Cardinality(P \cap Q) \in Nat /\ Cardinality(P \cap Q) <= MaxForgetful
  <2>1. /\ IsFiniteSet(P \cap Q)
        /\ Cardinality(P \cap Q) <= Cardinality(forgetful)
    BY <1>2, FS_Subset
  <2>2. Cardinality(P \cap Q) \in Nat
    BY <2>1, FS_CardinalityType
  <2> QED BY <1>2, <2>1, <2>2, QuorumAssumption DEF Forgetting
<1>4. /\ IsFiniteSet(P \cup Q)
      /\ Cardinality(P \cup Q) = Cardinality(P) + Cardinality(Q) - Cardinality(P \cap Q)
  BY <1>1, FS_Union
<1>5. Cardinality(P \cup Q) <= Cardinality(Top[n][o] \cup Top[m][o])
  <2>1. IsFiniteSet(Top[n][o] \cup Top[m][o])
    BY FiniteTop, FS_Union
  <2> QED BY <2>1, FS_Subset
<1>6. Cardinality(Top[n][o] \cup Top[m][o]) \in Nat
  BY FiniteTop, FS_Union, FS_CardinalityType
<1>7. 2 * SIGNATURES_REQUIRED > Cardinality(Top[n][o] \cup Top[m][o]) + MaxForgetful
  BY QuorumAssumption
<1> QED BY <1>1, <1>3, <1>4, <1>5, <1>6, <1>7, QuorumAssumption

LEMMA InvAgrees == IInv => Agreement
<1> SUFFICES ASSUME IInv, NEW n \in Nodes, NEW m \in Nodes, NEW o \in Outpoints,
                    holder[n][o] # Absent, holder[m][o] # Absent
             PROVE  holder[n][o] = holder[m][o]
  BY DEF Agreement
<1> DEFINE P == Voters(cast, n, holder[n][o], o)
           Q == Voters(cast, m, holder[m][o], o)
<1>1. /\ P \subseteq Top[n][o] /\ Cardinality(P) >= SIGNATURES_REQUIRED
      /\ Q \subseteq Top[m][o] /\ Cardinality(Q) >= SIGNATURES_REQUIRED
  BY DEF IInv, LockHasVoters, Voters
<1>2. PICK s \in P \cap Q : s \notin forgetful
  BY <1>1, QuorumsMeet DEF IInv, TypeOK
<1>3. PICK v \in cast : v.tx = holder[n][o] /\ v.outpoint = o /\ v.safenode = s
  BY <1>2 DEF Voters
<1>4. PICK w \in cast : w.tx = holder[m][o] /\ w.outpoint = o /\ w.safenode = s
  BY <1>2 DEF Voters
<1> QED BY <1>2, <1>3, <1>4 DEF IInv, OneVote

----------------------------------------------------------------------------
\* More votes, more voters.
LEMMA VotersGrow ==
  ASSUME NEW D, NEW C \in SUBSET D, NEW n \in Nodes, NEW t, NEW o \in Outpoints,
         Cardinality(Voters(C, n, t, o)) >= SIGNATURES_REQUIRED
  PROVE  Cardinality(Voters(D, n, t, o)) >= SIGNATURES_REQUIRED
<1>1. Voters(C, n, t, o) \subseteq Voters(D, n, t, o) /\ Voters(D, n, t, o) \subseteq Top[n][o]
  BY DEF Voters
<1>2. /\ IsFiniteSet(Voters(D, n, t, o)) /\ Cardinality(Voters(D, n, t, o)) \in Nat
      /\ Cardinality(Voters(C, n, t, o)) \in Nat
  BY <1>1, FiniteTop
<1>3. Cardinality(Voters(C, n, t, o)) <= Cardinality(Voters(D, n, t, o))
  BY <1>1, <1>2, FS_Subset
<1> QED BY <1>2, <1>3, QuorumAssumption

\* The locks after n counted votes for t and may have completed its lock.
LEMMA LocksAfterCount ==
  ASSUME TypeOK, LockHasVoters, NEW n \in Nodes, NEW t \in Txs,
         NEW B \in SUBSET Votes, NEW h \in Finalizes(n, B, t),
         cast \subseteq cast', holder' = [holder EXCEPT ![n] = h],
         \A v \in B : v \in cast' /\ v.safenode \in Top[n][v.outpoint]
  PROVE  /\ holder' \in [Nodes -> [Outpoints -> Txs \cup {Absent}]]
         /\ LockHasVoters'
<1>1. /\ h \in [Outpoints -> Txs \cup {Absent}]
      /\ \A o \in Outpoints : h[o] # holder[n][o] => h[o] = t /\ Quorum(B, t, o)
  BY FinalizesTypes
<1>2. holder' \in [Nodes -> [Outpoints -> Txs \cup {Absent}]]
  BY <1>1 DEF TypeOK
<1>3. ASSUME NEW m \in Nodes, NEW o \in Outpoints, holder'[m][o] # Absent
      PROVE  Cardinality(Voters(cast', m, holder'[m][o], o)) >= SIGNATURES_REQUIRED
  <2>1. CASE holder'[m][o] = holder[m][o]
    <3>1. Cardinality(Voters(cast, m, holder[m][o], o)) >= SIGNATURES_REQUIRED
      BY <1>3, <2>1 DEF LockHasVoters
    <3> QED BY <2>1, <3>1, VotersGrow
  <2>2. CASE holder'[m][o] # holder[m][o]
    <3>1. m = n /\ holder'[m][o] = t /\ Quorum(B, t, o)
      BY <1>1, <2>2 DEF TypeOK
    <3>2. Cardinality(Voters(cast', n, t, o)) >= SIGNATURES_REQUIRED
      BY <3>1, QuorumHasVoters
    <3> QED BY <3>1, <3>2
  <2> QED BY <2>1, <2>2
<1> QED BY <1>2, <1>3 DEF LockHasVoters

\* Giving up locks leaves the rest backed.
LEMMA LocksAfterLoss ==
  ASSUME LockHasVoters, cast' = cast,
         \A n \in Nodes, o \in Outpoints : holder'[n][o] \in {Absent, holder[n][o]}
  PROVE  LockHasVoters'
BY DEF LockHasVoters

LEMMA VoteStep ==
  ASSUME IInv, NEW s \in Safenodes, NEW t \in Txs, Vote(s, t)
  PROVE  IInv'
<1> DEFINE V == OwnVotes(s, t)
<1>0. /\ TypeOK /\ CountedWasCast /\ Remembers /\ OneVote /\ LockHasVoters
      /\ Forgetting /\ s \in Nodes
  BY NodeAssumption DEF IInv
<1>1. /\ V \subseteq Votes /\ cast' = cast \cup V /\ Counted(s, V)
      /\ buried' = buried /\ forgetful' = forgetful
  BY DEF Vote, OwnVotes
<1>2. \A v \in V : /\ v.tx = t /\ v.safenode = s /\ s \in Top[s][v.outpoint]
                   /\ v.outpoint \notin Spent /\ ~HasVotedOn(s, v.outpoint)
  BY DEF OwnVotes
<1>3. PICK h \in Finalizes(s, ballots[s] \cup V, t) : holder' = [holder EXCEPT ![s] = h]
  BY DEF Vote
<1> HIDE DEF V
<1>4. /\ ballots' \in [Nodes -> SUBSET Votes]
      /\ voted' \in [Nodes -> [Outpoints -> SUBSET Txs]]
      /\ ballots'[s] = ballots[s] \cup V
      /\ \A m \in Nodes \ {s} : ballots'[m] = ballots[m] /\ voted'[m] = voted[m]
      /\ \A o \in Outpoints : voted[s][o] \subseteq voted'[s][o]
      /\ \A v \in V : v.tx \in voted'[s][v.outpoint]
  BY <1>0, <1>1, CountedAdds
<1>5. CountedWasCast'
  BY <1>0, <1>1, <1>2, <1>4 DEF CountedWasCast, TypeOK
<1>6. Remembers'
  <2> SUFFICES ASSUME NEW v \in cast', v.safenode \notin forgetful, v.outpoint \notin Spent
               PROVE  v \in ballots'[v.safenode] /\ v.tx \in voted'[v.safenode][v.outpoint]
    BY <1>1 DEF Remembers, Spent
  <2>1. CASE v \in V
    BY <1>2, <1>4, <2>1
  <2>2. CASE v \in cast
    <3>1. v \in ballots[v.safenode] /\ v.tx \in voted[v.safenode][v.outpoint]
      BY <1>0, <2>2 DEF Remembers
    <3>2. v.safenode \in Nodes /\ v.outpoint \in Outpoints
      BY <1>0, <2>2, VoteFields DEF TypeOK
    <3> QED BY <1>4, <3>1, <3>2
  <2> QED BY <1>1, <2>1, <2>2
<1>7. OneVote'
  <2>1. ASSUME NEW v \in cast, NEW w \in V, v.safenode = s, v.outpoint = w.outpoint,
               s \notin forgetful
        PROVE  FALSE
    <3>1. v \in ballots[s] /\ v.tx \in voted[s][v.outpoint]
      BY <1>0, <1>2, <2>1 DEF Remembers
    <3> QED BY <1>2, <2>1, <3>1 DEF HasVotedOn
  <2> QED BY <1>0, <1>1, <1>2, <2>1 DEF OneVote
<1>8. /\ holder' \in [Nodes -> [Outpoints -> Txs \cup {Absent}]]
      /\ LockHasVoters'
  <2>1. ballots[s] \cup V \subseteq Votes
    BY <1>0, <1>1 DEF TypeOK
  <2>2. \A v \in ballots[s] \cup V : v \in cast' /\ v.safenode \in Top[s][v.outpoint]
    BY <1>0, <1>1, <1>2 DEF CountedWasCast
  <2> QED BY <1>0, <1>1, <1>3, <2>1, <2>2, LocksAfterCount
<1>9. TypeOK'
  BY <1>0, <1>1, <1>4, <1>8 DEF TypeOK
<1> QED BY <1>0, <1>1, <1>5, <1>6, <1>7, <1>8, <1>9 DEF IInv, Forgetting

LEMMA ReceiveStep ==
  ASSUME IInv, NEW n \in Nodes, NEW v \in Votes, ReceiveVote(n, v)
  PROVE  IInv'
<1>0. /\ TypeOK /\ CountedWasCast /\ Remembers /\ OneVote /\ LockHasVoters /\ Forgetting
  BY DEF IInv
<1>1. /\ v \in cast /\ v.safenode \in Top[n][v.outpoint] /\ Counted(n, {v})
      /\ cast' = cast /\ buried' = buried /\ forgetful' = forgetful
  BY DEF ReceiveVote
<1>2. PICK h \in Finalizes(n, ballots[n] \cup {v}, v.tx) :
         holder' = [holder EXCEPT ![n] = h]
  BY DEF ReceiveVote
<1>3. /\ ballots' \in [Nodes -> SUBSET Votes]
      /\ voted' \in [Nodes -> [Outpoints -> SUBSET Txs]]
      /\ ballots'[n] = ballots[n] \cup {v}
      /\ \A m \in Nodes \ {n} : ballots'[m] = ballots[m] /\ voted'[m] = voted[m]
      /\ \A o \in Outpoints : voted[n][o] \subseteq voted'[n][o]
  BY <1>0, <1>1, CountedAdds
<1>4. CountedWasCast'
  BY <1>0, <1>1, <1>3 DEF CountedWasCast
<1>5. Remembers'
  <2> SUFFICES ASSUME NEW w \in cast, w.safenode \notin forgetful, w.outpoint \notin Spent
               PROVE  w \in ballots'[w.safenode] /\ w.tx \in voted'[w.safenode][w.outpoint]
    BY <1>1 DEF Remembers, Spent
  <2>1. w \in ballots[w.safenode] /\ w.tx \in voted[w.safenode][w.outpoint]
    BY <1>0 DEF Remembers
  <2>2. w.safenode \in Nodes /\ w.outpoint \in Outpoints
    BY <1>0, VoteFields DEF TypeOK
  <2> QED BY <1>3, <2>1, <2>2
<1>6. /\ holder' \in [Nodes -> [Outpoints -> Txs \cup {Absent}]]
      /\ LockHasVoters'
  <2>1. ballots[n] \cup {v} \subseteq Votes /\ v.tx \in Txs
    BY <1>0, VoteFields DEF TypeOK
  <2>2. \A w \in ballots[n] \cup {v} : w \in cast' /\ w.safenode \in Top[n][w.outpoint]
    BY <1>0, <1>1 DEF CountedWasCast
  <2> QED BY <1>0, <1>1, <1>2, <2>1, <2>2, LocksAfterCount
<1>7. TypeOK'
  BY <1>0, <1>1, <1>3, <1>6 DEF TypeOK
<1>8. OneVote' /\ Forgetting'
  BY <1>0, <1>1 DEF OneVote, Forgetting
<1> QED BY <1>4, <1>5, <1>6, <1>7, <1>8 DEF IInv

LEMMA ExpireStep ==
  ASSUME IInv, NEW n \in Nodes, NEW t \in Txs, Expire(n, t)
  PROVE  IInv'
<1>0. /\ TypeOK /\ CountedWasCast /\ Remembers /\ OneVote /\ LockHasVoters /\ Forgetting
  BY DEF IInv
<1>1. /\ t \in buried /\ cast' = cast /\ buried' = buried /\ forgetful' = forgetful
      /\ ballots' = [ballots EXCEPT ![n] = {v \in @ : v.tx # t}]
      /\ voted' = [voted EXCEPT ![n] =
                     [o \in Outpoints |-> IF o \in Inputs[t] THEN {} ELSE @[o]]]
      /\ holder' = [holder EXCEPT ![n] =
                      [o \in Outpoints |-> IF o \in Inputs[t] THEN Absent ELSE @[o]]]
  BY DEF Expire
<1>2. TypeOK'
  BY <1>0, <1>1 DEF TypeOK
<1>3. CountedWasCast'
  BY <1>0, <1>1 DEF CountedWasCast, TypeOK
<1>4. Remembers'
  <2> SUFFICES ASSUME NEW w \in cast, w.safenode \notin forgetful, w.outpoint \notin Spent
               PROVE  w \in ballots'[w.safenode] /\ w.tx \in voted'[w.safenode][w.outpoint]
    BY <1>1 DEF Remembers, Spent
  <2>1. w \in ballots[w.safenode] /\ w.tx \in voted[w.safenode][w.outpoint]
    BY <1>0 DEF Remembers
  <2>2. /\ w.safenode \in Nodes /\ w.outpoint \in Outpoints
        /\ w.outpoint \in Inputs[w.tx] /\ w.outpoint \notin Inputs[t]
    BY <1>0, <1>1, VoteFields DEF TypeOK, Spent
  <2> QED BY <1>0, <1>1, <2>1, <2>2 DEF TypeOK
<1>5. \A m \in Nodes, o \in Outpoints : holder'[m][o] \in {Absent, holder[m][o]}
  BY <1>0, <1>1 DEF TypeOK
<1>6. LockHasVoters'
  BY <1>0, <1>1, <1>5, LocksAfterLoss
<1>7. OneVote' /\ Forgetting'
  BY <1>0, <1>1 DEF OneVote, Forgetting
<1> QED BY <1>2, <1>3, <1>4, <1>6, <1>7 DEF IInv

LEMMA RestartStep ==
  ASSUME IInv, NEW n \in Nodes, Restart(n)
  PROVE  IInv'
<1>0. /\ TypeOK /\ CountedWasCast /\ Remembers /\ OneVote /\ LockHasVoters
  BY DEF IInv
<1>1. /\ cast' = cast /\ buried' = buried
      /\ forgetful' = forgetful \cup {s \in {n} : \E v \in cast : v.safenode = s}
      /\ Cardinality(forgetful') <= MaxForgetful
      /\ ballots' = [ballots EXCEPT ![n] = {}]
      /\ voted' = [voted EXCEPT ![n] = [o \in Outpoints |-> {}]]
      /\ holder' = [holder EXCEPT ![n] = [o \in Outpoints |-> Absent]]
  BY DEF Restart
<1>2. \A v \in cast : v.safenode \in Safenodes /\ v.safenode \in Nodes
  BY <1>0, VoteFields DEF TypeOK
<1>3. TypeOK'
  <2>1. forgetful' \subseteq Safenodes
    BY <1>0, <1>1, <1>2 DEF TypeOK
  <2> QED BY <1>0, <1>1, <2>1 DEF TypeOK
<1>4. CountedWasCast'
  BY <1>0, <1>1 DEF CountedWasCast, TypeOK
<1>5. Remembers'
  <2> SUFFICES ASSUME NEW w \in cast, w.safenode \notin forgetful', w.outpoint \notin Spent
               PROVE  w \in ballots'[w.safenode] /\ w.tx \in voted'[w.safenode][w.outpoint]
    BY <1>1 DEF Remembers, Spent
  <2>1. w.safenode # n /\ w.safenode \notin forgetful
    BY <1>1
  <2>2. w \in ballots[w.safenode] /\ w.tx \in voted[w.safenode][w.outpoint]
    BY <1>0, <2>1 DEF Remembers
  <2> QED BY <1>0, <1>1, <1>2, <2>1, <2>2 DEF TypeOK
<1>6. \A m \in Nodes, o \in Outpoints : holder'[m][o] \in {Absent, holder[m][o]}
  BY <1>0, <1>1 DEF TypeOK
<1>7. LockHasVoters'
  BY <1>0, <1>1, <1>6, LocksAfterLoss
<1>8. OneVote' /\ Forgetting'
  BY <1>0, <1>1 DEF OneVote, Forgetting
<1> QED BY <1>3, <1>4, <1>5, <1>7, <1>8 DEF IInv

LEMMA SpecInv == Spec => []IInv
<1>1. Init => IInv
  <2> SUFFICES ASSUME Init PROVE IInv
    OBVIOUS
  <2>1. TypeOK /\ CountedWasCast /\ Remembers /\ OneVote /\ LockHasVoters
    BY DEF Init, TypeOK, CountedWasCast, Remembers, OneVote, LockHasVoters
  <2>2. Forgetting
    BY FS_EmptySet, QuorumAssumption DEF Init, Forgetting
  <2> QED BY <2>1, <2>2 DEF IInv
<1>2. IInv /\ [Next]_vars => IInv'
  <2> SUFFICES ASSUME IInv, [Next]_vars PROVE IInv'
    OBVIOUS
  <2>1. CASE \E s \in Safenodes, t \in Txs : Vote(s, t)
    BY <2>1, VoteStep
  <2>2. CASE \E n \in Nodes, v \in Votes : ReceiveVote(n, v)
    BY <2>2, ReceiveStep
  <2>3. ASSUME NEW t \in Txs, Bury(t) PROVE IInv'
    <3>1. /\ buried' = buried \cup {t}
          /\ cast' = cast /\ ballots' = ballots /\ voted' = voted
          /\ holder' = holder /\ forgetful' = forgetful
      BY <2>3 DEF Bury
    <3>2. Spent \subseteq Spent'
      BY <3>1 DEF Spent
    <3>3. TypeOK' /\ CountedWasCast' /\ OneVote' /\ LockHasVoters' /\ Forgetting'
      BY <3>1 DEF IInv, TypeOK, CountedWasCast, OneVote, LockHasVoters, Forgetting
    <3>4. Remembers'
      BY <3>1, <3>2 DEF IInv, Remembers
    <3> QED BY <3>3, <3>4 DEF IInv
  <2>4. CASE \E n \in Nodes, t \in Txs : Expire(n, t)
    BY <2>4, ExpireStep
  <2>5. CASE \E n \in Nodes : Restart(n)
    BY <2>5, RestartStep
  <2>6. CASE UNCHANGED vars
    BY <2>6 DEF vars, IInv, TypeOK, CountedWasCast, Remembers, OneVote,
                LockHasVoters, Forgetting, Spent
  <2> QED BY <2>1, <2>2, <2>3, <2>4, <2>5, <2>6 DEF Next
<1> QED BY <1>1, <1>2, PTL DEF Spec

----------------------------------------------------------------------------
\* The votes, locks and burials of the network keep their type.
THEOREM TypeCorrect == Spec => []TypeOK
<1>1. IInv => TypeOK
  BY DEF IInv
<1> QED BY <1>1, SpecInv, PTL

\* Whatever votes reach which node in whatever order, and however the lists of the
\* nodes differ, two nodes never complete locks of an outpoint for different
\* transactions, if QuorumAssumption covers the safenodes that restarted.
THEOREM AgreementHolds == Spec => []Agreement
BY InvAgrees, SpecInv, PTL

\* Every step is a step of TxLock, or none, at every node.
THEOREM EachKeepsTxLockHolds == Spec => EachKeepsTxLock
<1>1. TypeOK /\ [Next]_vars =>
        [\A n \in Nodes : Lock(n)!Next \/ UNCHANGED <<ballots[n], holder[n]>>]_vars
  <2> SUFFICES ASSUME TypeOK, Next, NEW n \in Nodes
               PROVE  Lock(n)!Next \/ UNCHANGED <<ballots[n], holder[n]>>
    OBVIOUS
  <2>0. Lock(n)!Votes = Votes
    BY DEF Lock!Votes, Votes
  <2>a. ASSUME NEW B, NEW t, NEW o, Quorum(B, t, o) PROVE Lock(n)!Quorum(B, t, o)
    <3>1. Lock(n)!Cardinality({v \in B : v.tx = t /\ v.outpoint = o})
             = Cardinality({v \in B : v.tx = t /\ v.outpoint = o})
      BY DEF Lock!Cardinality, Cardinality
    <3> QED BY <2>a, <3>1 DEF Quorum, Lock!Quorum
  <2>b. ASSUME NEW B \in SUBSET Votes, ballots[n] \subseteq B, ballots'[n] = B, NEW t \in Txs,
               NEW h \in Finalizes(n, B, t), holder'[n] = h
        PROVE  Lock(n)!Next
    <3>1. CASE holder'[n] = holder[n]
      BY <2>0, <2>b, <3>1 DEF Lock!Collect, Lock!Next
    <3>2. CASE holder'[n] # holder[n]
      <4>1. /\ \A o \in Inputs[t] : Quorum(B, t, o)
            /\ Free(n, t)
            /\ holder'[n] =
                 [o \in Outpoints |-> IF o \in Inputs[t] THEN t ELSE holder[n][o]]
        BY <2>b, <3>2 DEF Finalizes
      <4>2. \A o \in Inputs[t] : Lock(n)!Quorum(ballots'[n], t, o)
        BY <2>a, <2>b, <4>1
      <4>3. Lock(n)!CollectAndLock(t)
        BY <2>0, <2>b, <4>1, <4>2 DEF Free, Lock!CollectAndLock
      <4> QED BY <4>3 DEF Lock!Next
    <3> QED BY <3>1, <3>2
  <2>1. ASSUME NEW s \in Safenodes, NEW t \in Txs, Vote(s, t)
        PROVE  Lock(n)!Next \/ UNCHANGED <<ballots[n], holder[n]>>
    <3> DEFINE V == OwnVotes(s, t)
    <3>1. Counted(s, V) /\ V \subseteq Votes /\ s \in Nodes
      BY <2>1, NodeAssumption DEF Vote, OwnVotes
    <3>2. PICK h \in Finalizes(s, ballots[s] \cup V, t) : holder' = [holder EXCEPT ![s] = h]
      BY <2>1 DEF Vote
    <3> HIDE DEF V
    <3>3. /\ ballots'[s] = ballots[s] \cup V
          /\ \A m \in Nodes \ {s} : ballots'[m] = ballots[m]
      BY <3>1, CountedAdds
    <3>4. CASE n = s
      <4>1. ballots[s] \cup V \in SUBSET Votes /\ holder'[s] = h
        BY <3>1, <3>2 DEF TypeOK
      <4> QED BY <2>b, <3>2, <3>3, <3>4, <4>1
    <3>5. CASE n # s
      BY <3>2, <3>3, <3>5 DEF TypeOK
    <3> QED BY <3>4, <3>5
  <2>2. ASSUME NEW m \in Nodes, NEW v \in Votes, ReceiveVote(m, v)
        PROVE  Lock(n)!Next \/ UNCHANGED <<ballots[n], holder[n]>>
    <3>1. Counted(m, {v}) /\ v.tx \in Txs
      BY <2>2, VoteFields DEF ReceiveVote
    <3>2. PICK h \in Finalizes(m, ballots[m] \cup {v}, v.tx) :
             holder' = [holder EXCEPT ![m] = h]
      BY <2>2 DEF ReceiveVote
    <3>3. /\ ballots'[m] = ballots[m] \cup {v}
          /\ \A k \in Nodes \ {m} : ballots'[k] = ballots[k]
      BY <3>1, CountedAdds
    <3>4. CASE n = m
      <4>1. ballots[m] \cup {v} \in SUBSET Votes /\ holder'[m] = h
        BY <3>2 DEF TypeOK
      <4> QED BY <2>b, <3>1, <3>2, <3>3, <3>4, <4>1
    <3>5. CASE n # m
      BY <3>2, <3>3, <3>5 DEF TypeOK
    <3> QED BY <3>4, <3>5
  <2>3. ASSUME NEW t \in Txs, Bury(t) PROVE UNCHANGED <<ballots[n], holder[n]>>
    BY <2>3 DEF Bury
  <2>4. ASSUME NEW m \in Nodes, NEW t \in Txs, Expire(m, t)
        PROVE  Lock(n)!Next \/ UNCHANGED <<ballots[n], holder[n]>>
    <3>1. /\ ballots' = [ballots EXCEPT ![m] = {v \in @ : v.tx # t}]
          /\ holder' = [holder EXCEPT ![m] =
                [o \in Outpoints |-> IF o \in Inputs[t] THEN Absent ELSE @[o]]]
      BY <2>4 DEF Expire
    <3>2. CASE n = m
      <4>1. /\ ballots'[n] = {v \in ballots[n] : v.tx \notin {t}}
            /\ holder'[n] = [o \in Outpoints |->
                  IF \E u \in {t} : o \in Inputs[u] THEN Absent ELSE holder[n][o]]
        BY <3>1, <3>2 DEF TypeOK
      <4>2. Lock(n)!Expire({t})
        BY <4>1 DEF Lock!Expire
      <4> QED BY <4>2 DEF Lock!Next
    <3>3. CASE n # m
      BY <3>1, <3>3 DEF TypeOK
    <3> QED BY <3>2, <3>3
  <2>5. ASSUME NEW m \in Nodes, Restart(m)
        PROVE  Lock(n)!Next \/ UNCHANGED <<ballots[n], holder[n]>>
    <3>1. /\ ballots' = [ballots EXCEPT ![m] = {}]
          /\ holder' = [holder EXCEPT ![m] = [o \in Outpoints |-> Absent]]
      BY <2>5 DEF Restart
    <3>2. CASE n = m
      BY <3>1, <3>2 DEF TypeOK, Lock!Restart, Lock!Next
    <3>3. CASE n # m
      BY <3>1, <3>3 DEF TypeOK
    <3> QED BY <3>2, <3>3
  <2> QED BY <2>1, <2>2, <2>3, <2>4, <2>5 DEF Next
<1> QED BY <1>1, TypeCorrect, PTL DEF Spec, EachKeepsTxLock
=============================================================================

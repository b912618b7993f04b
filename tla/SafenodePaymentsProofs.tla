----------------------- MODULE SafenodePaymentsProofs -----------------------
(***************************************************************************)
(* TLAPS proofs about SafenodePayments, for every set of votes, all bounds *)
(* and all distances: the votes and the blocks that list them agree, in    *)
(* memory and in the file, whatever the four threads do.                   *)
(***************************************************************************)
EXTENDS SafenodePayments, TLAPS

\* One copy of the votes and of the blocks, in memory or in the file: what a
\* block lists is verified, and what is verified is listed, up to its age.
Agrees(votes, count, payees, hi) ==
    \A v \in Votes :
       /\ count[v] \in 0 .. 2
       /\ count[v] > 0 => /\ votes[v] = Verified
                          /\ \E i \in DOMAIN payees[v.height] : payees[v.height][i] = v.payee
       /\ votes[v] = Verified => count[v] > 0 \/ TooOld(v.height, hi)

\* A thread that is about to count holds one vote.
HandsOK ==
    \A t \in Voters : \A v, w \in vote[t] : v = w

IInv == /\ TypeOK
        /\ HandsOK
        /\ Agrees(mapSafenodePaymentVotes, counted, vecPayees, highest)
        /\ Agrees(disk.votes, disk.counted, disk.payees, highest)
        /\ AtMostTwice

----------------------------------------------------------------------------
LEMMA VoteFields ==
  ASSUME NEW v \in Votes
  PROVE  /\ v.by \in Safenodes /\ v.height \in Heights /\ v.height \in Nat
         /\ v.payee \in Payees
BY VoteAssumption DEF Heights

\* The payee of a vote that is stored is listed afterwards.
LEMMA ListsPayee ==
  ASSUME NEW v \in Votes, vecPayees \in [Heights -> Seq(Payees)],
         vecPayees' = IF v.payee \in Listed(v.height) THEN vecPayees
                      ELSE [vecPayees EXCEPT ![v.height] = Append(@, v.payee)]
  PROVE  \E i \in DOMAIN vecPayees'[v.height] : vecPayees'[v.height][i] = v.payee
<1>1. v.height \in Heights /\ v.payee \in Payees
  BY VoteFields
<1>2. CASE v.payee \in Listed(v.height)
  BY <1>1, <1>2 DEF Listed
<1>3. CASE v.payee \notin Listed(v.height)
  <2>1. vecPayees'[v.height] = Append(vecPayees[v.height], v.payee)
    BY <1>1, <1>3
  <2>2. vecPayees[v.height] \in Seq(Payees)
    BY <1>1
  <2>3. Len(vecPayees[v.height]) + 1 \in DOMAIN vecPayees'[v.height]
    BY <2>1, <2>2, <1>1
  <2>4. vecPayees'[v.height][Len(vecPayees[v.height]) + 1] = v.payee
    BY <2>1, <2>2, <1>1
  <2> QED BY <2>3, <2>4
<1> QED BY <1>2, <1>3

LEMMA HeightsNat == Heights \subseteq Nat
BY VoteFields DEF Heights

\* What is too old for a tip is too old for a higher one.
LEMMA OlderStays ==
  ASSUME NEW h \in Nat, NEW a \in Nat, NEW b \in Nat, a <= b, TooOld(h, a)
  PROVE  TooOld(h, b)
BY HeightAssumption DEF TooOld

LEMMA AgreesLater ==
  ASSUME NEW votes, NEW count, NEW payees, NEW a \in Nat, NEW b \in Nat, a <= b,
         Agrees(votes, count, payees, a)
  PROVE  Agrees(votes, count, payees, b)
BY OlderStays, VoteFields DEF Agrees

LEMMA EmptyAgrees ==
  ASSUME NEW hi
  PROVE  /\ Agrees(Empty.votes, Empty.counted, Empty.payees, hi)
         /\ Empty \in Files
<1>1. \A v \in Votes : Empty.votes[v] = Absent /\ Empty.counted[v] = 0
  BY DEF Empty
<1>2. Agrees(Empty.votes, Empty.counted, Empty.payees, hi)
  BY <1>1 DEF Agrees, Absent, Verified
<1>3. Empty.payees \in [Heights -> Seq(Payees)]
  BY DEF Empty
<1> QED BY <1>2, <1>3 DEF Empty, Files

LEMMA InitInv == Init => IInv
<1> SUFFICES ASSUME Init PROVE IInv
  OBVIOUS
<1>1. TypeOK
  <2>1. vecPayees \in [Heights -> Seq(Payees)] /\ disk \in Files
    BY EmptyAgrees DEF Init, Files, Empty
  <2>2. FirstTip \in FirstTip .. LastTip
    BY HeightAssumption
  <2> QED BY <2>1, <2>2, HeightAssumption, BoundAssumption
       DEF Init, TypeOK, Empty, Threads, Voters, None
<1>2. HandsOK
  BY DEF Init, HandsOK
<1>3. Agrees(mapSafenodePaymentVotes, counted, vecPayees, highest)
  BY EmptyAgrees DEF Init
<1>4. Agrees(disk.votes, disk.counted, disk.payees, highest)
  BY EmptyAgrees DEF Init
<1>5. AtMostTwice
  <2>1. \A v \in Votes : counted[v] = 0 /\ Pending("net", v) = 0 /\ Pending("chain", v) = 0
    BY DEF Init, Empty, Pending, Threads, Voters
  <2> QED BY <2>1 DEF AtMostTwice
<1> QED BY <1>1, <1>2, <1>3, <1>4, <1>5 DEF IInv

----------------------------------------------------------------------------
LEMMA StoreVoteInv ==
  ASSUME IInv, NEW t \in Voters, StoreVote(t)
  PROVE  IInv'
<1> USE DEF StoreVote, chainVars, Drops, Goes
<1>1. PICK v \in vote[t] :
        /\ mapSafenodePaymentVotes' = [mapSafenodePaymentVotes EXCEPT ![v] = Verified]
        /\ counted' = [counted EXCEPT ![v] = @ + 1]
        /\ vecPayees' = IF v.payee \in Listed(v.height) THEN vecPayees
                        ELSE [vecPayees EXCEPT ![v.height] = Append(@, v.payee)]
  OBVIOUS
<1>2. v \in Votes
  BY DEF IInv, TypeOK
<1>3. v.height \in Heights /\ v.payee \in Payees /\ v.height \in Nat
  BY <1>2, VoteFields
<1>4. vote' = [vote EXCEPT ![t] = {}] /\ pc' = [pc EXCEPT ![t] = "idle"]
  OBVIOUS
<1>5. Pending(t, v) = 1
  BY DEF Pending
<1>6. TypeOK'
  <2>1. vecPayees' \in [Heights -> Seq(Payees)]
    BY <1>1, <1>3 DEF IInv, TypeOK
  <2>2. mapSafenodePaymentVotes' \in [Votes -> {Absent, Unverified, Verified}]
    BY <1>1, <1>2 DEF IInv, TypeOK
  <2>3. counted' \in [Votes -> Nat]
    BY <1>1, <1>2 DEF IInv, TypeOK
  <2> QED BY <1>4, <2>1, <2>2, <2>3 DEF IInv, TypeOK, Voters, Threads
<1>7. HandsOK'
  BY <1>4 DEF IInv, HandsOK, TypeOK, Voters
<1>8. \A w \in Votes : /\ Pending(t, w)' = 0
                       /\ \A u \in Voters \ {t} : Pending(u, w)' = Pending(u, w)
  BY <1>4 DEF Pending, IInv, TypeOK, Voters, Threads
<1>9. \A w \in Votes : Pending("net", w) \in {0, 1} /\ Pending("chain", w) \in {0, 1}
  BY DEF Pending
<1>10. \A w \in Votes : counted'[w] + Pending("net", w)' + Pending("chain", w)' <= 2
  <2> SUFFICES ASSUME NEW w \in Votes
               PROVE  counted'[w] + Pending("net", w)' + Pending("chain", w)' <= 2
    OBVIOUS
  <2>1. counted[w] + Pending("net", w) + Pending("chain", w) <= 2 /\ counted[w] \in Nat
    BY DEF IInv, AtMostTwice, TypeOK
  <2>2. counted'[w] = IF w = v THEN counted[w] + 1 ELSE counted[w]
    BY <1>1, <1>2 DEF IInv, TypeOK
  <2>3. CASE t = "net"
    BY <2>1, <2>2, <2>3, <1>5, <1>8, <1>9 DEF Voters
  <2>4. CASE t = "chain"
    BY <2>1, <2>2, <2>4, <1>5, <1>8, <1>9 DEF Voters
  <2> QED BY <2>3, <2>4 DEF Voters
<1>11. AtMostTwice'
  BY <1>10 DEF AtMostTwice
<1>12. Agrees(mapSafenodePaymentVotes, counted, vecPayees, highest)'
  <2> SUFFICES ASSUME NEW w \in Votes
               PROVE  /\ counted'[w] \in 0 .. 2
                      /\ counted'[w] > 0 =>
                           /\ mapSafenodePaymentVotes'[w] = Verified
                           /\ \E i \in DOMAIN vecPayees'[w.height] : vecPayees'[w.height][i] = w.payee
                      /\ mapSafenodePaymentVotes'[w] = Verified =>
                           counted'[w] > 0 \/ TooOld(w.height, highest)
    BY DEF Agrees, TooOld
  <2>1. /\ counted'[w] = IF w = v THEN counted[w] + 1 ELSE counted[w]
        /\ mapSafenodePaymentVotes'[w] = IF w = v THEN Verified ELSE mapSafenodePaymentVotes[w]
        /\ counted[w] \in Nat
    BY <1>1, <1>2 DEF IInv, TypeOK
  <2>2. counted'[w] \in 0 .. 2
    BY <1>10, <1>8, <1>9, <2>1, <1>5 DEF Voters, Pending
  <2>3. w.height \in Heights /\ vecPayees[w.height] \in Seq(Payees)
    BY VoteFields DEF IInv, TypeOK
  <2>4. \A i \in DOMAIN vecPayees[w.height] :
           i \in DOMAIN vecPayees'[w.height] /\ vecPayees'[w.height][i] = vecPayees[w.height][i]
    <3>1. CASE vecPayees'[w.height] = vecPayees[w.height]
      BY <3>1
    <3>2. CASE vecPayees'[w.height] = Append(vecPayees[w.height], v.payee)
      BY <3>2, <2>3, <1>3
    <3>3. \/ vecPayees'[w.height] = vecPayees[w.height]
          \/ vecPayees'[w.height] = Append(vecPayees[w.height], v.payee)
      BY <1>1, <1>3, <2>3 DEF IInv, TypeOK
    <3> QED BY <3>1, <3>2, <3>3
  <2>5. \E i \in DOMAIN vecPayees'[v.height] : vecPayees'[v.height][i] = v.payee
    <3>1. vecPayees \in [Heights -> Seq(Payees)]
      BY DEF IInv, TypeOK
    <3> QED BY <3>1, <1>1, <1>2, ListsPayee
  <2>6. /\ counted[w] > 0 =>
             /\ mapSafenodePaymentVotes[w] = Verified
             /\ \E i \in DOMAIN vecPayees[w.height] : vecPayees[w.height][i] = w.payee
        /\ mapSafenodePaymentVotes[w] = Verified => counted[w] > 0 \/ TooOld(w.height, highest)
    BY DEF IInv, Agrees
  <2>7. CASE w = v
    BY <2>1, <2>2, <2>5, <2>7
  <2>8. CASE w # v
    BY <2>1, <2>2, <2>4, <2>6, <2>8
  <2> QED BY <2>7, <2>8
<1>13. Agrees(disk.votes, disk.counted, disk.payees, highest)'
  BY DEF IInv, Agrees, TooOld
<1> QED BY <1>6, <1>7, <1>11, <1>12, <1>13 DEF IInv

\* Taking a vote in hand that is not verified, hence not counted.
LEMMA TakesInv ==
  ASSUME IInv, NEW t \in Voters, NEW v \in Votes, IsNew(v), Takes(t, v),
         pc[t] # "adding",
         UNCHANGED <<store, disk, highest>>
  PROVE  HandsOK' /\ AtMostTwice'
<1> USE DEF Takes, Goes, store
<1>1. HandsOK'
  BY DEF IInv, HandsOK, TypeOK, Voters
<1>2. counted[v] = 0
  BY DEF IInv, Agrees, IsNew, HasVerifiedPaymentVote
<1>3. ASSUME NEW w \in Votes
      PROVE  counted'[w] + Pending("net", w)' + Pending("chain", w)' <= 2
  <2>1. \A u \in Voters \ {t} : Pending(u, w)' = Pending(u, w)
    BY DEF Pending, IInv, TypeOK, Voters, Threads
  <2>2. Pending(t, w)' = IF w = v THEN 1 ELSE 0
    BY DEF Pending, IInv, TypeOK, Voters, Threads
  <2>3. Pending("net", w) \in {0, 1} /\ Pending("chain", w) \in {0, 1} /\ Pending(t, w) = 0
    BY DEF Pending
  <2>4. counted'[w] = counted[w] /\ counted[w] \in Nat
    BY DEF IInv, TypeOK
  <2>5. counted[w] + Pending("net", w) + Pending("chain", w) <= 2
    BY DEF IInv, AtMostTwice
  <2>6. CASE t = "net"
    BY <1>2, <2>1, <2>2, <2>3, <2>4, <2>5, <2>6 DEF Voters
  <2>7. CASE t = "chain"
    BY <1>2, <2>1, <2>2, <2>3, <2>4, <2>5, <2>7 DEF Voters
  <2> QED BY <2>6, <2>7 DEF Voters
<1> QED BY <1>1, <1>3 DEF AtMostTwice

LEMMA DropsInv ==
  ASSUME IInv, NEW t \in Voters, Drops(t), UNCHANGED <<store, disk, highest>>
  PROVE  HandsOK' /\ AtMostTwice'
<1> USE DEF Drops, Goes, store
<1>1. HandsOK'
  BY DEF IInv, HandsOK, TypeOK, Voters
<1>2. \A w \in Votes : /\ Pending(t, w)' = 0
                       /\ \A u \in Voters \ {t} : Pending(u, w)' = Pending(u, w)
                       /\ \A u \in Voters : Pending(u, w) \in {0, 1}
  BY DEF Pending, IInv, TypeOK, Voters, Threads
<1>3. \A w \in Votes : counted[w] \in Nat /\ counted'[w] = counted[w]
  BY DEF IInv, TypeOK
<1>4. ASSUME NEW w \in Votes
      PROVE  counted'[w] + Pending("net", w)' + Pending("chain", w)' <= 2
  <2>1. counted[w] + Pending("net", w) + Pending("chain", w) <= 2
    BY DEF IInv, AtMostTwice
  <2>2. Pending("net", w) \in {0, 1} /\ Pending("chain", w) \in {0, 1}
    BY DEF Pending
  <2>3. CASE t = "net"
    BY <1>2, <1>3, <2>1, <2>2, <2>3 DEF Voters
  <2>4. CASE t = "chain"
    BY <1>2, <1>3, <2>1, <2>2, <2>4 DEF Voters
  <2> QED BY <2>3, <2>4 DEF Voters
<1> QED BY <1>1, <1>4 DEF AtMostTwice

\* Nothing but the position of a thread and its vote has changed, if that.
LEMMA SameStore ==
  ASSUME IInv, UNCHANGED <<store, disk, highest>>, TypeOK', HandsOK', AtMostTwice'
  PROVE  IInv'
BY DEF IInv, Agrees, TooOld, store

LEMMA ReceiveVoteInv ==
  ASSUME IInv, NEW v \in Votes, ReceiveVote(v)
  PROVE  IInv'
<1> USE DEF ReceiveVote, Free, Goes, chainVars
<1>1. mapSafenodePaymentVotes' = [mapSafenodePaymentVotes EXCEPT ![v] = Unverified]
  OBVIOUS
<1>2. TypeOK'
  <2>1. mapSafenodePaymentVotes' \in [Votes -> {Absent, Unverified, Verified}]
    BY <1>1 DEF IInv, TypeOK
  <2>2. vote' \in [Voters -> SUBSET Votes]
    BY DEF IInv, TypeOK, Voters
  <2>3. pc' \in [Threads -> {"idle", "checking", "adding", "notifying", "voting", "filled", "dead"}]
    BY DEF IInv, TypeOK, Threads
  <2> QED BY <2>1, <2>2, <2>3 DEF IInv, TypeOK
<1>3. HandsOK'
  <2>1. vote' = vote \/ vote' = [vote EXCEPT !["net"] = {v}]
    OBVIOUS
  <2>2. vote \in [Voters -> SUBSET Votes] /\ \A t \in Voters : \A u, w \in vote[t] : u = w
    BY DEF IInv, HandsOK, TypeOK
  <2>3. \A t \in Voters : vote'[t] = vote[t] \/ vote'[t] = {v}
    BY <2>1, <2>2
  <2> QED BY <2>2, <2>3 DEF HandsOK
<1>4. ASSUME NEW w \in Votes
      PROVE  /\ Pending("net", w)' = 0 /\ Pending("net", w) = 0
             /\ Pending("chain", w)' = Pending("chain", w)
             /\ Pending("chain", w) \in {0, 1}
  <2>1. pc \in [Threads -> {"idle", "checking", "adding", "notifying", "voting", "filled", "dead"}]
        /\ vote \in [Voters -> SUBSET Votes]
    BY DEF IInv, TypeOK
  <2>2. pc'["net"] # "adding" /\ pc["net"] # "adding"
    BY <2>1 DEF Threads
  <2>3. pc'["chain"] = pc["chain"] /\ vote'["chain"] = vote["chain"]
    BY <2>1 DEF Threads, Voters
  <2> QED BY <2>2, <2>3 DEF Pending
<1>5. AtMostTwice'
  <2>1. \A w \in Votes : counted'[w] = counted[w] /\ counted[w] \in Nat
    BY DEF IInv, TypeOK
  <2>2. \A w \in Votes : counted[w] + Pending("net", w) + Pending("chain", w) <= 2
    BY DEF IInv, AtMostTwice
  <2>3. \A w \in Votes : counted'[w] + Pending("net", w)' + Pending("chain", w)' <= 2
    BY <1>4, <2>1, <2>2
  <2> QED BY <2>3 DEF AtMostTwice
<1>6. Agrees(mapSafenodePaymentVotes, counted, vecPayees, highest)'
  <2>1. \A w \in Votes : mapSafenodePaymentVotes'[w] =
                          IF w = v THEN Unverified ELSE mapSafenodePaymentVotes[w]
    BY <1>1 DEF IInv, TypeOK
  <2>2. mapSafenodePaymentVotes[v] = Absent
    BY DEF NotSeen
  <2>3. counted[v] = 0
    BY <2>2 DEF IInv, Agrees, Absent, Verified
  <2> QED BY <2>1, <2>3 DEF IInv, Agrees, TooOld, Unverified, Verified
<1>7. Agrees(disk.votes, disk.counted, disk.payees, highest)'
  BY DEF IInv, Agrees, TooOld
<1> QED BY <1>2, <1>3, <1>5, <1>6, <1>7 DEF IInv

LEMMA CheckVoteInv ==
  ASSUME IInv, RefuseVote \/ CheckVote
  PROVE  IInv'
<1>1. UNCHANGED <<store, disk, highest>>
  BY DEF RefuseVote, CheckVote, store, chainVars
<1>2. /\ vote' \in [Voters -> SUBSET Votes]
      /\ pc' \in [Threads -> {"idle", "checking", "adding", "notifying", "voting", "filled", "dead"}]
  BY DEF RefuseVote, CheckVote, Drops, Takes, Goes, IInv, TypeOK, Voters, Threads
<1>3. mapSafenodesLastVote' \in [Safenodes -> Heights \cup {None}]
  BY VoteFields DEF RefuseVote, CheckVote, HeightNoted, IInv, TypeOK, Voters
<1>4. TypeOK'
  BY <1>1, <1>2, <1>3 DEF RefuseVote, CheckVote, IInv, TypeOK, store, chainVars
<1>5. CASE Drops("net")
  BY <1>1, <1>4, <1>5, DropsInv, SameStore DEF Voters
<1>6. CASE ~Drops("net")
  <2>1. PICK v \in vote["net"] : IsNew(v) /\ Takes("net", v)
    BY <1>6 DEF RefuseVote, CheckVote
  <2>2. v \in Votes /\ pc["net"] # "adding"
    BY DEF RefuseVote, CheckVote, IInv, TypeOK, Voters
  <2> QED BY <1>1, <1>4, <2>1, <2>2, TakesInv, SameStore DEF Voters
<1> QED BY <1>5, <1>6

LEMMA ProcessBlockInv ==
  ASSUME IInv, ProcessBlock
  PROVE  IInv'
<1>1. UNCHANGED <<store, disk, highest>> /\ pc["chain"] = "voting"
  BY DEF ProcessBlock, store, chainVars
<1>2. TypeOK'
  BY DEF ProcessBlock, Takes, Goes, IInv, TypeOK, Voters, Threads, store, chainVars
<1>3. CASE Goes("chain", "idle") /\ UNCHANGED vote
  <2>1. HandsOK'
    BY <1>3 DEF IInv, HandsOK
  <2>2. \A w \in Votes : Pending("chain", w)' = Pending("chain", w)
                        /\ Pending("net", w)' = Pending("net", w)
    BY <1>1, <1>3 DEF Pending, Goes, IInv, TypeOK, Threads
  <2>3. AtMostTwice'
    BY <1>1, <2>2 DEF IInv, AtMostTwice, store
  <2> QED BY <1>1, <1>2, <2>1, <2>3, SameStore
<1>4. CASE ~(Goes("chain", "idle") /\ UNCHANGED vote)
  <2>1. PICK v \in Votes : IsNew(v) /\ Takes("chain", v)
    BY <1>4 DEF ProcessBlock
  <2> QED BY <1>1, <1>2, <2>1, TakesInv, SameStore DEF Voters
<1> QED BY <1>3, <1>4

LEMMA ChainMovesInv ==
  ASSUME IInv,
         \/ \E h \in FirstTip .. LastTip : NewTip(h)
         \/ Disconnect
         \/ FillBlockPayee
         \/ TestBlockValidity
  PROVE  IInv'
<1>1. UNCHANGED <<store, disk, highest, tip, vote, mapSafenodesLastVote, restarts>>
  BY DEF NewTip, Disconnect, FillBlockPayee, TestBlockValidity, chainVars
<1>2. /\ pc' \in [Threads -> {"idle", "checking", "adding", "notifying", "voting", "filled", "dead"}]
      /\ \A t \in Voters : pc'[t] = "adding" <=> pc[t] = "adding"
  <2>. USE DEF IInv, TypeOK, Voters, Threads, Goes, Free
  <2>1. CASE \E h \in FirstTip .. LastTip : NewTip(h)
    BY <2>1 DEF NewTip
  <2>2. CASE Disconnect
    BY <2>2 DEF Disconnect
  <2>3. CASE FillBlockPayee
    BY <2>3 DEF FillBlockPayee
  <2>4. CASE TestBlockValidity
    BY <2>4 DEF TestBlockValidity
  <2> QED BY <2>1, <2>2, <2>3, <2>4
<1>3. chainHeight' \in FirstTip .. LastTip /\ reorgs' \in 0 .. MaxReorgs
  <2>. USE HeightAssumption, BoundAssumption DEF IInv, TypeOK
  <2>1. CASE \E h \in FirstTip .. LastTip : NewTip(h)
    BY <2>1 DEF NewTip
  <2>2. CASE Disconnect
    BY <2>2 DEF Disconnect
  <2>3. CASE FillBlockPayee \/ TestBlockValidity
    BY <2>3 DEF FillBlockPayee, TestBlockValidity, chainVars
  <2> QED BY <2>1, <2>2, <2>3
<1>4. template' \in SUBSET Payees
  <2>1. BestPayees(chainHeight + 1) \in SUBSET Payees
    BY DEF BestPayees, Listed, IInv, TypeOK
  <2> QED BY <2>1 DEF NewTip, Disconnect, FillBlockPayee, TestBlockValidity, IInv, TypeOK
<1>5. TypeOK'
  BY <1>1, <1>2, <1>3, <1>4 DEF IInv, TypeOK, store
<1>6. HandsOK'
  BY <1>1 DEF IInv, HandsOK
<1>7. \A w \in Votes : /\ Pending("net", w)' = Pending("net", w)
                       /\ Pending("chain", w)' = Pending("chain", w)
  BY <1>1, <1>2 DEF Pending, Voters
<1>8. AtMostTwice'
  BY <1>1, <1>7 DEF IInv, AtMostTwice, store
<1> QED BY <1>1, <1>5, <1>6, <1>8, SameStore

\* The tip that is heard of, and what that does to the highest one.
LEMMA HearsOK ==
  ASSUME IInv, Hears, pc["chain"] = "notifying", UNCHANGED vote
  PROVE  /\ tip' \in FirstTip .. LastTip /\ highest' \in FirstTip .. LastTip
         /\ tip' <= highest' /\ highest <= highest' /\ tip <= highest'
         /\ highest \in Nat /\ highest' \in Nat /\ tip \in Nat /\ tip' \in Nat
         /\ pc' \in [Threads -> {"idle", "checking", "adding", "notifying", "voting", "filled", "dead"}]
         /\ HandsOK'
         /\ \A w \in Votes : Pending("chain", w)' = Pending("chain", w)
                             /\ Pending("net", w)' = Pending("net", w)
<1>1. /\ chainHeight \in FirstTip .. LastTip /\ highest \in FirstTip .. LastTip
      /\ tip \in FirstTip .. LastTip /\ tip <= highest
      /\ pc \in [Threads -> {"idle", "checking", "adding", "notifying", "voting", "filled", "dead"}]
  BY DEF IInv, TypeOK
<1>2. /\ tip' \in FirstTip .. LastTip /\ highest' \in FirstTip .. LastTip
      /\ tip' <= highest' /\ highest <= highest' /\ tip <= highest'
      /\ highest \in Nat /\ highest' \in Nat /\ tip \in Nat /\ tip' \in Nat
  BY <1>1, HeightAssumption DEF Hears, Higher
<1>3. pc' = [pc EXCEPT !["chain"] = "voting"]
  BY DEF Hears, Goes
<1>4. pc'["net"] = pc["net"] /\ pc'["chain"] = "voting"
      /\ pc' \in [Threads -> {"idle", "checking", "adding", "notifying", "voting", "filled", "dead"}]
  BY <1>1, <1>3 DEF Threads
<1>5. \A w \in Votes : Pending("chain", w)' = Pending("chain", w)
                       /\ Pending("net", w)' = Pending("net", w)
  BY <1>4 DEF Pending
<1>6. HandsOK'
  BY DEF IInv, HandsOK
<1> QED BY <1>2, <1>4, <1>5, <1>6

LEMMA UpdatedBlockTipInv ==
  ASSUME IInv, UpdatedBlockTip
  PROVE  IInv'
<1>1. Hears /\ pc["chain"] = "notifying" /\ UNCHANGED vote
      /\ UNCHANGED <<chainHeight, reorgs, store, mapSafenodesLastVote, template, disk, restarts>>
  BY DEF UpdatedBlockTip
<1>2. TypeOK'
  BY <1>1, HearsOK DEF IInv, TypeOK, store
<1>3. AtMostTwice'
  BY <1>1, HearsOK DEF IInv, AtMostTwice, store
<1>4. Agrees(mapSafenodePaymentVotes', counted', vecPayees', highest')
  BY <1>1, HearsOK, AgreesLater DEF IInv, store
<1>5. Agrees(disk'.votes, disk'.counted, disk'.payees, highest')
  BY <1>1, HearsOK, AgreesLater DEF IInv, store
<1>6. /\ Agrees(mapSafenodePaymentVotes, counted, vecPayees, highest)'
      /\ Agrees(disk.votes, disk.counted, disk.payees, highest)'
  BY <1>4, <1>5 DEF Agrees, TooOld
<1> QED BY <1>1, <1>2, <1>3, <1>6, HearsOK DEF IInv

\* Forgetting votes that are too old for the highest tip.
LEMMA ForgetsOK ==
  ASSUME IInv, NEW old \in SUBSET Votes, Forgets(old), NEW hi \in Nat, highest <= hi,
         highest \in Nat, \A v \in old : TooOld(v.height, hi)
  PROVE  /\ mapSafenodePaymentVotes' \in [Votes -> {Absent, Unverified, Verified}]
         /\ counted' \in [Votes -> Nat] /\ vecPayees' \in [Heights -> Seq(Payees)]
         /\ \A v \in Votes : counted'[v] <= counted[v]
         /\ Agrees(mapSafenodePaymentVotes', counted', vecPayees', hi)
<1> DEFINE hs == {v.height : v \in old}
<1>1. /\ mapSafenodePaymentVotes' =
            [v \in Votes |-> IF v \in old THEN Absent ELSE mapSafenodePaymentVotes[v]]
      /\ counted' = [v \in Votes |-> IF v.height \in hs THEN 0 ELSE counted[v]]
      /\ vecPayees' = [h \in Heights |-> IF h \in hs THEN <<>> ELSE vecPayees[h]]
  BY DEF Forgets, BlocksErased
<1>2. /\ mapSafenodePaymentVotes \in [Votes -> {Absent, Unverified, Verified}]
      /\ counted \in [Votes -> Nat] /\ vecPayees \in [Heights -> Seq(Payees)]
  BY DEF IInv, TypeOK
<1>3. Agrees(mapSafenodePaymentVotes, counted, vecPayees, hi)
  BY AgreesLater DEF IInv
<1>4. \A h \in hs : TooOld(h, hi)
  OBVIOUS
<1>5. \A v \in old : v.height \in hs
  OBVIOUS
<1>6. \A v \in Votes : v.height \in Heights
  BY VoteFields
<1> HIDE DEF hs
<1>7. ASSUME NEW v \in Votes
      PROVE  /\ counted'[v] \in 0 .. 2
             /\ counted'[v] > 0 =>
                  /\ mapSafenodePaymentVotes'[v] = Verified
                  /\ \E i \in DOMAIN vecPayees'[v.height] : vecPayees'[v.height][i] = v.payee
             /\ mapSafenodePaymentVotes'[v] = Verified => counted'[v] > 0 \/ TooOld(v.height, hi)
  <2>1. CASE v.height \in hs
    BY <2>1, <1>1, <1>4
  <2>2. CASE v.height \notin hs
    <3>1. v \notin old
      BY <2>2, <1>5
    <3>2. /\ mapSafenodePaymentVotes'[v] = mapSafenodePaymentVotes[v]
          /\ counted'[v] = counted[v] /\ vecPayees'[v.height] = vecPayees[v.height]
      BY <2>2, <3>1, <1>1, <1>6
    <3> QED BY <3>2, <1>3 DEF Agrees
  <2> QED BY <2>1, <2>2
<1>8. Agrees(mapSafenodePaymentVotes', counted', vecPayees', hi)
  BY <1>7 DEF Agrees
<1>9. <<>> \in Seq(Payees)
  OBVIOUS
<1> QED BY <1>1, <1>2, <1>8, <1>9

LEMMA CheckAndRemoveInv ==
  ASSUME IInv, CheckAndRemove
  PROVE  IInv'
<1> DEFINE old == {v \in Stored : Forgettable(v.height, tip)}
<1>1. Forgets(old) /\ old \in SUBSET Votes
      /\ UNCHANGED <<chainVars, mapSafenodesLastVote, pc, vote, template, disk, restarts>>
  BY DEF CheckAndRemove, Stored
<1>2. tip \in Nat /\ highest \in Nat /\ tip <= highest
  BY HeightAssumption DEF IInv, TypeOK
<1>3. \A v \in old : TooOld(v.height, highest)
  BY <1>2, VoteFields, HeightAssumption DEF TooOld, Forgettable, Stored
<1> HIDE DEF old
<1>4. /\ mapSafenodePaymentVotes' \in [Votes -> {Absent, Unverified, Verified}]
      /\ counted' \in [Votes -> Nat] /\ vecPayees' \in [Heights -> Seq(Payees)]
      /\ \A v \in Votes : counted'[v] <= counted[v]
      /\ Agrees(mapSafenodePaymentVotes', counted', vecPayees', highest)
  BY <1>1, <1>2, <1>3, ForgetsOK
<1>5. TypeOK'
  BY <1>1, <1>4 DEF IInv, TypeOK, chainVars
<1>6. HandsOK'
  BY <1>1 DEF IInv, HandsOK
<1>7. \A w \in Votes : /\ Pending("net", w)' = Pending("net", w)
                       /\ Pending("chain", w)' = Pending("chain", w)
                       /\ Pending("net", w) \in {0, 1} /\ Pending("chain", w) \in {0, 1}
  BY <1>1 DEF Pending
<1>8. AtMostTwice'
  <2>1. \A w \in Votes : counted[w] \in Nat /\ counted'[w] \in Nat
    BY <1>4 DEF IInv, TypeOK
  <2>2. \A w \in Votes : counted[w] + Pending("net", w) + Pending("chain", w) <= 2
    BY DEF IInv, AtMostTwice
  <2>3. \A w \in Votes : counted'[w] + Pending("net", w)' + Pending("chain", w)' <= 2
    BY <1>4, <1>7, <2>1, <2>2
  <2> QED BY <2>3 DEF AtMostTwice
<1>9. Agrees(mapSafenodePaymentVotes, counted, vecPayees, highest)'
  BY <1>1, <1>4 DEF Agrees, TooOld, chainVars
<1>10. Agrees(disk.votes, disk.counted, disk.payees, highest)'
  BY <1>1 DEF IInv, Agrees, TooOld, chainVars
<1> QED BY <1>5, <1>6, <1>8, <1>9, <1>10 DEF IInv

LEMMA SweepAcrossTipInv ==
  ASSUME IInv, SweepAcrossTip
  PROVE  IInv'
<1>1. /\ Hears /\ pc["chain"] = "notifying" /\ UNCHANGED vote
      /\ UNCHANGED <<chainHeight, reorgs, mapSafenodesLastVote, template, disk, restarts>>
  BY DEF SweepAcrossTip
<1>2. PICK early \in SUBSET Stored :
         Forgets({v \in Stored : Forgettable(v.height, IF v \in early THEN tip ELSE tip')})
  BY DEF SweepAcrossTip
<1> DEFINE old == {v \in Stored : Forgettable(v.height, IF v \in early THEN tip ELSE tip')}
<1>3. Forgets(old) /\ old \in SUBSET Votes
  BY <1>2 DEF Stored
<1>4. \A v \in old : TooOld(v.height, highest')
  BY <1>1, HearsOK, VoteFields, HeightAssumption DEF TooOld, Forgettable, Stored
<1> HIDE DEF old
<1>5. /\ mapSafenodePaymentVotes' \in [Votes -> {Absent, Unverified, Verified}]
      /\ counted' \in [Votes -> Nat] /\ vecPayees' \in [Heights -> Seq(Payees)]
      /\ \A v \in Votes : counted'[v] <= counted[v]
      /\ Agrees(mapSafenodePaymentVotes', counted', vecPayees', highest')
  BY <1>1, <1>3, <1>4, HearsOK, ForgetsOK
<1>6. TypeOK'
  BY <1>1, <1>5, HearsOK DEF IInv, TypeOK
<1>7. AtMostTwice'
  <2>1. \A w \in Votes : counted[w] \in Nat /\ counted'[w] \in Nat
    BY <1>5 DEF IInv, TypeOK
  <2>2. \A w \in Votes : counted[w] + Pending("net", w) + Pending("chain", w) <= 2
    BY DEF IInv, AtMostTwice
  <2>3. \A w \in Votes : Pending("net", w) \in {0, 1} /\ Pending("chain", w) \in {0, 1}
    BY DEF Pending
  <2>4. \A w \in Votes : counted'[w] + Pending("net", w)' + Pending("chain", w)' <= 2
    <3>1. \A w \in Votes : Pending("chain", w)' = Pending("chain", w)
                          /\ Pending("net", w)' = Pending("net", w)
      BY <1>1, HearsOK
    <3> QED BY <1>5, <2>1, <2>2, <2>3, <3>1
  <2> QED BY <2>4 DEF AtMostTwice
<1>8. Agrees(disk.votes, disk.counted, disk.payees, highest')
  BY <1>1, HearsOK, AgreesLater DEF IInv
<1>9. /\ Agrees(mapSafenodePaymentVotes, counted, vecPayees, highest)'
      /\ Agrees(disk.votes, disk.counted, disk.payees, highest)'
  BY <1>1, <1>5, <1>8 DEF Agrees, TooOld
<1> QED BY <1>1, <1>6, <1>7, <1>9, HearsOK DEF IInv

\* A node that starts takes the file over, or nothing.
LEMMA StartInv ==
  ASSUME IInv, NEW file \in Files, NEW h \in FirstTip .. LastTip, Start(file, h),
         Agrees(file.votes, file.counted, file.payees, highest),
         disk' \in Files, Agrees(disk'.votes, disk'.counted, disk'.payees, highest)
  PROVE  IInv'
<1>1. PICK from \in {file, Empty} :
        /\ mapSafenodePaymentVotes' = from.votes /\ counted' = from.counted
        /\ vecPayees' = from.payees
  BY DEF Start
<1>2. from \in Files /\ Agrees(from.votes, from.counted, from.payees, highest)
  BY EmptyAgrees
<1>3. /\ highest \in Nat /\ highest' \in Nat /\ highest <= highest'
      /\ highest' \in FirstTip .. LastTip /\ tip' = h /\ tip' <= highest'
  BY HeightAssumption DEF Start, Higher, IInv, TypeOK
<1>4. /\ pc' = [t \in Threads |-> "idle"] /\ vote' = [t \in Voters |-> {}]
      /\ template' = {} /\ chainHeight' = h /\ reorgs' = reorgs
      /\ mapSafenodesLastVote' = [m \in Safenodes |-> None]
      /\ restarts < MaxRestarts /\ restarts' = restarts + 1
  BY DEF Start
<1>5. /\ mapSafenodePaymentVotes' \in [Votes -> {Absent, Unverified, Verified}]
      /\ counted' \in [Votes -> Nat] /\ vecPayees' \in [Heights -> Seq(Payees)]
  BY <1>1, <1>2 DEF Files
<1>6. restarts' \in 0 .. MaxRestarts
  BY <1>4, BoundAssumption DEF IInv, TypeOK
<1>7. TypeOK'
  BY <1>3, <1>4, <1>5, <1>6 DEF IInv, TypeOK
<1>8. HandsOK'
  BY <1>4 DEF HandsOK
<1>9. Agrees(mapSafenodePaymentVotes', counted', vecPayees', highest')
      /\ Agrees(disk'.votes, disk'.counted, disk'.payees, highest')
  BY <1>1, <1>2, <1>3, AgreesLater
<1>10. AtMostTwice'
  <2>1. \A w \in Votes : Pending("net", w)' = 0 /\ Pending("chain", w)' = 0
    BY <1>4 DEF Pending, Voters, Threads
  <2>2. \A w \in Votes : counted'[w] \in 0 .. 2
    BY <1>9 DEF Agrees
  <2>3. \A w \in Votes : counted'[w] + Pending("net", w)' + Pending("chain", w)' <= 2
    BY <2>1, <2>2
  <2> QED BY <2>3 DEF AtMostTwice
<1>11. /\ Agrees(mapSafenodePaymentVotes, counted, vecPayees, highest)'
       /\ Agrees(disk.votes, disk.counted, disk.payees, highest)'
  BY <1>9 DEF Agrees, TooOld
<1> QED BY <1>7, <1>8, <1>10, <1>11 DEF IInv

LEMMA RestartInv ==
  ASSUME IInv, Restart \/ Crash
  PROVE  IInv'
<1>1. CASE Restart
  <2>1. disk' = Saved /\ Start(Saved, chainHeight)
    BY <1>1 DEF Restart
  <2>2. Saved \in Files /\ chainHeight \in FirstTip .. LastTip
    BY DEF Saved, Files, IInv, TypeOK
  <2>3. Agrees(Saved.votes, Saved.counted, Saved.payees, highest)
    BY DEF Saved, IInv
  <2> QED BY <2>1, <2>2, <2>3, StartInv
<1>2. CASE Crash
  <2>1. PICK h \in FirstTip .. chainHeight : Start(disk, h) /\ UNCHANGED disk
    BY <1>2 DEF Crash
  <2>2. disk \in Files /\ h \in FirstTip .. LastTip
    BY HeightAssumption DEF IInv, TypeOK
  <2>3. Agrees(disk.votes, disk.counted, disk.payees, highest)
    BY DEF IInv
  <2> QED BY <2>1, <2>2, <2>3, StartInv
<1> QED BY <1>1, <1>2

LEMMA NextInv ==
  ASSUME IInv, [Next]_vars
  PROVE  IInv'
<1>1. ASSUME NEW t \in Voters, StoreVote(t) PROVE IInv'
  BY <1>1, StoreVoteInv
<1>2. ASSUME NEW v \in Votes, ReceiveVote(v) PROVE IInv'
  BY <1>2, ReceiveVoteInv
<1>3. CASE RefuseVote \/ CheckVote
  BY <1>3, CheckVoteInv
<1>4. CASE \/ \E h \in FirstTip .. LastTip : NewTip(h)
           \/ Disconnect \/ FillBlockPayee \/ TestBlockValidity
  BY <1>4, ChainMovesInv
<1>5. CASE UpdatedBlockTip
  BY <1>5, UpdatedBlockTipInv
<1>6. CASE ProcessBlock
  BY <1>6, ProcessBlockInv
<1>7. CASE CheckAndRemove
  BY <1>7, CheckAndRemoveInv
<1>8. CASE SweepAcrossTip
  BY <1>8, SweepAcrossTipInv
<1>9. CASE Restart \/ Crash
  BY <1>9, RestartInv
<1>10. CASE UNCHANGED vars
  BY <1>10 DEF vars, chainVars, store, IInv, TypeOK, HandsOK, Agrees, TooOld, AtMostTwice, Pending
<1> QED BY <1>1, <1>2, <1>3, <1>4, <1>5, <1>6, <1>7, <1>8, <1>9, <1>10 DEF Next

LEMMA Invariant == Spec => []IInv
<1>1. IInv /\ [Next]_vars => IInv'
  BY NextInv
<1> QED BY InitInv, <1>1, PTL DEF Spec

----------------------------------------------------------------------------
\* Every variable keeps its type, and no tip is above the highest one.
THEOREM TypeCorrect == Spec => []TypeOK
<1>1. IInv => TypeOK
  BY DEF IInv
<1> QED BY <1>1, Invariant, PTL

\* What a block lists, in memory and in mnpayments.dat, is a verified vote that
\* can be served: no sweep, restart or late vote separates the two maps.
THEOREM ListedVotesAreVerified == Spec => []CountedIsVerified
<1>1. IInv => CountedIsVerified
  <2> SUFFICES ASSUME IInv, NEW v \in Votes
               PROVE  /\ counted[v] > 0 => HasVerifiedPaymentVote(v) /\ v.payee \in Listed(v.height)
                      /\ disk.counted[v] > 0 =>
                           /\ disk.votes[v] = Verified
                           /\ \E i \in DOMAIN disk.payees[v.height] :
                                 disk.payees[v.height][i] = v.payee
    BY DEF CountedIsVerified
  <2>1. v.height \in Heights
    BY VoteFields
  <2> QED BY <2>1 DEF IInv, Agrees, HasVerifiedPaymentVote, Listed
<1> QED BY <1>1, Invariant, PTL

\* A verified vote that is not counted is older than the storage limit allows.
THEOREM VerifiedVotesAreListed == Spec => []VerifiedIsCounted
<1>1. IInv => VerifiedIsCounted
  BY DEF IInv, Agrees, VerifiedIsCounted, HasVerifiedPaymentVote
<1> QED BY <1>1, Invariant, PTL

\* Two threads can count a vote once each, and no history makes it a third time.
THEOREM CountedAtMostTwice == Spec => []AtMostTwice
<1>1. IInv => AtMostTwice
  BY DEF IInv
<1> QED BY <1>1, Invariant, PTL

\* A counted vote is forgotten with all others of its height, and only when that
\* is past the storage limit of the highest tip, or by a restart.
THEOREM ForgottenTogether == Spec => ForgottenWhenOld
<1> DEFINE Forgotten ==
      restarts' = restarts =>
       \A v \in Votes : counted[v] > 0 /\ counted'[v] = 0
            => /\ TooOld(v.height, highest')
               /\ \A w \in Votes : w.height = v.height => counted'[w] = 0
<1>1. ASSUME IInv, [Next]_vars PROVE [Forgotten]_vars
  <2> SUFFICES ASSUME Next, restarts' = restarts, NEW v \in Votes,
                      counted[v] > 0, counted'[v] = 0
               PROVE  /\ TooOld(v.height, highest')
                      /\ \A w \in Votes : w.height = v.height => counted'[w] = 0
    BY <1>1
  <2>1. counted[v] \in Nat /\ counted' # counted
    BY <1>1 DEF IInv, TypeOK
  <2>2. ASSUME NEW t \in Voters, StoreVote(t) PROVE FALSE
    BY <2>1, <2>2, <1>1 DEF StoreVote, IInv, TypeOK, Voters
  <2>3. CASE Restart \/ Crash
    BY <2>3, <1>1 DEF Restart, Crash, Start, IInv, TypeOK
  <2>4. ASSUME NEW old \in SUBSET Votes, Forgets(old),
               \A w \in old : TooOld(w.height, highest')
        PROVE  /\ TooOld(v.height, highest')
               /\ \A w \in Votes : w.height = v.height => counted'[w] = 0
    <3>1. counted' = [w \in Votes |-> IF w.height \in {x.height : x \in old} THEN 0 ELSE counted[w]]
      BY <2>4 DEF Forgets, BlocksErased
    <3>2. v.height \in {x.height : x \in old}
      BY <3>1, <2>1
    <3> QED BY <3>1, <3>2, <2>4
  <2>5. CASE CheckAndRemove
    <3>1. tip \in Nat /\ highest \in Nat /\ tip <= highest /\ highest' = highest
      BY <2>5, <1>1, HeightAssumption DEF IInv, TypeOK, CheckAndRemove, chainVars
    <3> DEFINE old == {w \in Stored : Forgettable(w.height, tip)}
    <3>2. old \in SUBSET Votes /\ Forgets(old) /\ \A w \in old : TooOld(w.height, highest')
      BY <2>5, <3>1, VoteFields, HeightAssumption
         DEF CheckAndRemove, Stored, Forgettable, TooOld
    <3> QED BY <3>2, <2>4
  <2>6. CASE SweepAcrossTip
    <3>1. Hears /\ pc["chain"] = "notifying" /\ UNCHANGED vote
      BY <2>6 DEF SweepAcrossTip
    <3>2. /\ tip \in Nat /\ tip' \in Nat /\ highest' \in Nat
          /\ tip <= highest' /\ tip' <= highest'
      BY <3>1, <1>1, HearsOK
    <3>3. PICK early \in SUBSET Stored :
            Forgets({w \in Stored : Forgettable(w.height, IF w \in early THEN tip ELSE tip')})
      BY <2>6 DEF SweepAcrossTip
    <3> DEFINE old == {w \in Stored : Forgettable(w.height, IF w \in early THEN tip ELSE tip')}
    <3>4. old \in SUBSET Votes /\ Forgets(old) /\ \A w \in old : TooOld(w.height, highest')
      BY <3>2, <3>3, VoteFields, HeightAssumption DEF Stored, Forgettable, TooOld
    <3> QED BY <3>4, <2>4
  <2> QED BY <2>1, <2>2, <2>3, <2>5, <2>6
       DEF Next, ReceiveVote, RefuseVote, CheckVote, NewTip, Disconnect, UpdatedBlockTip,
           ProcessBlock, FillBlockPayee, TestBlockValidity, store
<1>2. IInv /\ [Next]_vars => [Forgotten]_vars
  BY <1>1
<1> QED BY <1>2, Invariant, PTL DEF Spec, ForgottenWhenOld
=============================================================================

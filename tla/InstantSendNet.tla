--------------------------- MODULE InstantSendNet ---------------------------
(***************************************************************************)
(* The safenode network of CInstantSend (src/instantx.cpp): every node     *)
(* keeps the promise of TxLock for itself, on the votes that reach it; the *)
(* safenodes cast these votes in Vote().  The question is what the locks   *)
(* of different nodes have to do with one another.                         *)
(*                                                                         *)
(* A vote once relayed may reach any node, at any time, in any order, or   *)
(* never: cast is the set of all of them.  A safenode remembers its own    *)
(* votes in the maps of CInstantSend, which a restart empties.  Top[n][o]  *)
(* are the safenodes that n ever ranks among the first SIGNATURES_TOTAL    *)
(* for o: the nodes' lists, and with them the ranks, may differ.           *)
(***************************************************************************)
EXTENDS Integers, FiniteSets

CONSTANTS
    Nodes, Safenodes, Txs, Outpoints, Inputs, Absent,
    SIGNATURES_REQUIRED,
    Top,                \* [Nodes -> [Outpoints -> SUBSET Safenodes]]
    MaxForgetful        \* safenodes that may restart after they voted

ASSUME NodeAssumption == Safenodes \subseteq Nodes /\ IsFiniteSet(Safenodes)
ASSUME NetInputAssumption == Inputs \in [Txs -> SUBSET Outpoints]
ASSUME NetAbsentAssumption == Absent \notin Txs
ASSUME TopAssumption == Top \in [Nodes -> [Outpoints -> SUBSET Safenodes]]

\* Two quorums for one outpoint, counted by whatever two nodes, share more
\* safenodes than may have forgotten a vote: 6 + 6 of 10 leave room for one.
ASSUME QuorumAssumption ==
    /\ SIGNATURES_REQUIRED \in Nat /\ MaxForgetful \in Nat
    /\ \A n, m \in Nodes, o \in Outpoints :
          2 * SIGNATURES_REQUIRED > Cardinality(Top[n][o] \cup Top[m][o]) + MaxForgetful

VARIABLES
    cast,       \* every vote a safenode relayed
    ballots,    \* node -> the votes inside its candidates
    voted,      \* node -> mapVotedOutpoints, {} when absent
    holder,     \* node -> mapLockedOutpoints
    buried,     \* transactions more than nInstantSendKeepLock blocks deep
    forgetful   \* safenodes restarted after they cast a vote

vars == <<cast, ballots, voted, holder, buried, forgetful>>

Votes == {v \in [tx : Txs, outpoint : Outpoints, safenode : Safenodes] :
            v.outpoint \in Inputs[v.tx]}
Spent == UNION {Inputs[t] : t \in buried}

\* IsReady and IsAllOutPointsReady, on the votes B.
Quorum(B, t, o) ==
    Cardinality({v \in B : v.tx = t /\ v.outpoint = o}) >= SIGNATURES_REQUIRED
Free(n, t) == \A o \in Inputs[t] : holder[n][o] \in {Absent, t}

\* Fault: one input with a quorum locks them all.
FinalizesOnAnyInput(n, B, t) ==
    {holder[n],
     IF (\E o \in Inputs[t] : Quorum(B, t, o)) /\ Free(n, t)
     THEN [o \in Outpoints |-> IF o \in Inputs[t] THEN t ELSE holder[n][o]]
     ELSE holder[n]}
\* TryToFinalizeLockCandidate: ResolveConflicts may also fail on what happens in
\* the pool and the chain, which are left out here.
Finalizes(n, B, t) ==
    {holder[n],
     IF (\A o \in Inputs[t] : Quorum(B, t, o)) /\ Free(n, t)
     THEN [o \in Outpoints |-> IF o \in Inputs[t] THEN t ELSE holder[n][o]]
     ELSE holder[n]}

\* Fault: Vote() does not look at the votes it cast before.
HasVotedOnNothing(s, o) == FALSE
HasVotedOn(s, o) ==
    \E v \in ballots[s] : v.outpoint = o /\ v.safenode = s /\ v.tx \in voted[s][o]
OwnVotes(s, t) ==
    {v \in Votes : /\ v.tx = t /\ v.safenode = s
                   /\ v.outpoint \notin Spent
                   /\ s \in Top[s][v.outpoint]
                   /\ ~HasVotedOn(s, v.outpoint)}

Counted(n, V) ==
    /\ ballots' = [ballots EXCEPT ![n] = @ \cup V]
    /\ voted' = [voted EXCEPT ![n] =
                   [o \in Outpoints |-> @[o] \cup {v.tx : v \in {w \in V : w.outpoint = o}}]]

\* ProcessTxLockRequest on a safenode: it votes, and may complete the lock.
Vote(s, t) ==
    /\ \A o \in Inputs[t] : holder[s][o] = Absent
    /\ cast' = cast \cup OwnVotes(s, t)
    /\ Counted(s, OwnVotes(s, t))
    /\ \E h \in Finalizes(s, ballots[s] \cup OwnVotes(s, t), t) :
          holder' = [holder EXCEPT ![s] = h]
    /\ UNCHANGED <<buried, forgetful>>

\* The safenode of v already voted for a rival, as far as n knows.
VotedForRival(n, v) ==
    \E t \in voted[n][v.outpoint] \ {v.tx} : [v EXCEPT !.tx = t] \in ballots[n]

\* ProcessTxLockVote on any node.
ReceiveVote(n, v) ==
    /\ v \in cast \ ballots[n]
    /\ v.safenode \in Top[n][v.outpoint]
    /\ ~VotedForRival(n, v)
    /\ Counted(n, {v})
    /\ \E h \in Finalizes(n, ballots[n] \cup {v}, v.tx) :
          holder' = [holder EXCEPT ![n] = h]
    /\ UNCHANGED <<cast, buried, forgetful>>

\* The chain takes t in, and buries it: it is not reorganised that deep.
Bury(t) ==
    /\ Inputs[t] \cap Spent = {}
    /\ buried' = buried \cup {t}
    /\ UNCHANGED <<cast, ballots, voted, holder, forgetful>>

\* CheckAndRemove gives up t with everything on its inputs, rivals included, on
\* a node that has the request of t as a candidate.
Expire(n, t) ==
    /\ t \in buried
    /\ ballots' = [ballots EXCEPT ![n] = {v \in @ : v.tx # t}]
    /\ voted' = [voted EXCEPT ![n] =
                   [o \in Outpoints |-> IF o \in Inputs[t] THEN {} ELSE @[o]]]
    /\ holder' = [holder EXCEPT ![n] =
                    [o \in Outpoints |-> IF o \in Inputs[t] THEN Absent ELSE @[o]]]
    /\ UNCHANGED <<cast, buried, forgetful>>

\* All maps are memory only.
Restart(n) ==
    /\ ballots[n] # {}
    /\ forgetful' = forgetful \cup {s \in {n} : \E v \in cast : v.safenode = s}
    /\ Cardinality(forgetful') <= MaxForgetful
    /\ ballots' = [ballots EXCEPT ![n] = {}]
    /\ voted' = [voted EXCEPT ![n] = [o \in Outpoints |-> {}]]
    /\ holder' = [holder EXCEPT ![n] = [o \in Outpoints |-> Absent]]
    /\ UNCHANGED <<cast, buried>>

Init ==
    /\ cast = {} /\ buried = {} /\ forgetful = {}
    /\ ballots = [n \in Nodes |-> {}]
    /\ voted = [n \in Nodes |-> [o \in Outpoints |-> {}]]
    /\ holder = [n \in Nodes |-> [o \in Outpoints |-> Absent]]

Next ==
    \/ \E s \in Safenodes, t \in Txs : Vote(s, t)
    \/ \E n \in Nodes, v \in Votes : ReceiveVote(n, v)
    \/ \E t \in Txs : Bury(t)
    \/ \E n \in Nodes, t \in Txs : Expire(n, t)
    \/ \E n \in Nodes : Restart(n)

Spec == Init /\ [][Next]_vars

----------------------------------------------------------------------------
(* Properties *)

TypeOK ==
    /\ cast \subseteq Votes
    /\ ballots \in [Nodes -> SUBSET Votes]
    /\ voted \in [Nodes -> [Outpoints -> SUBSET Txs]]
    /\ holder \in [Nodes -> [Outpoints -> Txs \cup {Absent}]]
    /\ buried \subseteq Txs
    /\ forgetful \subseteq Safenodes

\* No two nodes lock the same outpoint for different transactions.
Agreement ==
    \A n, m \in Nodes, o \in Outpoints :
        holder[n][o] # Absent /\ holder[m][o] # Absent => holder[n][o] = holder[m][o]

\* Every step of the network is, for every node, a step of TxLock or none: what
\* CInstantSend keeps on its own it keeps among the others.
Lock(n) == INSTANCE TxLock WITH ballots <- ballots[n], holder <- holder[n]
EachKeepsTxLock ==
    [][\A n \in Nodes : Lock(n)!Next \/ UNCHANGED <<ballots[n], holder[n]>>]_vars
=============================================================================

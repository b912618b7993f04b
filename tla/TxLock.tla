------------------------------- MODULE TxLock -------------------------------
(***************************************************************************)
(* What CInstantSend promises about locks, with everything else left out:  *)
(* a transaction takes all its inputs at once, when each has enough votes  *)
(* and none is held by another one; locks go only together with the votes, *)
(* when a transaction expires or the node restarts.                        *)
(***************************************************************************)
EXTENDS Integers, FiniteSets

CONSTANTS Txs, Outpoints, Inputs, Safenodes, SIGNATURES_REQUIRED, Absent

VARIABLES
    ballots,    \* the votes counted so far
    holder      \* outpoint -> the transaction that locked it

Votes == {v \in [tx : Txs, outpoint : Outpoints, safenode : Safenodes] :
            v.outpoint \in Inputs[v.tx]}

Quorum(B, t, o) ==
    Cardinality({v \in B : v.tx = t /\ v.outpoint = o}) >= SIGNATURES_REQUIRED

Init == ballots = {} /\ holder = [o \in Outpoints |-> Absent]

\* Votes are counted; they may complete the lock of one transaction.
Collect ==
    /\ ballots \subseteq ballots'
    /\ ballots' \subseteq Votes
    /\ UNCHANGED holder
CollectAndLock(t) ==
    /\ ballots \subseteq ballots'
    /\ ballots' \subseteq Votes
    /\ \A o \in Inputs[t] : Quorum(ballots', t, o) /\ holder[o] \in {Absent, t}
    /\ holder' = [o \in Outpoints |-> IF o \in Inputs[t] THEN t ELSE holder[o]]

\* The transactions T expire; whatever held one of their inputs lets go of it.
Expire(T) ==
    /\ ballots' = {v \in ballots : v.tx \notin T}
    /\ holder' = [o \in Outpoints |->
                    IF \E t \in T : o \in Inputs[t] THEN Absent ELSE holder[o]]

Restart == ballots' = {} /\ holder' = [o \in Outpoints |-> Absent]

Next ==
    \/ Collect
    \/ \E t \in Txs : CollectAndLock(t)
    \/ \E T \in SUBSET Txs : Expire(T)
    \/ Restart

Spec == Init /\ [][Next]_<<ballots, holder>>
=============================================================================

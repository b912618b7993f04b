---------------------------- MODULE CoinsLayers ----------------------------
(***************************************************************************)
(* What the stack of coin views promises: three complete copies of the set *)
(* of unspent outputs.  The draft belongs to the block being connected or  *)
(* disconnected, memory to the active chain, disk survives a crash.  No    *)
(* copy has flags, and a change is seen nowhere but in the draft until the *)
(* draft as a whole is committed, and memory as a whole saved.             *)
(***************************************************************************)
CONSTANTS TxIds, Coins, NoCoins

VARIABLES disk, memory, draft

vars == <<disk, memory, draft>>

Layer == [TxIds -> Coins]

Init ==
    /\ disk = [t \in TxIds |-> NoCoins]
    /\ memory = disk
    /\ draft = disk

Change(t) ==
    /\ draft'[t] \in Coins
    /\ draft' = [draft EXCEPT ![t] = draft'[t]]
    /\ UNCHANGED <<disk, memory>>

Commit ==
    /\ memory' = draft
    /\ UNCHANGED <<disk, draft>>

Abandon ==
    /\ draft' = memory
    /\ UNCHANGED <<disk, memory>>

Save ==
    /\ draft = memory
    /\ disk' = memory
    /\ UNCHANGED <<memory, draft>>

\* A crash, or a failed save: everything above the disk is gone.
Lose ==
    /\ memory' = disk
    /\ draft' = disk
    /\ UNCHANGED disk

Next ==
    \/ \E t \in TxIds : Change(t)
    \/ Commit
    \/ Abandon
    \/ Save
    \/ Lose

Spec == Init /\ [][Next]_vars
=============================================================================

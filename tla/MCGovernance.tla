---------------------------- MODULE MCGovernance ----------------------------
(* A small instance of Governance for TLC: a trigger signed by sn1, which votes *)
(* to delete it and then changes its mind.                                      *)
EXTENDS Governance

CONSTANTS sn1, trig, yes1, no1

MCVoteBy == [v \in Votes |-> sn1]
MCVoteFor == [v \in Votes |-> trig]
MCVoteAt == [v \in Votes |-> IF v = no1 THEN 2 ELSE 1]
MCVoteSignal == [v \in Votes |-> "delete"]
MCOwner == [o \in Triggers |-> sn1]
=============================================================================

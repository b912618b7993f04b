---------------------------- MODULE MCPrivateSend ----------------------------
(* A small instance of PrivateSend for TLC. *)
EXTENDS PrivateSend, TLC
CONSTANTS alice, bob
Sym == Permutations(Clients)
=============================================================================

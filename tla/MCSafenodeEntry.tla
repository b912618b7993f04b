-------------------------- MODULE MCSafenodeEntry --------------------------
(* A small instance of SafenodeEntry for TLC. *)
EXTENDS SafenodeEntry

CONSTANT peerA
=============================================================================

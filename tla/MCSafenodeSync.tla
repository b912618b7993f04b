--------------------------- MODULE MCSafenodeSync ---------------------------
(* A small instance of SafenodeSync for TLC. *)
EXTENDS SafenodeSync
CONSTANT peerA
=============================================================================

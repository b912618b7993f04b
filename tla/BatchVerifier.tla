--------------------------- MODULE BatchVerifier ---------------------------
(***************************************************************************)
(* What CCheckQueueControl promises to ConnectBlock, whoever does the      *)
(* work: the checks of one block are collected, and Wait returns TRUE      *)
(* exactly when none of them fails.  CheckQueue refines this module.       *)
(***************************************************************************)
CONSTANT Checks      \* the verifications one block can contain

VARIABLES open,      \* a CCheckQueueControl exists
          added,     \* the checks handed over since it was constructed
          bad,       \* the checks that fail when they are run
          verdict    \* what the last Wait returned

vars == <<open, added, bad, verdict>>

Init ==
  /\ open = FALSE
  /\ added = {}
  /\ bad \in SUBSET Checks
  /\ verdict = TRUE

Open ==
  /\ ~open
  /\ open' = TRUE
  /\ bad' \in SUBSET Checks
  /\ UNCHANGED <<added, verdict>>

Collect ==
  /\ open
  /\ \E S \in SUBSET (Checks \ added) : added' = added \cup S
  /\ UNCHANGED <<open, bad, verdict>>

Close ==
  /\ open
  /\ open' = FALSE
  /\ added' = {}
  /\ verdict' = (added \cap bad = {})
  /\ UNCHANGED bad

Next == Open \/ Collect \/ Close

Spec == Init /\ [][Next]_vars
=============================================================================

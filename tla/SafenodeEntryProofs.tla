------------------------- MODULE SafenodeEntryProofs -------------------------
(***************************************************************************)
(* What SafenodeEntry promises for every number of announcements and peers *)
(* and every time limit: the types, the book-keeping of the recovery, and  *)
(* that neither a ban nor a silence is talked away.                        *)
(***************************************************************************)
EXTENDS SafenodeEntry, TLAPS

USE CountAssumption, TimeAssumption DEF Announcements, Blockchain, List, Everything, None, Never

-----------------------------------------------------------------------------
(* Entries.                                                                  *)

\* What is listed is an entry.
LEMMA ListedEntry == ASSUME TypeOK, Listed PROVE entry \in Entry
  BY DEF TypeOK, EntryOK, Listed

\* No entry is the missing one.
LEMMA EntryIsListed == ASSUME NEW e \in Entry PROVE e # NoEntry
  BY DEF Entry, NoEntry, States

\* CSafenode::Check gives an entry a state that is one.
LEMMA NextStateType ==
  ASSUME NEW e \in Entry PROVE NextState(e) \in States
  BY DEF Entry, NextState, States, WaitsForPing

LEMMA LowerType ==
  ASSUME NEW s \in -MaxScore .. MaxScore PROVE Lower(s) \in -MaxScore .. MaxScore
  BY DEF Lower
LEMMA HigherType ==
  ASSUME NEW s \in -MaxScore .. MaxScore PROVE Higher(s) \in -MaxScore .. MaxScore
  BY DEF Higher

\* Changes of the state and of the score or the end of the ban.
LEMMA Renamed ==
  ASSUME NEW e \in Entry, NEW s \in States PROVE [e EXCEPT !.state = s] \in Entry
  BY DEF Entry
LEMMA Banished ==
  ASSUME NEW e \in Entry, NEW s \in States, NEW n \in 0 .. Cycle
  PROVE [e EXCEPT !.state = s, !.banLeft = n] \in Entry
  BY DEF Entry
LEMMA Restated ==
  ASSUME NEW e \in Entry, NEW s \in States, NEW n \in -MaxScore .. MaxScore
  PROVE [e EXCEPT !.state = s, !.score = n] \in Entry
  BY DEF Entry

LEMMA RecheckedType ==
  ASSUME NEW e \in Entry PROVE Rechecked(e) \in Entry
<1>1. CASE coin = "absent"
  <2>1. Rechecked(e) = [e EXCEPT !.state = "OUTPOINT_SPENT"]
    BY <1>1 DEF Rechecked
  <2>2. "OUTPOINT_SPENT" \in States
    BY DEF States
  <2>3. [e EXCEPT !.state = "OUTPOINT_SPENT"] \in Entry
    BY <2>2, Renamed
  <2> QED BY <2>1, <2>3
<1>2. CASE coin # "absent" /\ e.state = "POSE_BAN" /\ ~Served(e)
  BY <1>2 DEF Rechecked
<1>3. CASE coin # "absent" /\ e.state # "POSE_BAN" /\ e.score >= MaxScore
  <2>1. Rechecked(e) = [e EXCEPT !.state = "POSE_BAN", !.banLeft = Cycle]
    BY <1>3 DEF Rechecked
  <2>2. "POSE_BAN" \in States
    BY DEF States
  <2>3. Cycle \in 0 .. Cycle
    OBVIOUS
  <2>4. [e EXCEPT !.state = "POSE_BAN", !.banLeft = Cycle] \in Entry
    BY <2>2, <2>3, Banished
  <2> QED BY <2>1, <2>4
<1>4. CASE /\ coin # "absent" /\ (e.state = "POSE_BAN" => Served(e))
           /\ ~(e.state # "POSE_BAN" /\ e.score >= MaxScore)
  <2> DEFINE n == IF Served(e) THEN Lower(e.score) ELSE e.score
  <2>1. Rechecked(e) = [e EXCEPT !.state = NextState(e), !.score = n]
    BY <1>4 DEF Rechecked
  <2>2. e.score \in -MaxScore .. MaxScore
    BY DEF Entry
  <2>3. n \in -MaxScore .. MaxScore
    BY <2>2, LowerType
  <2> HIDE DEF n
  <2>4. NextState(e) \in States
    BY NextStateType
  <2>5. [e EXCEPT !.state = NextState(e), !.score = n] \in Entry
    BY <2>3, <2>4, Restated
  <2> QED BY <2>1, <2>5
<1> QED BY <1>1, <1>2, <1>3, <1>4

LEMMA CheckType ==
  ASSUME NEW e \in Entry, NEW force \in BOOLEAN PROVE Check(e, force) \in Entry
<1> DEFINE c == [e EXCEPT !.checked = TRUE]
<1>1. c \in Entry
  BY DEF Entry
<1> HIDE DEF c
<1>2. Checks(c) \in Entry
  BY <1>1, RecheckedType DEF Checks
<1>3. Check(e, force) \in {e, Checks(c)}
  BY DEF Check, c
<1> QED BY <1>2, <1>3

\* Check changes neither the announcement nor the ping of an entry.
LEMMA CheckKeeps ==
  ASSUME NEW e \in Entry, NEW force \in BOOLEAN
  PROVE Check(e, force).mnb = e.mnb /\ Check(e, force).pingAge = e.pingAge
<1> DEFINE c == [e EXCEPT !.checked = TRUE]
<1>1. c \in Entry /\ c.mnb = e.mnb /\ c.pingAge = e.pingAge
  BY DEF Entry
<1>2. Check(e, force) \in {e, c, Rechecked(c)}
  BY DEF Check, Checks
<1> HIDE DEF c
<1>3. \/ Rechecked(c) = [c EXCEPT !.state = "OUTPOINT_SPENT"]
      \/ Rechecked(c) = c
      \/ Rechecked(c) = [c EXCEPT !.state = "POSE_BAN", !.banLeft = Cycle]
      \/ Rechecked(c) = [c EXCEPT !.state = NextState(c),
                                  !.score = IF Served(c) THEN Lower(@) ELSE @]
  BY DEF Rechecked
<1>4. Rechecked(c).mnb = c.mnb /\ Rechecked(c).pingAge = c.pingAge
  BY <1>1, <1>3 DEF Entry
<1> QED BY <1>1, <1>2, <1>4

\* What an announcement leaves of an entry, before its ping is looked at.
LEMMA ReplacementType ==
  ASSUME NEW e \in Entry, NEW b \in Announcements, NEW x \in BOOLEAN
  PROVE /\ Replacement(e, b, x) \in Entry /\ Replacement(e, b, x).mnb = b
        /\ Replacement(e, b, x).state = e.state
<1>1. 0 \in -MaxScore .. MaxScore /\ 0 \in 0 .. Cycle
  OBVIOUS
<1> QED BY <1>1 DEF Entry, Replacement

LEMMA UpdateType ==
  ASSUME NEW e \in Entry, NEW b \in Announcements, NEW a \in 0 .. Old, NEW block,
         NEW x \in BOOLEAN
  PROVE UpdateFromNewBroadcast(e, b, a, block, x) \in Entry
<1> DEFINE new == Replacement(e, b, x)
           late == [new EXCEPT !.pingAge = a]
<1>1. new \in Entry /\ late \in Entry
  <2>1. 0 \in -MaxScore .. MaxScore /\ 0 \in 0 .. Cycle
    OBVIOUS
  <2>2. new \in Entry
    BY <2>1 DEF Entry, Replacement
  <2> HIDE DEF new
  <2> QED BY <2>2 DEF Entry
<1>2. UpdateFromNewBroadcast(e, b, a, block, x)
        = Check(IF Acceptable(new, a, block) THEN Check(late, TRUE) ELSE new, FALSE)
  BY DEF UpdateFromNewBroadcast
<1> HIDE DEF new, late
<1>3. Check(late, TRUE) \in Entry
  BY <1>1, CheckType
<1>4. (IF Acceptable(new, a, block) THEN Check(late, TRUE) ELSE new) \in Entry
  BY <1>1, <1>3
<1> QED BY <1>2, <1>4, CheckType
-----------------------------------------------------------------------------
(* Type correctness, action by action.                                       *)

ProgramOK == EntryOK /\ SeenOK /\ RecoveryOK /\ WorldOK

LEMMA InitType == Init => ProgramOK
<1> SUFFICES ASSUME Init PROVE ProgramOK
  OBVIOUS
<1>1. EntryOK /\ SeenOK
  BY DEF Init, EntryOK, SeenOK
<1>2. RecoveryOK
  BY DEF Init, RecoveryOK, NoReplies
<1>3. WorldOK
  <2>1. 0 \in SigAges /\ 0 \in 0 .. Old /\ 0 \in 0 .. MaxDisturbances
    BY DEF SigAges
  <2>2. sigAge \in [Announcements -> SigAges]
    BY <2>1 DEF Init
  <2>3. 0 \in 0 .. Everything /\ 0 \in 0 .. LastAnnouncement
    OBVIOUS
  <2>4. /\ pool = "idle" /\ coin \in Coins /\ sync = 0 /\ outdated = FALSE /\ signed = 0
        /\ alive = TRUE /\ silent = 0 /\ disturbances = 0 /\ premature = 0
    BY DEF Init, Coins
  <2> QED BY <2>1, <2>2, <2>3, <2>4 DEF WorldOK
<1> QED BY <1>1, <1>2, <1>3 DEF TypeOK, ProgramOK

\* What is written into the marks and the list by the handling of an announcement.
LEMMA MarksType ==
  ASSUME TypeOK, Listed, NEW b \in Announcements,
         NEW s \in [Announcements -> {"no", "whole", "empty"}],
         NEW sp \in [Announcements -> 0 .. Never]
  PROVE /\ LookedUp(s) \in [Announcements -> {"no", "whole", "empty"}]
        /\ Replaced(LookedUp(s), b) \in [Announcements -> {"no", "whole", "empty"}]
        /\ TriedAgain(s, b) \in [Announcements -> {"no", "whole", "empty"}]
        /\ LookedUpPing(s, sp) \in [Announcements -> 0 .. Never]
<1>1. entry.mnb \in Announcements
  BY ListedEntry DEF Entry
<1>2. LookedUp(s) \in [Announcements -> {"no", "whole", "empty"}]
  BY <1>1 DEF LookedUp
<1>3. Replaced(LookedUp(s), b) \in [Announcements -> {"no", "whole", "empty"}]
  BY <1>1, <1>2 DEF Replaced
<1>4. TriedAgain(s, b) \in [Announcements -> {"no", "whole", "empty"}]
  BY DEF TriedAgain
<1>5. LookedUpPing(s, sp) \in [Announcements -> 0 .. Never]
  BY <1>1 DEF LookedUpPing
<1> QED BY <1>2, <1>3, <1>4, <1>5

\* An announcement that finds nothing in the list.
LEMMA AddsType ==
  ASSUME TypeOK, NEW b \in Announcements, NEW a \in 0 .. Old, NEW block,
         NEW s \in [Announcements -> {"no", "whole", "empty"}],
         NEW sp \in [Announcements -> 0 .. Never], AddsEntry(b, a, block, s, sp)
  PROVE EntryOK' /\ SeenOK'
<1>1. seenPing' \in [Announcements -> 0 .. Never]
  BY DEF AddsEntry
<1>2. seen' \in [Announcements -> {"no", "whole", "empty"}]
  BY DEF AddsEntry, TriedAgain
<1>3. SeenOK'
  BY <1>1, <1>2 DEF SeenOK
<1>4. CASE entry' = entry
  BY <1>3, <1>4 DEF TypeOK, EntryOK
<1>5. CASE entry' # entry
  <2>1. \E x \in BOOLEAN, st \in States :
          entry' = [state |-> st, mnb |-> b, pingAge |-> a, early |-> x, score |-> 0,
                    banLeft |-> 0, checked |-> FALSE]
    BY <1>5 DEF AddsEntry, Earlies, States
  <2>2. 0 \in -MaxScore .. MaxScore /\ 0 \in 0 .. Cycle
    OBVIOUS
  <2>3. entry' \in Entry
    BY <2>1, <2>2 DEF Entry
  <2> QED BY <1>3, <2>3 DEF EntryOK
<1> QED BY <1>4, <1>5

\* An announcement of a safenode that is listed.
LEMMA UpdatesType ==
  ASSUME TypeOK, NEW b \in Announcements, NEW a \in 0 .. Old, NEW block,
         NEW fRecovery \in BOOLEAN,
         NEW s \in [Announcements -> {"no", "whole", "empty"}],
         NEW sp \in [Announcements -> 0 .. Never],
         UpdatesEntry(b, a, block, fRecovery, s, sp)
  PROVE EntryOK' /\ SeenOK'
<1> DEFINE e == Check(entry, FALSE)
<1>1. Listed /\ entry \in Entry
  BY ListedEntry DEF UpdatesEntry
<1>2. e \in Entry
  BY <1>1, CheckType
<1>3. /\ seen' \in {LookedUp(s), Replaced(LookedUp(s), b)}
      /\ \/ seenPing' = LookedUpPing(s, sp)
         \/ seenPing' = [LookedUpPing(s, sp) EXCEPT ![b] = a]
         \/ seenPing' = [LookedUpPing(s, sp) EXCEPT ![b] = @]
      /\ \/ entry' \in {entry, e}
         \/ \E x \in BOOLEAN : entry' = UpdateFromNewBroadcast(e, b, a, block, x)
  BY DEF UpdatesEntry, Earlies
<1> HIDE DEF e
<1> DEFINE l == LookedUp(s)
           k == Replaced(LookedUp(s), b)
           g == LookedUpPing(s, sp)
<1>a. /\ l \in [Announcements -> {"no", "whole", "empty"}]
      /\ k \in [Announcements -> {"no", "whole", "empty"}]
      /\ g \in [Announcements -> 0 .. Never]
  BY <1>1, MarksType
<1>b. seen' \in {l, k} /\ (seenPing' = g \/ seenPing' = [g EXCEPT ![b] = a]
                           \/ seenPing' = [g EXCEPT ![b] = @])
  BY <1>3
<1> HIDE DEF l, k, g
<1>4. seen' \in [Announcements -> {"no", "whole", "empty"}]
  BY <1>a, <1>b
<1>5. seenPing' \in [Announcements -> 0 .. Never]
  <2>1. a \in 0 .. Never /\ g[b] \in 0 .. Never
    BY <1>a
  <2>2. seenPing' = g \/ seenPing' = [g EXCEPT ![b] = a] \/ seenPing' = [g EXCEPT ![b] = g[b]]
    BY <1>b
  <2> QED BY <1>a, <2>1, <2>2
<1>6. entry' \in Entry
  <2>1. CASE entry' \in {entry, e}
    BY <2>1, <1>1, <1>2
  <2>2. CASE \E x \in BOOLEAN : entry' = UpdateFromNewBroadcast(e, b, a, block, x)
    BY <2>2, <1>2, UpdateType
  <2> QED BY <1>3, <2>1, <2>2
<1> QED BY <1>4, <1>5, <1>6 DEF EntryOK, SeenOK

LEMMA ListUpdateType ==
  ASSUME TypeOK, NEW b \in Announcements, NEW a \in 0 .. Old, NEW block,
         NEW fRecovery \in BOOLEAN,
         NEW s \in [Announcements -> {"no", "whole", "empty"}],
         NEW sp \in [Announcements -> 0 .. Never],
         ListUpdate(b, a, block, fRecovery, s, sp)
  PROVE EntryOK' /\ SeenOK'
<1>1. CASE entry' = entry /\ seen' = s /\ seenPing' = sp
  BY <1>1 DEF TypeOK, EntryOK, SeenOK
<1>2. CASE AddsEntry(b, a, block, s, sp)
  BY <1>2, AddsType
<1>3. CASE UpdatesEntry(b, a, block, fRecovery, s, sp)
  BY <1>3, UpdatesType
<1> QED BY <1>1, <1>2, <1>3 DEF ListUpdate
\* What an action leaves alone stays well typed.
LEMMA RecoveryKept == ASSUME TypeOK, UNCHANGED recoveryVars PROVE RecoveryOK'
  BY DEF TypeOK, RecoveryOK, recoveryVars
LEMMA WorldKept == ASSUME TypeOK, UNCHANGED <<pool, worldVars>> PROVE WorldOK'
  BY DEF TypeOK, WorldOK, worldVars
LEMMA SeenKept == ASSUME TypeOK, UNCHANGED <<seen, seenPing>> PROVE SeenOK'
  BY DEF TypeOK, SeenOK

LEMMA NewAnnouncementType ==
  ASSUME TypeOK, NEW b \in Announcements, NEW a \in 0 .. Old, NEW block,
         NewAnnouncement(b, a, block)
  PROVE ProgramOK'
<1> DEFINE s == [seen EXCEPT ![b] = "whole"]
           sp == [seenPing EXCEPT ![b] = a]
<1>1. /\ s \in [Announcements -> {"no", "whole", "empty"}]
      /\ sp \in [Announcements -> 0 .. Never]
  BY DEF TypeOK, SeenOK
<1>2. ListUpdate(b, a, block, FALSE, s, sp) /\ UNCHANGED <<recoveryVars, pool, worldVars>>
  BY DEF NewAnnouncement
<1> HIDE DEF s, sp
<1>3. EntryOK' /\ SeenOK'
  BY <1>1, <1>2, ListUpdateType
<1> QED BY <1>2, <1>3, RecoveryKept, WorldKept DEF TypeOK, ProgramOK

LEMMA SafenodePingType ==
  ASSUME TypeOK, NEW a \in 0 .. Old, NEW block, SafenodePing(a, block) PROVE ProgramOK'
<1>1. entry \in Entry
  BY ListedEntry DEF SafenodePing
<1>2. entry' \in Entry
  <2>1. PICK x \in BOOLEAN : entry' = Check([entry EXCEPT !.pingAge = a, !.early = x], TRUE)
    BY DEF SafenodePing, Earlies
  <2>2. [entry EXCEPT !.pingAge = a, !.early = x] \in Entry
    BY <1>1 DEF Entry
  <2> QED BY <2>1, <2>2, CheckType
<1>3. SeenOK'
  <2>1. entry.mnb \in Announcements
    BY <1>1 DEF Entry
  <2>2. a \in 0 .. Never /\ seenPing[entry.mnb] \in 0 .. Never
    BY <2>1 DEF TypeOK, SeenOK
  <2>3. \E n \in 0 .. Never : seenPing' = [seenPing EXCEPT ![entry.mnb] = n]
    BY <2>2 DEF SafenodePing
  <2> QED BY <2>1, <2>3 DEF SafenodePing, TypeOK, SeenOK
<1>4. UNCHANGED <<recoveryVars, pool, worldVars>>
  BY DEF SafenodePing
<1> QED BY <1>2, <1>3, <1>4, RecoveryKept, WorldKept DEF TypeOK, ProgramOK, EntryOK

LEMMA RecoveryReplyType ==
  ASSUME TypeOK, NEW b \in Announcements, NEW a \in 0 .. Old, NEW p \in Peers,
         RecoveryReply(b, a, p)
  PROVE ProgramOK'
<1>1. UNCHANGED <<entry, seen, seenPing, request, pool, worldVars>>
  BY DEF RecoveryReply
<1>2. asked' \in [Announcements -> SUBSET Peers]
  BY DEF RecoveryReply, Answered, TypeOK, RecoveryOK
<1>3. replies' \in [Announcements -> [by : SUBSET Peers, age : 0 .. Old]]
  <2>1. replies[b] \in [by : SUBSET Peers, age : 0 .. Old]
    BY DEF TypeOK, RecoveryOK
  <2>2. \/ replies' = replies
        \/ replies' = [replies EXCEPT ![b] =
              [by |-> replies[b].by \cup {p},
               age |-> IF replies[b].by = {} THEN a ELSE replies[b].age]]
    BY DEF RecoveryReply
  <2>3. [by |-> replies[b].by \cup {p}, age |-> IF replies[b].by = {} THEN a ELSE replies[b].age]
          \in [by : SUBSET Peers, age : 0 .. Old]
    BY <2>1
  <2>4. replies \in [Announcements -> [by : SUBSET Peers, age : 0 .. Old]]
    BY DEF TypeOK, RecoveryOK
  <2> QED BY <2>2, <2>3, <2>4
<1>4. RecoveryOK'
  BY <1>1, <1>2, <1>3 DEF TypeOK, RecoveryOK
<1>5. EntryOK'
  BY <1>1 DEF TypeOK, EntryOK
<1> QED BY <1>1, <1>4, <1>5, SeenKept, WorldKept DEF TypeOK, ProgramOK

LEMMA CheckAllType ==
  ASSUME TypeOK, NEW lockMain \in BOOLEAN, CheckAll(lockMain) PROVE ProgramOK'
<1>1. entry \in Entry
  BY ListedEntry DEF CheckAll
<1>2. [entry EXCEPT !.checked = TRUE] \in Entry
  BY <1>1 DEF Entry
<1>3. entry' \in Entry
  BY <1>1, <1>2, CheckType DEF CheckAll
<1>4. UNCHANGED <<seen, seenPing, recoveryVars, pool, worldVars>>
  BY DEF CheckAll
<1> QED BY <1>3, <1>4, SeenKept, RecoveryKept, WorldKept DEF TypeOK, ProgramOK, EntryOK

LEMMA CheckAndRemoveType == ASSUME TypeOK, CheckAndRemove PROVE ProgramOK'
<1>1. pool' = "replies" /\ UNCHANGED <<seenPing, replies, worldVars>>
  BY DEF CheckAndRemove
<1>2. WorldOK'
  BY <1>1 DEF TypeOK, WorldOK, worldVars
<1>3. EntryOK'
  <2>1. CASE ~Listed
    BY <2>1 DEF CheckAndRemove, TypeOK, EntryOK
  <2>2. CASE Listed
    <3>1. Check(entry, FALSE) \in Entry
      BY <2>2, ListedEntry, CheckType
    <3>2. entry' \in {NoEntry, Check(entry, FALSE)}
      BY <2>2 DEF CheckAndRemove
    <3> QED BY <3>1, <3>2 DEF EntryOK
  <2> QED BY <2>1, <2>2
<1>4. SeenOK'
  <2>1. seen' = seen \/ (Listed /\ seen' = [seen EXCEPT ![entry.mnb] = "no"])
    BY DEF CheckAndRemove
  <2> QED BY <1>1, <2>1 DEF TypeOK, SeenOK
<1>5. RecoveryOK'
  <2>1. \/ UNCHANGED <<request, asked>>
        \/ \E i \in Announcements, Q \in SUBSET Peers : AsksPeers(i, Q)
    <3>1. CASE Listed
      <4>1. Check(entry, FALSE).mnb \in Announcements
        BY <3>1, ListedEntry, CheckType DEF Entry
      <4> QED BY <3>1, <4>1 DEF CheckAndRemove
    <3> QED BY <3>1 DEF CheckAndRemove
  <2>2. CASE UNCHANGED <<request, asked>>
    BY <1>1, <2>2 DEF TypeOK, RecoveryOK
  <2>3. ASSUME NEW i \in Announcements, NEW Q \in SUBSET Peers, AsksPeers(i, Q)
        PROVE RecoveryOK'
    BY <1>1, <2>3 DEF AsksPeers, TypeOK, RecoveryOK
  <2> QED BY <2>1, <2>2, <2>3
<1> QED BY <1>2, <1>3, <1>4, <1>5 DEF TypeOK, ProgramOK
LEMMA ProcessRepliesType ==
  ASSUME TypeOK, NEW b \in Announcements, NEW block, ProcessReplies(b, block) PROVE ProgramOK'
<1> DEFINE s == [seen EXCEPT ![b] = IF @ = "no" THEN "whole" ELSE @]
           sp == [seenPing EXCEPT ![b] = IF seen[b] = "no" THEN replies[b].age ELSE @]
<1>1. replies[b] \in [by : SUBSET Peers, age : 0 .. Old]
  BY DEF TypeOK, RecoveryOK
<1>2. replies[b].age \in 0 .. Old /\ replies[b].age \in 0 .. Never
  BY <1>1
<1>3. /\ s \in [Announcements -> {"no", "whole", "empty"}]
      /\ sp \in [Announcements -> 0 .. Never]
  BY <1>2 DEF TypeOK, SeenOK
<1>4. \/ UNCHANGED <<entry, seen, seenPing>>
      \/ ListUpdate(b, replies[b].age, block, TRUE, s, sp)
  BY DEF ProcessReplies
<1>5. /\ replies' = [replies EXCEPT ![b] = NoReplies]
      /\ UNCHANGED <<request, asked, pool, worldVars>>
  BY DEF ProcessReplies
<1> HIDE DEF s, sp
<1>6. EntryOK' /\ SeenOK'
  <2>1. CASE UNCHANGED <<entry, seen, seenPing>>
    BY <2>1, SeenKept DEF TypeOK, EntryOK
  <2>2. CASE ListUpdate(b, replies[b].age, block, TRUE, s, sp)
    BY <2>2, <1>2, <1>3, ListUpdateType
  <2> QED BY <1>4, <2>1, <2>2
<1>7. RecoveryOK'
  <2>1. NoReplies \in [by : SUBSET Peers, age : 0 .. Old]
    BY DEF NoReplies
  <2> QED BY <1>5, <2>1 DEF TypeOK, RecoveryOK
<1> QED BY <1>5, <1>6, <1>7, WorldKept DEF TypeOK, ProgramOK

LEMMA EndSweepType == ASSUME TypeOK, EndSweep PROVE ProgramOK'
<1>1. RecoveryOK'
  BY DEF EndSweep, TypeOK, RecoveryOK
<1>2. WorldOK'
  BY DEF EndSweep, TypeOK, WorldOK, worldVars
<1>3. EntryOK' /\ SeenOK'
  BY SeenKept DEF EndSweep, TypeOK, EntryOK
<1> QED BY <1>1, <1>2, <1>3 DEF TypeOK, ProgramOK

LEMMA ServeListType == ASSUME TypeOK, ServeList PROVE ProgramOK'
<1>1. entry \in Entry
  BY ListedEntry DEF ServeList
<1>2. entry.mnb \in Announcements /\ entry.pingAge \in 0 .. Never
  BY <1>1 DEF Entry
<1>3. SeenOK'
  BY <1>2 DEF ServeList, TypeOK, SeenOK
<1>4. UNCHANGED <<entry, recoveryVars, pool, worldVars>>
  BY DEF ServeList
<1> QED BY <1>3, <1>4, RecoveryKept, WorldKept DEF TypeOK, ProgramOK, EntryOK

LEMMA OlderType ==
  ASSUME NEW last \in Nat, NEW a \in 0 .. last PROVE Older(a, last) \in 0 .. last
  BY DEF Older

\* The clock.
LEMMA TickType == ASSUME TypeOK, Tick PROVE ProgramOK'
<1>1. EntryOK'
  <2>1. CASE ~Listed
    BY <2>1 DEF Tick, TypeOK, EntryOK
  <2>2. CASE Listed
    <3>1. entry \in Entry /\ entry.pingAge \in 0 .. Old
      BY <2>2, ListedEntry DEF Entry
    <3>2. Older(entry.pingAge, Old) \in 0 .. Old
      BY <3>1, OlderType
    <3>3. entry' = [entry EXCEPT !.pingAge = Older(entry.pingAge, Old), !.checked = FALSE]
      BY <2>2 DEF Tick
    <3> QED BY <3>1, <3>2, <3>3 DEF EntryOK, Entry
  <2> QED BY <2>1, <2>2
<1>2. SeenOK'
  <2>1. \A b \in Announcements : Older(seenPing[b], Old) \in 0 .. Never
    BY DEF TypeOK, SeenOK, Older
  <2> QED BY <2>1 DEF Tick, TypeOK, SeenOK
<1>3. RecoveryOK'
  <2>1. ASSUME NEW b \in Announcements
        PROVE (IF replies[b].by = {} THEN NoReplies
               ELSE [replies[b] EXCEPT !.age = Older(@, Old)])
                \in [by : SUBSET Peers, age : 0 .. Old]
    <3>1. replies[b] \in [by : SUBSET Peers, age : 0 .. Old]
      BY DEF TypeOK, RecoveryOK
    <3>2. Older(replies[b].age, Old) \in 0 .. Old
      BY <3>1, OlderType
    <3> QED BY <3>1, <3>2 DEF NoReplies
  <2>2. replies' \in [Announcements -> [by : SUBSET Peers, age : 0 .. Old]]
    BY <2>1 DEF Tick
  <2>3. request' \in [Announcements -> None .. RecoveryWait + RecoveryRetry]
    BY DEF Tick, TypeOK, RecoveryOK
  <2> QED BY <2>2, <2>3 DEF Tick, TypeOK, RecoveryOK
<1>4. WorldOK'
  <2>1. \A b \in Announcements : (IF b <= signed THEN Older(sigAge[b], Old + MinMnp - 1) ELSE 0) \in SigAges
    BY DEF TypeOK, WorldOK, Older, SigAges
  <2>2. sigAge' \in [Announcements -> SigAges]
    BY <2>1 DEF Tick
  <2>3. silent' \in 0 .. Old
    BY DEF Tick, TypeOK, WorldOK, Older
  <2> QED BY <2>2, <2>3 DEF Tick, TypeOK, WorldOK
<1> QED BY <1>1, <1>2, <1>3, <1>4 DEF TypeOK, ProgramOK

LEMMA WorldType ==
  ASSUME TypeOK, Sign \/ Die \/ NewBlock \/ NextStage \/ Disturb PROVE ProgramOK'
<1>1. UNCHANGED <<seen, seenPing, recoveryVars>>
  BY DEF Sign, Die, NewBlock, NextStage, Disturb
<1>2. EntryOK'
  <2>1. CASE entry' = entry
    BY <2>1 DEF TypeOK, EntryOK
  <2>2. CASE NewBlock /\ Listed /\ entry' = [entry EXCEPT !.banLeft = @ - 1] /\ entry.banLeft > 0
    BY <2>2, ListedEntry DEF EntryOK, Entry
  <2>3. CASE Listed /\ entry' \in {[entry EXCEPT !.score = Lower(@)],
                                   [entry EXCEPT !.score = Higher(@)]}
    <3>1. entry \in Entry /\ entry.score \in -MaxScore .. MaxScore
      BY <2>3, ListedEntry DEF Entry
    <3>2. /\ Lower(entry.score) \in -MaxScore .. MaxScore
          /\ Higher(entry.score) \in -MaxScore .. MaxScore
      BY <3>1, LowerType, HigherType
    <3> QED BY <2>3, <3>1, <3>2 DEF EntryOK, Entry
  <2> QED BY <2>1, <2>2, <2>3 DEF Sign, Die, NewBlock, NextStage, Disturb
<1>3. WorldOK'
  <2>1. CASE Sign
    BY <2>1 DEF Sign, TypeOK, WorldOK
  <2>2. CASE Die
    BY <2>2 DEF Die, TypeOK, WorldOK
  <2>3. CASE NewBlock
    BY <2>3 DEF NewBlock, TypeOK, WorldOK, Coins
  <2>4. CASE NextStage
    BY <2>4 DEF NextStage, TypeOK, WorldOK
  <2>5. CASE Disturb
    <3>1. /\ coin' \in Coins /\ sync' \in 0 .. Everything /\ outdated' \in BOOLEAN
          /\ disturbances' \in 0 .. MaxDisturbances
      <4>1. disturbances' \in 0 .. MaxDisturbances
        <5>1. disturbances < MaxDisturbances /\ disturbances' = disturbances + 1
          BY <2>5 DEF Disturb
        <5>2. disturbances \in 0 .. MaxDisturbances
          BY DEF TypeOK, WorldOK
        <5> QED BY <5>1, <5>2, CountAssumption
      <4>2. coin' \in Coins
        BY <2>5 DEF Disturb, TypeOK, WorldOK, Coins
      <4>3. sync' \in {0, sync} /\ outdated' \in {outdated, ~outdated}
        BY <2>5 DEF Disturb
      <4>4. outdated' \in BOOLEAN
        <5>1. outdated \in BOOLEAN
          BY DEF TypeOK, WorldOK
        <5> QED BY <4>3, <5>1, Zenon
      <4>5. sync' \in 0 .. Everything
        BY <4>3 DEF TypeOK, WorldOK
      <4> QED BY <4>1, <4>2, <4>4, <4>5
    <3> QED BY <2>5, <3>1 DEF Disturb, TypeOK, WorldOK
  <2> QED BY <2>1, <2>2, <2>3, <2>4, <2>5
<1> QED BY <1>1, <1>2, <1>3, SeenKept, RecoveryKept DEF TypeOK, ProgramOK

LEMMA StutterType == ASSUME TypeOK, UNCHANGED vars PROVE ProgramOK'
  BY SeenKept, RecoveryKept, WorldKept DEF vars, programVars, TypeOK, ProgramOK, EntryOK

\* The pings that can be in the hands of the network have an age.
LEMMA PingAgeType == ASSUME TypeOK, NEW b PROVE PingAges(b) \subseteq 0 .. Old
  BY DEF PingAges, TypeOK, WorldOK

\* The owner's start at this node: a new announcement is the entry's.
LEMMA StartHereEntry ==
  ASSUME TypeOK, NEW lockMain \in BOOLEAN, StartHere(lockMain)
  PROVE /\ signed + 1 \in Announcements
        /\ Listed' /\ entry' \in Entry /\ entry'.mnb = signed + 1
<1> DEFINE b == signed + 1
           new == Replacement(entry, b, TRUE)
           pinged == [new EXCEPT !.pingAge = 0]
           unchecked == [pinged EXCEPT !.checked = TRUE]
<1>1. b \in Announcements
  BY DEF StartHere, TypeOK, WorldOK
<1>2. CASE ~Listed
  <2>1. entry' = [state |-> "ENABLED", mnb |-> b, pingAge |-> 0, early |-> TRUE,
                  score |-> 0, banLeft |-> 0, checked |-> FALSE]
    BY <1>2 DEF StartHere
  <2>2. 0 \in -MaxScore .. MaxScore /\ 0 \in 0 .. Cycle /\ "ENABLED" \in States /\ 0 \in 0 .. Old
    BY DEF States
  <2>3. entry' \in Entry /\ entry'.mnb = b
    BY <1>1, <2>1, <2>2 DEF Entry
  <2> QED BY <1>1, <2>3, EntryIsListed DEF Listed
<1>3. CASE Listed
  <2>1. new \in Entry /\ new.mnb = b
    BY <1>1, <1>3, ListedEntry, ReplacementType
  <2>2. entry' \in {new, Check(pinged, TRUE), unchecked}
    BY <1>3 DEF StartHere
  <2> HIDE DEF new
  <2>3. pinged \in Entry /\ pinged.mnb = b
    BY <2>1 DEF Entry
  <2> HIDE DEF pinged
  <2>4. unchecked \in Entry /\ unchecked.mnb = b
    BY <2>3 DEF Entry
  <2>5. Check(pinged, TRUE) \in Entry /\ Check(pinged, TRUE).mnb = b
    BY <2>3, CheckType, CheckKeeps
  <2>6. entry' \in Entry /\ entry'.mnb = b
    BY <2>1, <2>2, <2>4, <2>5
  <2> QED BY <1>1, <2>6, EntryIsListed DEF Listed
<1> QED BY <1>2, <1>3

LEMMA StartHereType ==
  ASSUME TypeOK, NEW lockMain \in BOOLEAN, StartHere(lockMain) PROVE ProgramOK'
<1> DEFINE b == signed + 1
           s == [seen EXCEPT ![b] = "whole"]
<1>1. b \in Announcements /\ entry' \in Entry
  BY StartHereEntry
<1>2. s \in [Announcements -> {"no", "whole", "empty"}]
  BY DEF TypeOK, SeenOK
<1>a. 0 \in 0 .. Never /\ seenPing \in [Announcements -> 0 .. Never]
  BY DEF TypeOK, SeenOK
<1>3. ASSUME ~Listed PROVE SeenOK'
  <2>1. seen' = s /\ seenPing' = [seenPing EXCEPT ![b] = 0]
    BY <1>3 DEF StartHere
  <2> HIDE DEF s
  <2> QED BY <1>2, <1>a, <2>1 DEF SeenOK
<1>4. ASSUME Listed PROVE SeenOK'
  <2> DEFINE k == Replaced(LookedUp(s), b)
             g == LookedUpPing(s, seenPing)
  <2>1. seen' = k /\ seenPing' = [g EXCEPT ![b] = 0]
    BY <1>4 DEF StartHere
  <2> HIDE DEF s
  <2>2. k \in [Announcements -> {"no", "whole", "empty"}] /\ g \in [Announcements -> 0 .. Never]
    BY <1>1, <1>2, <1>4, <1>a, MarksType
  <2> HIDE DEF k, g
  <2> QED BY <1>a, <2>1, <2>2 DEF SeenOK
<1>5. UNCHANGED <<recoveryVars, pool, coin, premature, sync, outdated, sigAge, alive,
                  disturbances>>
      /\ signed' = b /\ silent' = 0
  BY DEF StartHere
<1>6. RecoveryOK'
  BY <1>5, RecoveryKept
<1>7. WorldOK'
  BY <1>1, <1>5 DEF TypeOK, WorldOK
<1>8. SeenOK'
  BY <1>3, <1>4
<1> QED BY <1>1, <1>6, <1>7, <1>8 DEF EntryOK, ProgramOK

\* A step of the program, and what is noted of it.
Step ==
    \/ \E b \in Announcements : Announce(b) \/ Replies(b)
    \/ \E a \in silent .. Old, block \in PingBlocks : SafenodePing(a, block)
    \/ \E lockMain \in BOOLEAN : CheckAll(lockMain) \/ StartHere(lockMain)
    \/ CheckAndRemove \/ EndSweep \/ ServeList
    \/ Tick \/ Sign \/ Die \/ NewBlock \/ NextStage \/ Disturb

LEMMA NextIsStep == Next => Step /\ \E A : Noted(A)
  BY DEF Next, Step

LEMMA NotedType == ASSUME LapseOK, NEW A, Noted(A) PROVE LapseOK'
<1> DEFINE goesOn == /\ Listed /\ Listed' /\ entry'.state # "OUTPOINT_SPENT"
                     /\ entry'.mnb = entry.mnb /\ entry.mnb \notin A
           silence == IF goesOn THEN lapse ELSE "no"
<1>1. silence \in {"no", "silent", "outdated", "excused"}
  BY DEF LapseOK
<1>2. lapse' \in {"silent", "outdated", "excused", silence}
  BY DEF Noted
<1> HIDE DEF silence
<1> QED BY <1>1, <1>2 DEF LapseOK

\* One step, by the actions it may be.
LEMMA StepType == ASSUME TypeOK, Step PROVE ProgramOK'
<1>1. ASSUME NEW b \in Announcements, Announce(b) PROVE ProgramOK'
  <2>1. PingAges(b) \subseteq 0 .. Old
    BY PingAgeType
  <2> QED BY <1>1, <2>1, NewAnnouncementType, RecoveryReplyType DEF Announce
<1>2. ASSUME NEW b \in Announcements, Replies(b) PROVE ProgramOK'
  BY <1>2, ProcessRepliesType DEF Replies
<1>3. ASSUME NEW a \in silent .. Old, NEW block, SafenodePing(a, block) PROVE ProgramOK'
  <2>1. a \in 0 .. Old
    BY DEF TypeOK, WorldOK
  <2> QED BY <1>3, <2>1, SafenodePingType
<1>4. ASSUME NEW lockMain \in BOOLEAN, CheckAll(lockMain) \/ StartHere(lockMain)
      PROVE ProgramOK'
  BY <1>4, CheckAllType, StartHereType
<1> QED BY <1>1, <1>2, <1>3, <1>4, CheckAndRemoveType, EndSweepType, ServeListType, TickType,
           WorldType DEF Step

LEMMA NextType == ASSUME TypeOK, [Next]_vars PROVE TypeOK'
<1>1. CASE Next
  <2>1. Step /\ \E A : Noted(A)
    BY <1>1, NextIsStep
  <2>2. LapseOK'
    BY <2>1, NotedType DEF TypeOK
  <2> QED BY <2>1, <2>2, StepType DEF TypeOK, ProgramOK
<1>2. CASE UNCHANGED vars
  <2>1. LapseOK'
    BY <1>2 DEF vars, TypeOK, LapseOK
  <2> QED BY <1>2, <2>1, StutterType DEF TypeOK, ProgramOK
<1> QED BY <1>1, <1>2

\* Every reachable state is well typed, for every number of announcements and peers.
THEOREM TypeCorrect == Spec => []TypeOK
<1>1. Init => TypeOK
  BY InitType DEF Init, TypeOK, ProgramOK, LapseOK
<1>2. TypeOK /\ [Next]_vars => TypeOK'
  BY NextType
<1> QED BY <1>1, <1>2, PTL DEF Spec
-----------------------------------------------------------------------------
(* The answers to a recovery request.                                        *)

\* The actions that leave the recovery alone.
LEMMA RoundKept == ASSUME RepliesOfThisRound, UNCHANGED recoveryVars PROVE RepliesOfThisRound'
  BY DEF RepliesOfThisRound, recoveryVars

\* A peer answers: it was asked in this round, and is not asked any more.
LEMMA RoundReply ==
  ASSUME TypeOK, RepliesOfThisRound, NEW b \in Announcements, NEW a, NEW p \in Peers,
         RecoveryReply(b, a, p)
  PROVE RepliesOfThisRound'
<1>1. request' = request /\ asked' = [asked EXCEPT ![b] = @ \ {p}] /\ request[b] # None
  BY DEF RecoveryReply, Answered, Waits, TypeOK, RecoveryOK
<1>2. asked'[b] = asked[b] \ {p} /\ \A i \in Announcements \ {b} : asked'[i] = asked[i]
  BY <1>1 DEF TypeOK, RecoveryOK
<1>3. /\ replies'[b].by \subseteq replies[b].by \cup {p}
      /\ \A i \in Announcements \ {b} : replies'[i] = replies[i]
  BY DEF RecoveryReply, TypeOK, RecoveryOK
<1> SUFFICES ASSUME NEW i \in Announcements, replies'[i].by # {}
             PROVE request'[i] # None /\ replies'[i].by \cap asked'[i] = {}
  BY DEF RepliesOfThisRound
<1>4. CASE i = b
  <2>1. replies[b].by \cap asked[b] = {}
    BY DEF RepliesOfThisRound
  <2> QED BY <1>1, <1>2, <1>3, <1>4, <2>1
<1>5. CASE i # b
  BY <1>1, <1>2, <1>3, <1>5 DEF RepliesOfThisRound
<1> QED BY <1>4, <1>5

\* A new request is made when the one before is gone, and its answers with it.
LEMMA RoundAsked ==
  ASSUME TypeOK, RepliesOfThisRound, CheckAndRemove PROVE RepliesOfThisRound'
<1>1. replies' = replies
  BY DEF CheckAndRemove
<1>2. CASE UNCHANGED <<request, asked>>
  BY <1>1, <1>2, RoundKept DEF recoveryVars
<1>3. CASE ~UNCHANGED <<request, asked>>
  <2>1. \E i \in Announcements, Q \in SUBSET Peers : request[i] = None /\ AsksPeers(i, Q)
    <3>1. Listed
      BY <1>3 DEF CheckAndRemove
    <3>2. Check(entry, FALSE).mnb \in Announcements
      BY <3>1, ListedEntry, CheckType DEF Entry
    <3> QED BY <1>3, <3>1, <3>2 DEF CheckAndRemove
  <2>2. PICK i \in Announcements, Q \in SUBSET Peers : request[i] = None /\ AsksPeers(i, Q)
    BY <2>1
  <2>3. replies[i].by = {}
    BY <2>2 DEF RepliesOfThisRound
  <2>4. \A j \in Announcements \ {i} : request'[j] = request[j] /\ asked'[j] = asked[j]
    BY <2>2 DEF AsksPeers, TypeOK, RecoveryOK
  <2> QED BY <1>1, <2>3, <2>4 DEF RepliesOfThisRound
<1> QED BY <1>2, <1>3

LEMMA RoundProcessed ==
  ASSUME TypeOK, RepliesOfThisRound, NEW b \in Announcements, NEW block,
         ProcessReplies(b, block)
  PROVE RepliesOfThisRound'
<1>1. /\ request' = request /\ asked' = asked
      /\ replies'[b].by = {} /\ \A i \in Announcements \ {b} : replies'[i] = replies[i]
  BY DEF ProcessReplies, NoReplies, TypeOK, RecoveryOK
<1> QED BY <1>1 DEF RepliesOfThisRound

\* A request is forgotten when its wait is over, and by then its answers were judged.
LEMMA RoundForgotten ==
  ASSUME TypeOK, RepliesOfThisRound, EndSweep PROVE RepliesOfThisRound'
<1> SUFFICES ASSUME NEW b \in Announcements, replies'[b].by # {}
             PROVE request'[b] # None /\ replies'[b].by \cap asked'[b] = {}
  BY DEF RepliesOfThisRound
<1>1. replies' = replies
  BY DEF EndSweep
<1>2. Waits(b)
  BY <1>1 DEF EndSweep, Due
<1>3. request[b] # 0 /\ request[b] # None
  BY <1>2 DEF Waits, TypeOK, RecoveryOK
<1>4. request'[b] = request[b] /\ asked'[b] = asked[b]
  BY <1>3 DEF EndSweep
<1> QED BY <1>1, <1>3, <1>4 DEF RepliesOfThisRound

LEMMA RoundTick == ASSUME TypeOK, RepliesOfThisRound, Tick PROVE RepliesOfThisRound'
<1> SUFFICES ASSUME NEW b \in Announcements, replies'[b].by # {}
             PROVE request'[b] # None /\ replies'[b].by \cap asked'[b] = {}
  BY DEF RepliesOfThisRound
<1>1. asked' = asked
  BY DEF Tick
<1>2. replies'[b].by = replies[b].by
  <2>1. replies[b] \in [by : SUBSET Peers, age : 0 .. Old]
    BY DEF TypeOK, RecoveryOK
  <2>2. replies'[b] = IF replies[b].by = {} THEN NoReplies
                      ELSE [replies[b] EXCEPT !.age = Older(@, Old)]
    BY DEF Tick
  <2> QED BY <2>1, <2>2 DEF NoReplies
<1>3. request[b] # None /\ replies[b].by \cap asked[b] = {}
  BY <1>2 DEF RepliesOfThisRound
<1>4. request'[b] # None
  BY <1>3 DEF Tick, TypeOK, RecoveryOK
<1> QED BY <1>1, <1>2, <1>3, <1>4

LEMMA RoundStep == ASSUME TypeOK, RepliesOfThisRound, Step PROVE RepliesOfThisRound'
<1>1. ASSUME NEW b \in Announcements, Announce(b) PROVE RepliesOfThisRound'
  BY <1>1, RoundReply, RoundKept DEF Announce, NewAnnouncement
<1>2. ASSUME NEW b \in Announcements, Replies(b) PROVE RepliesOfThisRound'
  BY <1>2, RoundProcessed DEF Replies
<1>3. ASSUME NEW a, NEW block, SafenodePing(a, block) PROVE RepliesOfThisRound'
  BY <1>3, RoundKept DEF SafenodePing
<1>4. ASSUME NEW lockMain, CheckAll(lockMain) \/ StartHere(lockMain)
      PROVE RepliesOfThisRound'
  BY <1>4, RoundKept DEF CheckAll, StartHere
<1>5. ASSUME ServeList \/ Sign \/ Die \/ NewBlock \/ NextStage \/ Disturb
      PROVE RepliesOfThisRound'
  BY <1>5, RoundKept DEF ServeList, Sign, Die, NewBlock, NextStage, Disturb
<1> QED BY <1>1, <1>2, <1>3, <1>4, <1>5, RoundAsked, RoundForgotten, RoundTick DEF Step

\* What is counted for a recovery are the answers of different peers to the request that
\* is on record, for any quorum and any number of peers.
THEOREM RepliesHold == Spec => []RepliesOfThisRound
<1>1. Init => RepliesOfThisRound
  BY DEF Init, RepliesOfThisRound, NoReplies
<1>2. TypeOK /\ RepliesOfThisRound /\ [Next]_vars => RepliesOfThisRound'
  BY NextIsStep, RoundStep, RoundKept DEF vars, programVars
<1> QED BY <1>1, <1>2, TypeCorrect, PTL DEF Spec
-----------------------------------------------------------------------------
(* A ban is served.                                                          *)

\* Banned for n blocks more, or gone with its collateral.
Barred(e, n) == e.state = "OUTPOINT_SPENT" \/ (e.state = "POSE_BAN" /\ e.banLeft = n)

LEMMA CheckSpent ==
  ASSUME NEW e \in Entry, e.state = "OUTPOINT_SPENT", NEW force \in BOOLEAN
  PROVE Check(e, force).state = "OUTPOINT_SPENT"
<1> DEFINE c == [e EXCEPT !.checked = TRUE]
<1>1. c.state = "OUTPOINT_SPENT"
  BY DEF Entry
<1>2. Check(e, force) \in {e, Checks(c)}
  BY DEF Check
<1> HIDE DEF c
<1>3. Checks(c) = c
  BY <1>1 DEF Checks
<1> QED BY <1>1, <1>2, <1>3

LEMMA CheckBan ==
  ASSUME NEW e \in Entry, e.state = "POSE_BAN", e.banLeft # 0, NEW force \in BOOLEAN
  PROVE Barred(Check(e, force), e.banLeft)
<1> DEFINE c == [e EXCEPT !.checked = TRUE]
<1>1. c \in Entry /\ c.state = "POSE_BAN" /\ c.banLeft = e.banLeft
  BY DEF Entry
<1>2. Check(e, force) \in {e, Checks(c)}
  BY DEF Check
<1> HIDE DEF c
<1>3. Checks(c) = Rechecked(c)
  BY <1>1 DEF Checks
<1>4. CASE coin = "absent"
  <2>1. Rechecked(c) = [c EXCEPT !.state = "OUTPOINT_SPENT"]
    BY <1>4 DEF Rechecked
  <2>2. Rechecked(c).state = "OUTPOINT_SPENT"
    BY <1>1, <2>1 DEF Entry
  <2> QED BY <1>2, <1>3, <2>2 DEF Barred
<1>5. CASE coin # "absent"
  <2>1. ~Served(c)
    BY <1>1 DEF Served
  <2>2. Rechecked(c) = c
    BY <1>1, <1>5, <2>1 DEF Rechecked
  <2> QED BY <1>1, <1>2, <1>3, <2>2 DEF Barred
<1> QED BY <1>4, <1>5

\* An announcement does not bring back what is spent.
LEMMA UpdateSpent ==
  ASSUME NEW e \in Entry, e.state = "OUTPOINT_SPENT", NEW b \in Announcements,
         NEW a \in 0 .. Old, NEW block, NEW x \in BOOLEAN
  PROVE UpdateFromNewBroadcast(e, b, a, block, x).state = "OUTPOINT_SPENT"
<1> DEFINE new == Replacement(e, b, x)
           late == [new EXCEPT !.pingAge = a]
<1>1. /\ new \in Entry /\ late \in Entry
      /\ new.state = "OUTPOINT_SPENT" /\ late.state = "OUTPOINT_SPENT"
  <2>1. 0 \in -MaxScore .. MaxScore /\ 0 \in 0 .. Cycle
    OBVIOUS
  <2>2. new \in Entry /\ new.state = "OUTPOINT_SPENT"
    BY <2>1 DEF Entry, Replacement
  <2> HIDE DEF new
  <2> QED BY <2>2 DEF Entry
<1>2. UpdateFromNewBroadcast(e, b, a, block, x)
        = Check(IF Acceptable(new, a, block) THEN Check(late, TRUE) ELSE new, FALSE)
  BY DEF UpdateFromNewBroadcast
<1> HIDE DEF new, late
<1>3. Check(late, TRUE) \in Entry /\ Check(late, TRUE).state = "OUTPOINT_SPENT"
  BY <1>1, CheckType, CheckSpent
<1> QED BY <1>1, <1>2, <1>3, CheckSpent

Serving == Listed /\ entry.state = "POSE_BAN" /\ entry.banLeft > 0

LEMMA ServingBan ==
  ASSUME TypeOK, Serving
  PROVE entry \in Entry /\ entry.banLeft # 0 /\ Barred(entry, entry.banLeft)
<1>1. entry \in Entry
  BY ListedEntry DEF Serving
<1> QED BY <1>1 DEF Serving, Barred, Entry

\* Neither a peer's announcement nor the pool thread's, after a recovery, ends a ban.
LEMMA BanAnnouncement ==
  ASSUME TypeOK, Serving, NEW b \in Announcements, NEW a \in 0 .. Old, NEW block,
         NEW fRecovery, NEW s, NEW sp, ListUpdate(b, a, block, fRecovery, s, sp)
  PROVE Barred(entry', entry.banLeft)
<1> DEFINE e == Check(entry, FALSE)
           n == entry.banLeft
<1>1. entry \in Entry /\ Barred(entry, n) /\ e \in Entry /\ Barred(e, n)
  BY ServingBan, CheckType, CheckBan DEF Serving
<1>2. entry' \in {entry, e}
        \/ (~Banned(e) /\ \E x \in BOOLEAN : entry' = UpdateFromNewBroadcast(e, b, a, block, x))
  BY DEF Serving, ListUpdate, AddsEntry, UpdatesEntry, Earlies
<1> HIDE DEF e, n
<1>3. CASE entry' \in {entry, e}
  BY <1>1, <1>3 DEF n
<1>4. CASE ~Banned(e) /\ \E x \in BOOLEAN : entry' = UpdateFromNewBroadcast(e, b, a, block, x)
  <2>1. e.state = "OUTPOINT_SPENT"
    BY <1>1, <1>4 DEF Banned, Barred
  <2>2. entry'.state = "OUTPOINT_SPENT"
    BY <1>1, <1>4, <2>1, UpdateSpent
  <2> QED BY <2>2 DEF Barred
<1> QED BY <1>2, <1>3, <1>4

LEMMA BanPing ==
  ASSUME TypeOK, Serving, NEW a \in 0 .. Old, NEW block, SafenodePing(a, block)
  PROVE Barred(entry', entry.banLeft)
<1>1. PICK x \in BOOLEAN : entry' = Check([entry EXCEPT !.pingAge = a, !.early = x], TRUE)
  BY DEF SafenodePing, Earlies
<1>2. entry \in Entry /\ entry.banLeft # 0
  BY ServingBan
<1> DEFINE e == [entry EXCEPT !.pingAge = a, !.early = x]
<1>3. e \in Entry /\ e.state = "POSE_BAN" /\ e.banLeft = entry.banLeft
  BY <1>2 DEF Entry, Serving
<1> HIDE DEF e
<1>4. Barred(Check(e, TRUE), e.banLeft)
  BY <1>2, <1>3, CheckBan
<1> QED BY <1>1, <1>3, <1>4 DEF e

LEMMA BanStep ==
  ASSUME TypeOK, Serving, Step, Listed'
  PROVE \/ Barred(entry', entry.banLeft) \/ Barred(entry', entry.banLeft - 1)
        \/ entry'.mnb > signed
<1> DEFINE n == entry.banLeft
<1>1. Listed /\ entry \in Entry /\ Barred(entry, n)
  BY ServingBan DEF Serving
<1>2. Barred(Check(entry, FALSE), n)
  BY ServingBan, CheckBan DEF Serving
<1> HIDE DEF n
<1>3. ASSUME NEW b \in Announcements, Announce(b) PROVE Barred(entry', n)
  <2>1. ASSUME NEW a \in PingAges(b), NEW block, NewAnnouncement(b, a, block)
        PROVE Barred(entry', n)
    <3>1. a \in 0 .. Old
      BY PingAgeType
    <3> QED BY <2>1, <3>1, BanAnnouncement DEF NewAnnouncement, n
  <2>2. ASSUME NEW a, NEW p, RecoveryReply(b, a, p) PROVE Barred(entry', n)
    BY <1>1, <2>2 DEF RecoveryReply
  <2> QED BY <1>3, <2>1, <2>2 DEF Announce
<1>4. ASSUME NEW b \in Announcements, Replies(b) PROVE Barred(entry', n)
  <2>1. replies[b].age \in 0 .. Old
    BY DEF TypeOK, RecoveryOK
  <2> QED BY <1>1, <1>4, <2>1, BanAnnouncement DEF Replies, ProcessReplies, n
<1>5. ASSUME NEW a \in silent .. Old, NEW block, SafenodePing(a, block)
      PROVE Barred(entry', n)
  <2>1. a \in 0 .. Old
    BY DEF TypeOK, WorldOK
  <2> QED BY <1>5, <2>1, BanPing DEF n
<1>6. ASSUME NEW lockMain, CheckAll(lockMain) PROVE Barred(entry', n)
  <2>1. Barred([entry EXCEPT !.checked = TRUE], n)
    BY <1>1 DEF Entry, Barred
  <2> QED BY <1>1, <1>2, <1>6, <2>1 DEF CheckAll
<1>7. ASSUME NEW lockMain \in BOOLEAN, StartHere(lockMain) PROVE entry'.mnb > signed
  BY <1>7, StartHereEntry DEF TypeOK, WorldOK
<1>8. ASSUME CheckAndRemove PROVE Barred(entry', n)
  BY <1>1, <1>2, <1>8 DEF CheckAndRemove, Listed
<1>9. ASSUME Tick \/ NewBlock \/ Disturb PROVE Barred(entry', n) \/ Barred(entry', n - 1)
  <2>1. \/ entry' = entry
        \/ entry' = [entry EXCEPT !.pingAge = Older(@, Old), !.checked = FALSE]
        \/ entry' = [entry EXCEPT !.banLeft = @ - 1]
        \/ entry' = [entry EXCEPT !.score = Lower(@)]
        \/ entry' = [entry EXCEPT !.score = Higher(@)]
    BY <1>1, <1>9 DEF Tick, NewBlock, Disturb
  <2> QED BY <1>1, <2>1 DEF Entry, Barred, n
<1>10. ASSUME EndSweep \/ ServeList \/ Sign \/ Die \/ NextStage PROVE Barred(entry', n)
  BY <1>1, <1>10 DEF EndSweep, ServeList, Sign, Die, NextStage
<1> QED BY <1>3, <1>4, <1>5, <1>6, <1>7, <1>8, <1>9, <1>10 DEF Step, n

\* No message, answer or sweep ends a ban before its block or brings that block nearer, for
\* any length of a ban: only the owner does, who starts the safenode at this node.
THEOREM BanServedHolds == Spec => BanServed
<1> DEFINE A == Listed /\ Listed' /\ entry.state = "POSE_BAN" /\ entry.banLeft > 0
                  => \/ /\ entry'.state = "POSE_BAN"
                        /\ entry'.banLeft = entry.banLeft \/ entry'.banLeft = entry.banLeft - 1
                     \/ entry'.state = "OUTPOINT_SPENT"
                     \/ entry'.mnb > signed
<1>1. TypeOK /\ [Next]_vars => [A]_vars
  BY NextIsStep, BanStep DEF Serving, Barred
<1>2. [][TypeOK /\ [Next]_vars]_vars => [][A]_vars
  BY <1>1, PTL
<1> QED BY <1>1, TypeCorrect, PTL DEF Spec, BanServed
-----------------------------------------------------------------------------
(* A silence is not talked away.                                             *)

\* The states a silence ends in, as long as no later announcement and no quorum comes.
Lapsed(e) ==
    /\ e.pingAge = Old
    /\ e.state = "NEW_START_REQUIRED" \/ (e.state = "UPDATE_REQUIRED" /\ sync >= List)
Unpaid(e) ==
    /\ e.pingAge = Old
    /\ e.state \in {"NEW_START_REQUIRED", "UPDATE_REQUIRED", "POSE_BAN", "OUTPOINT_SPENT"}

LEMMA LapsedIsUnpaid == ASSUME NEW e, Lapsed(e) PROVE Unpaid(e)
  BY DEF Lapsed, Unpaid

LEMMA NextStateLapsed ==
  ASSUME TypeOK, NEW e \in Entry, Lapsed(e)
  PROVE NextState(e) \in {"NEW_START_REQUIRED", "UPDATE_REQUIRED"}
<1>1. CASE outdated
  BY <1>1 DEF NextState
<1>2. CASE ~outdated /\ WaitsForPing(e)
  <2>1. e.state = "NEW_START_REQUIRED"
    BY <1>2 DEF Lapsed, WaitsForPing, TypeOK, WorldOK
  <2> QED BY <1>2, <2>1 DEF NextState
<1>3. CASE ~outdated /\ ~WaitsForPing(e)
  BY <1>3 DEF NextState, Lapsed
<1> QED BY <1>1, <1>2, <1>3

LEMMA CheckLapsed ==
  ASSUME TypeOK, NEW e \in Entry, Lapsed(e), NEW force \in BOOLEAN
  PROVE Unpaid(Check(e, force))
<1> DEFINE c == [e EXCEPT !.checked = TRUE]
<1>1. c \in Entry /\ c.state = e.state /\ c.pingAge = e.pingAge
  BY DEF Entry
<1>2. Check(e, force) \in {e, c, Rechecked(c)}
  BY DEF Check, Checks
<1> HIDE DEF c
<1>3. NextState(c) \in {"NEW_START_REQUIRED", "UPDATE_REQUIRED"}
  BY <1>1, NextStateLapsed DEF Lapsed
<1>4. \/ Rechecked(c) = [c EXCEPT !.state = "OUTPOINT_SPENT"]
      \/ Rechecked(c) = c
      \/ Rechecked(c) = [c EXCEPT !.state = "POSE_BAN", !.banLeft = Cycle]
      \/ Rechecked(c) = [c EXCEPT !.state = NextState(c),
                                  !.score = IF Served(c) THEN Lower(@) ELSE @]
  BY DEF Rechecked
<1>5. Rechecked(c).state \in {c.state, "OUTPOINT_SPENT", "POSE_BAN", NextState(c)}
  BY <1>1, <1>4 DEF Entry
<1>6. Check(e, force).state
        \in {"NEW_START_REQUIRED", "UPDATE_REQUIRED", "POSE_BAN", "OUTPOINT_SPENT"}
  BY <1>1, <1>2, <1>3, <1>5 DEF Lapsed
<1> QED BY <1>6, CheckKeeps DEF Lapsed, Unpaid

\* An announcement that is applied is the entry's from then on.
LEMMA UpdateMnb ==
  ASSUME NEW e \in Entry, NEW b \in Announcements, NEW a \in 0 .. Old, NEW block,
         NEW x \in BOOLEAN
  PROVE UpdateFromNewBroadcast(e, b, a, block, x).mnb = b
<1> DEFINE new == Replacement(e, b, x)
           late == [new EXCEPT !.pingAge = a]
<1>1. new \in Entry /\ late \in Entry /\ new.mnb = b /\ late.mnb = b
  <2>1. 0 \in -MaxScore .. MaxScore /\ 0 \in 0 .. Cycle
    OBVIOUS
  <2>2. new \in Entry /\ new.mnb = b
    BY <2>1 DEF Entry, Replacement
  <2> HIDE DEF new
  <2> QED BY <2>2 DEF Entry
<1>2. UpdateFromNewBroadcast(e, b, a, block, x)
        = Check(IF Acceptable(new, a, block) THEN Check(late, TRUE) ELSE new, FALSE)
  BY DEF UpdateFromNewBroadcast
<1> HIDE DEF new, late
<1>3. Check(late, TRUE) \in Entry /\ Check(late, TRUE).mnb = b
  BY <1>1, CheckType, CheckKeeps
<1> QED BY <1>1, <1>2, <1>3, CheckKeeps

\* An announcement brings an entry back only when it is newer, or the answer to a recovery.
LEMMA LapsedAnnouncement ==
  ASSUME TypeOK, Listed, Lapsed(entry), NEW b \in Announcements, NEW a \in 0 .. Old, NEW block,
         NEW fRecovery \in BOOLEAN, NEW s, NEW sp, ListUpdate(b, a, block, fRecovery, s, sp)
  PROVE \/ Unpaid(entry') \/ entry'.mnb # entry.mnb
        \/ fRecovery /\ entry.mnb = b
<1> DEFINE e == Check(entry, FALSE)
<1>1. entry \in Entry /\ e \in Entry /\ Unpaid(e) /\ Unpaid(entry)
  BY ListedEntry, CheckType, CheckLapsed, LapsedIsUnpaid
<1>2. \/ entry' \in {entry, e}
      \/ /\ ~(entry.mnb > b \/ (entry.mnb = b /\ ~fRecovery))
         /\ \E x \in BOOLEAN : entry' = UpdateFromNewBroadcast(e, b, a, block, x)
  BY DEF ListUpdate, AddsEntry, UpdatesEntry, Earlies
<1> HIDE DEF e
<1>3. CASE entry' \in {entry, e}
  BY <1>1, <1>3
<1>4. CASE /\ ~(entry.mnb > b \/ (entry.mnb = b /\ ~fRecovery))
           /\ \E x \in BOOLEAN : entry' = UpdateFromNewBroadcast(e, b, a, block, x)
  <2>1. entry'.mnb = b
    BY <1>1, <1>4, UpdateMnb
  <2> QED BY <1>4, <2>1
<1> QED BY <1>2, <1>3, <1>4

\* What is listed, and what a recovery was answered with, was signed.
Signed ==
    /\ Listed => entry.mnb <= signed
    /\ \A b \in Announcements : replies[b].by # {} => b <= signed

LEMMA SignedAnnouncement ==
  ASSUME TypeOK, Signed, NEW b \in Announcements, NEW a \in 0 .. Old, NEW block,
         NEW fRecovery \in BOOLEAN, NEW s, NEW sp, ListUpdate(b, a, block, fRecovery, s, sp),
         b <= signed, signed' = signed, Listed'
  PROVE entry'.mnb <= signed'
<1>1. CASE entry' = entry
  BY <1>1 DEF Signed, Listed
<1>2. CASE Listed
  <2> DEFINE e == Check(entry, FALSE)
  <2>1. entry \in Entry /\ e \in Entry /\ e.mnb = entry.mnb
    BY <1>2, ListedEntry, CheckType, CheckKeeps
  <2>2. entry' \in {entry, e} \/ \E x \in BOOLEAN : entry' = UpdateFromNewBroadcast(e, b, a, block, x)
    BY <1>2 DEF ListUpdate, AddsEntry, UpdatesEntry, Earlies
  <2> HIDE DEF e
  <2>3. entry'.mnb \in {entry.mnb, b}
    BY <2>1, <2>2, UpdateMnb
  <2> QED BY <1>2, <2>3 DEF Signed
<1>3. CASE ~Listed /\ entry' # entry
  <2>1. \E x, st : entry' = [state |-> st, mnb |-> b, pingAge |-> a, early |-> x,
                            score |-> 0, banLeft |-> 0, checked |-> FALSE]
    BY <1>3 DEF ListUpdate, AddsEntry, UpdatesEntry
  <2>2. entry'.mnb = b
    BY <2>1
  <2> QED BY <2>2
<1> QED BY <1>1, <1>2, <1>3

LEMMA SignedStep == ASSUME TypeOK, Signed, Step PROVE Signed'
<1> USE DEF Signed
<1>1. ASSUME NEW b \in Announcements, Announce(b) PROVE Signed'
  <2>1. ASSUME NEW a \in PingAges(b), NEW block, NewAnnouncement(b, a, block) PROVE Signed'
    <3>1. a \in 0 .. Old
      BY PingAgeType
    <3>2. UNCHANGED <<replies, signed>>
      BY <2>1 DEF NewAnnouncement, recoveryVars, worldVars
    <3>3. Listed' => entry'.mnb <= signed'
      BY <2>1, <3>1, <3>2, SignedAnnouncement DEF NewAnnouncement, Arrives
    <3> QED BY <3>2, <3>3
  <2>2. ASSUME NEW a, NEW p, RecoveryReply(b, a, p) PROVE Signed'
    <3>1. /\ \A i \in Announcements \ {b} : replies'[i] = replies[i]
          /\ b <= signed /\ UNCHANGED <<entry, signed>>
      BY <2>2 DEF RecoveryReply, Arrives, worldVars, TypeOK, RecoveryOK
    <3> QED BY <3>1 DEF Listed
  <2> QED BY <1>1, <2>1, <2>2 DEF Announce
<1>2. ASSUME NEW b \in Announcements, Replies(b) PROVE Signed'
  <2>1. PICK block : ProcessReplies(b, block)
    BY <1>2 DEF Replies
  <2>2. replies[b].age \in 0 .. Old /\ b <= signed
    BY <2>1 DEF ProcessReplies, Due, TypeOK, RecoveryOK
  <2>3. /\ \A i \in Announcements : replies'[i].by # {} => replies'[i] = replies[i]
        /\ signed' = signed
    BY <2>1 DEF ProcessReplies, NoReplies, worldVars, TypeOK, RecoveryOK
  <2>4. Listed' => entry'.mnb <= signed'
    <3>1. CASE entry' = entry
      BY <2>3, <3>1 DEF Listed
    <3>2. CASE entry' # entry
      BY <2>1, <2>2, <2>3, <3>2, SignedAnnouncement DEF ProcessReplies
    <3> QED BY <3>1, <3>2
  <2> QED BY <2>3, <2>4
<1>3. ASSUME NEW a \in silent .. Old, NEW block, SafenodePing(a, block) PROVE Signed'
  <2>1. PICK x \in BOOLEAN : entry' = Check([entry EXCEPT !.pingAge = a, !.early = x], TRUE)
    BY <1>3 DEF SafenodePing, Earlies
  <2>2. Listed /\ entry \in Entry /\ a \in 0 .. Old
    BY <1>3, ListedEntry DEF SafenodePing, TypeOK, WorldOK
  <2> DEFINE e == [entry EXCEPT !.pingAge = a, !.early = x]
  <2>3. e \in Entry /\ e.mnb = entry.mnb
    BY <2>2 DEF Entry
  <2> HIDE DEF e
  <2>4. entry'.mnb = entry.mnb
    BY <2>1, <2>3, CheckKeeps DEF e
  <2>5. UNCHANGED <<replies, signed>>
    BY <1>3 DEF SafenodePing, recoveryVars, worldVars
  <2> QED BY <2>2, <2>4, <2>5
<1>4. ASSUME NEW lockMain, CheckAll(lockMain) PROVE Signed'
  <2>1. Listed /\ entry \in Entry
    BY <1>4, ListedEntry DEF CheckAll
  <2>2. [entry EXCEPT !.checked = TRUE].mnb = entry.mnb
    BY <2>1 DEF Entry
  <2>3. entry'.mnb = entry.mnb
    BY <1>4, <2>1, <2>2, CheckKeeps DEF CheckAll
  <2>4. UNCHANGED <<replies, signed>>
    BY <1>4 DEF CheckAll, recoveryVars, worldVars
  <2> QED BY <2>1, <2>3, <2>4
<1>5. ASSUME NEW lockMain \in BOOLEAN, StartHere(lockMain) PROVE Signed'
  <2>1. entry'.mnb = signed + 1
    BY <1>5, StartHereEntry
  <2>2. signed' = signed + 1 /\ replies' = replies
    BY <1>5 DEF StartHere, recoveryVars
  <2>3. signed \in Nat
    BY DEF TypeOK, WorldOK
  <2> QED BY <2>1, <2>2, <2>3
<1>6. ASSUME CheckAndRemove PROVE Signed'
  <2>1. UNCHANGED <<replies, signed>>
    BY <1>6 DEF CheckAndRemove, worldVars
  <2>2. CASE Listed
    <3>1. Check(entry, FALSE).mnb = entry.mnb
      BY <2>2, ListedEntry, CheckKeeps
    <3>2. entry' \in {NoEntry, Check(entry, FALSE)}
      BY <1>6, <2>2 DEF CheckAndRemove
    <3> QED BY <2>1, <2>2, <3>1, <3>2 DEF Listed
  <2>3. CASE ~Listed
    <3>1. ~Listed'
      BY <1>6, <2>3 DEF CheckAndRemove, Listed
    <3> QED BY <2>1, <3>1
  <2> QED BY <2>2, <2>3
<1>7. ASSUME Tick PROVE Signed'
  <2>1. Listed => entry'.mnb = entry.mnb
    BY <1>7, ListedEntry DEF Tick, Entry
  <2>2. ~Listed => ~Listed'
    BY <1>7 DEF Tick, Listed
  <2>3. signed' = signed
    BY <1>7 DEF Tick
  <2>4. ASSUME NEW b \in Announcements, replies'[b].by # {} PROVE replies[b].by # {}
    BY <1>7, <2>4 DEF Tick, NoReplies
  <2> QED BY <2>1, <2>2, <2>3, <2>4
<1>8. ASSUME NewBlock \/ Disturb PROVE Signed'
  <2>1. Listed => entry'.mnb = entry.mnb
    BY <1>8, ListedEntry DEF NewBlock, Disturb, Entry
  <2>2. ~Listed => ~Listed'
    BY <1>8 DEF NewBlock, Disturb, Listed
  <2>3. UNCHANGED <<replies, signed>>
    BY <1>8 DEF NewBlock, Disturb, recoveryVars
  <2> QED BY <2>1, <2>2, <2>3
<1>9. ASSUME EndSweep \/ ServeList \/ Sign \/ Die \/ NextStage PROVE Signed'
  <2>1. UNCHANGED <<entry, replies>> /\ signed' >= signed
    BY <1>9 DEF EndSweep, ServeList, Sign, Die, NextStage, recoveryVars, worldVars, TypeOK, WorldOK
  <2>2. signed \in Nat /\ signed' \in Nat /\ (Listed => entry.mnb \in Nat)
    BY <1>9, ListedEntry DEF EndSweep, ServeList, Sign, Die, NextStage, worldVars,
                             TypeOK, WorldOK, Entry
  <2> QED BY <2>1, <2>2 DEF Listed
<1> QED BY <1>1, <1>2, <1>3, <1>4, <1>5, <1>6, <1>7, <1>8, <1>9 DEF Step

-----------------------------------------------------------------------------
\* A lapsed entry stays unpaid in every step, or has another announcement, or its own was
\* judged on the answers of a quorum, as the step notes.
GoesOn(A) == /\ Listed /\ Listed' /\ entry'.state # "OUTPOINT_SPENT"
             /\ entry'.mnb = entry.mnb /\ entry.mnb \notin A
LEMMA LapsedNext ==
  ASSUME TypeOK, Signed, Lapsed(entry), Listed, Next
  PROVE \E A : Noted(A) /\ (GoesOn(A) => Unpaid(entry'))
<1>1. entry \in Entry /\ Unpaid(entry) /\ Unpaid(Check(entry, FALSE))
  BY ListedEntry, CheckLapsed, LapsedIsUnpaid
<1>2. ASSUME NEW b \in Announcements, Announce(b), Noted({})
      PROVE GoesOn({}) => Unpaid(entry')
  <2>1. ASSUME NEW a \in PingAges(b), NEW block, NewAnnouncement(b, a, block), GoesOn({})
        PROVE Unpaid(entry')
    <3>1. a \in 0 .. Old
      BY PingAgeType
    <3> QED BY <2>1, <3>1, LapsedAnnouncement DEF NewAnnouncement, GoesOn
  <2>2. ASSUME NEW a, NEW p, RecoveryReply(b, a, p) PROVE Unpaid(entry')
    BY <1>1, <2>2 DEF RecoveryReply
  <2> QED BY <1>2, <2>1, <2>2 DEF Announce
<1>3. ASSUME NEW b \in Announcements, Replies(b), GoesOn(IF Quorum(b) THEN {b} ELSE {})
      PROVE Unpaid(entry')
  <2>1. replies[b].age \in 0 .. Old
    BY DEF TypeOK, RecoveryOK
  <2>2. CASE entry' = entry
    BY <1>1, <2>2
  <2>3. CASE entry' # entry
    <3>1. /\ Quorum(b)
          /\ \E block, s, sp : ListUpdate(b, replies[b].age, block, TRUE, s, sp)
      BY <1>3, <2>3 DEF Replies, ProcessReplies, Quorum
    <3>2. entry.mnb # b /\ entry'.mnb = entry.mnb
      BY <1>3, <3>1 DEF GoesOn
    <3> QED BY <2>1, <3>1, <3>2, LapsedAnnouncement
  <2> QED BY <2>2, <2>3
<1>4. ASSUME NEW a, NEW block, SafenodePing(a, block) PROVE FALSE
  BY <1>4 DEF SafenodePing, PingTaken, Lapsed
<1>5. ASSUME NEW lockMain, CheckAll(lockMain) PROVE Unpaid(entry')
  <2>1. Unpaid([entry EXCEPT !.checked = TRUE])
    BY <1>1 DEF Entry, Unpaid
  <2> QED BY <1>1, <1>5, <2>1 DEF CheckAll
<1>6. ASSUME NEW lockMain \in BOOLEAN, StartHere(lockMain) PROVE ~GoesOn({})
  BY <1>1, <1>6, StartHereEntry DEF GoesOn, Signed, Entry, TypeOK, WorldOK
<1>7. ASSUME CheckAndRemove, GoesOn({}) PROVE Unpaid(entry')
  BY <1>1, <1>7 DEF CheckAndRemove, GoesOn, Listed
<1>8. ASSUME Tick \/ NewBlock \/ Disturb PROVE Unpaid(entry')
  <2>1. Older(entry.pingAge, Old) = Old
    BY DEF Older, Lapsed
  <2>2. \/ entry' = entry
        \/ entry' = [entry EXCEPT !.pingAge = Older(entry.pingAge, Old), !.checked = FALSE]
        \/ entry' = [entry EXCEPT !.banLeft = @ - 1]
        \/ entry' = [entry EXCEPT !.score = Lower(@)]
        \/ entry' = [entry EXCEPT !.score = Higher(@)]
    BY <1>8 DEF Tick, NewBlock, Disturb
  <2>3. entry'.state = entry.state /\ entry'.pingAge = Old
    BY <1>1, <2>1, <2>2 DEF Entry, Unpaid
  <2> QED BY <1>1, <2>3 DEF Unpaid
<1>9. ASSUME EndSweep \/ ServeList \/ Sign \/ Die \/ NextStage PROVE Unpaid(entry')
  BY <1>1, <1>9 DEF EndSweep, ServeList, Sign, Die, NextStage
<1>10. CASE \E b \in Announcements : Replies(b) /\ Noted(IF Quorum(b) THEN {b} ELSE {})
  BY <1>3, <1>10
<1>11. CASE Noted({}) /\ (GoesOn({}) => Unpaid(entry'))
  BY <1>11
<1> QED BY <1>2, <1>4, <1>5, <1>6, <1>7, <1>8, <1>9, <1>10, <1>11 DEF Next

\* What the history variable stands for.
Silence ==
    lapse \in {"silent", "outdated"} =>
        /\ Listed /\ Lapsed(entry)
        /\ lapse = "silent" => entry.state = "NEW_START_REQUIRED"

LEMMA SilenceNoted ==
  ASSUME TypeOK, TypeOK', NEW A, Noted(A),
         lapse \in {"silent", "outdated"} /\ GoesOn(A) => Unpaid(entry')
  PROVE Silence'
<1>1. CASE Listed' /\ Dead(entry')
  <2>1. lapse' = "silent"
    BY <1>1 DEF Noted
  <2> QED BY <1>1, <2>1 DEF Silence, Lapsed, Dead
<1>2. CASE ~(Listed' /\ Dead(entry')) /\ lapse \in {"silent", "outdated"} /\ GoesOn(A)
  <2>1. entry'.pingAge = Old /\ entry'.state \in {"UPDATE_REQUIRED", "POSE_BAN"}
    BY <1>2 DEF Unpaid, GoesOn, Dead
  <2>2. CASE entry'.state = "POSE_BAN"
    <3>1. lapse' = "excused"
      BY <1>2, <2>2 DEF Noted, GoesOn
    <3> QED BY <3>1 DEF Silence
  <2>3. CASE entry'.state = "UPDATE_REQUIRED"
    <3>1. lapse' = IF sync' < List THEN "excused" ELSE "outdated"
      BY <1>2, <2>3 DEF Noted, GoesOn
    <3>2. sync' < List \/ sync' >= List
      BY DEF TypeOK, WorldOK
    <3> QED BY <1>2, <2>1, <2>3, <3>1, <3>2 DEF Silence, Lapsed, GoesOn
  <2> QED BY <2>1, <2>2, <2>3
<1>3. CASE ~(Listed' /\ Dead(entry')) /\ ~(lapse \in {"silent", "outdated"} /\ GoesOn(A))
  <2>1. lapse' \notin {"silent", "outdated"}
    BY <1>3 DEF Noted, GoesOn
  <2> QED BY <2>1 DEF Silence
<1> QED BY <1>1, <1>2, <1>3

LEMMA SilenceNext ==
  ASSUME TypeOK, Signed, Silence, [Next]_vars PROVE Silence'
<1>1. CASE Next /\ lapse \in {"silent", "outdated"}
  BY <1>1, LapsedNext, NextType, SilenceNoted DEF Silence
<1>2. CASE Next /\ lapse \notin {"silent", "outdated"}
  BY <1>2, NextIsStep, NextType, SilenceNoted
<1>3. CASE UNCHANGED vars
  BY <1>3 DEF vars, programVars, worldVars, Silence, Lapsed, Listed
<1> QED BY <1>1, <1>2, <1>3

\* A safenode that was silent too long is not among those that may be paid, and has no new
\* ping, until its owner announces it again or a quorum of the peers that were asked does,
\* for every quorum and all time limits.
THEOREM NewStartIsRequiredHolds == Spec => []NewStartIsRequired
<1>1. Init => Signed /\ Silence
  BY DEF Init, Signed, Silence, Listed, NoReplies
<1>2. TypeOK /\ Signed /\ [Next]_vars => Signed'
  BY NextIsStep, SignedStep DEF vars, programVars, recoveryVars, worldVars, Signed, Listed
<1>3. TypeOK /\ Signed /\ Silence /\ [Next]_vars => Silence'
  BY SilenceNext
<1>4. Silence => NewStartIsRequired
  BY DEF Silence, Lapsed, NewStartIsRequired
<1> QED BY <1>1, <1>2, <1>3, <1>4, TypeCorrect, PTL DEF Spec
=============================================================================

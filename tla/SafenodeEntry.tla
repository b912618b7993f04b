---------------------------- MODULE SafenodeEntry ----------------------------
(***************************************************************************)
(* The life of one entry of the safenode list on a node that is not that   *)
(* safenode: CSafenode (src/safenode.cpp) and what CSafenodeMan            *)
(* (src/safenodeman.cpp) does with its announcements, its pings, its       *)
(* collateral and the answers to a recovery request, and the owner's       *)
(* start-alias when the collateral is in the wallet of this node.  Entries *)
(* meet in the length of a ban and in who is asked for a recovery only;    *)
(* both are parameters here, so the list is a product of such entries.     *)
(*                                                                         *)
(* All messages are handled under cs_main and mnodeman.cs.  The pool thread*)
(* holds both in CheckAndRemove, and only tries for cs_main in Check.      *)
(*                                                                         *)
(* Time is counted in ticks, each longer than SAFENODE_CHECK_SECONDS, and  *)
(* kept as ages that stop at Old.  Announcements are numbered in the order *)
(* of their sigTime; signatures and addresses are right.  Left out: pings  *)
(* seen before (those are too early as well), AskForMN, relaying, and the  *)
(* state WATCHDOG_EXPIRED (no watchdog votes: IsWatchdogActive is false).  *)
(***************************************************************************)
EXTENDS Integers, FiniteSets

CONSTANTS
    LastAnnouncement,       \* how often the owner signs
    Peers,                  \* safenodes that can be asked in a recovery
    QuorumRequired,         \* MNB_RECOVERY_QUORUM_REQUIRED
    RecoveryWait,           \* MNB_RECOVERY_WAIT_SECONDS
    RecoveryRetry,          \* MNB_RECOVERY_RETRY_SECONDS
    MinMnb, MinMnp,         \* SAFENODE_MIN_MNB_SECONDS, SAFENODE_MIN_MNP_SECONDS
    Expiration,             \* SAFENODE_EXPIRATION_SECONDS
    Old,                    \* SAFENODE_NEW_START_REQUIRED_SECONDS
    MaxScore,               \* SAFENODE_POSE_BAN_MAX_SCORE
    Cycle,                  \* mnodeman.size(), the blocks of a ban
    MaxDisturbances         \* bound on what the world does, a later announcement counting twice

ASSUME CountAssumption ==
    /\ LastAnnouncement \in Nat \ {0} /\ QuorumRequired \in Nat \ {0}
    /\ MaxScore \in Nat \ {0} /\ Cycle \in Nat /\ MaxDisturbances \in Nat
ASSUME TimeAssumption ==
    /\ RecoveryWait \in Nat \ {0} /\ RecoveryRetry \in Nat
    /\ MinMnb \in Nat /\ MinMnp \in Nat \ {0} /\ Expiration \in Nat /\ Old \in Nat
    /\ MinMnp <= Expiration /\ Expiration < Old /\ MinMnb <= Old

VARIABLES
    entry,          \* the element of vSafenodes, or NoEntry
    seen,           \* announcement -> mapSeenSafenodeBroadcast: nothing, it, or an empty one
    seenPing,       \* announcement -> age of lastPing in that copy, or Never
    request,        \* announcement -> what is left of its mMnbRecoveryRequests, or None
    asked,          \* announcement -> peers of the request that have not answered
    replies,        \* announcement -> mMnbRecoveryGoodReplies: who, and the first ping
    pool,           \* the pool thread: in the middle of CheckAndRemove, or not
    coin,           \* the collateral in pcoinsTip: absent, young, old
    premature,      \* announcements up to this one were signed before the block time of
                    \* the collateral's last required confirmation
    sync,           \* safenodeSync: nothing, blockchain, list, everything
    outdated,       \* its protocol is below what mnpayments asks for
    signed,         \* announcements signed so far
    sigAge,         \* announcement -> age of sigTime
    alive, silent,  \* the safenode runs; ticks since it stopped
    disturbances,
    lapse           \* history: what became of a silence that asks for a new start

recoveryVars == <<request, asked, replies>>
worldVars == <<coin, premature, sync, outdated, signed, sigAge, alive, silent, disturbances>>
programVars == <<entry, seen, seenPing, recoveryVars, pool, worldVars>>
vars == <<programVars, lapse>>

-----------------------------------------------------------------------------
Announcements == 1 .. LastAnnouncement
States == {"PRE_ENABLED", "ENABLED", "EXPIRED", "OUTPOINT_SPENT", "UPDATE_REQUIRED",
           "NEW_START_REQUIRED", "POSE_BAN"}
Coins == {"absent", "young", "old"}
Blockchain == 1
List == 2
Everything == 3
\* What this node knows of the block a ping names.
PingBlocks == {"known", "old", "unknown"}
SigAges == 0 .. Old + MinMnp - 1
None == -1
Never == Old + 1        \* the ping of an empty broadcast

\* early: lastPing.sigTime - sigTime < SAFENODE_MIN_MNP_SECONDS.
Entry == [state : States, mnb : Announcements, pingAge : 0 .. Old, early : BOOLEAN,
          score : -MaxScore .. MaxScore, banLeft : 0 .. Cycle, checked : BOOLEAN]
NoEntry == [state |-> "none"]
Listed == entry # NoEntry
NoReplies == [by |-> {}, age |-> 0]

Init ==
    /\ entry = NoEntry /\ pool = "idle"
    /\ seen = [b \in Announcements |-> "no"] /\ seenPing = [b \in Announcements |-> 0]
    /\ request = [b \in Announcements |-> None]
    /\ asked = [b \in Announcements |-> {}]
    /\ replies = [b \in Announcements |-> NoReplies]
    /\ coin = "young" /\ premature = 0 /\ sync = 0 /\ outdated = FALSE
    /\ signed = 0 /\ sigAge = [b \in Announcements |-> 0]
    /\ alive = TRUE /\ silent = 0 /\ disturbances = 0 /\ lapse = "no"

\* cs_main and mnodeman.cs are free.
Free == pool = "idle"

-----------------------------------------------------------------------------
(* CSafenode::Check                                                          *)

\* Fault: expiry is put off whether or not the list is synchronised.
WaitsAlways(e) == e.pingAge >= MinMnp
\* Old safenodes are kept on start, until the list is synchronised.
WaitsForPing(e) == sync < List /\ e.pingAge >= MinMnp
\* The state of an entry whose collateral is there and which is not banned.
NextState(e) ==
    CASE outdated -> "UPDATE_REQUIRED"
      [] ~outdated /\ WaitsForPing(e) /\ e.state \in {"EXPIRED", "NEW_START_REQUIRED"} -> e.state
      [] ~outdated /\ ~WaitsForPing(e) /\ e.pingAge >= Old -> "NEW_START_REQUIRED"
      [] ~outdated /\ ~WaitsForPing(e) /\ e.pingAge \in Expiration .. Old - 1 -> "EXPIRED"
      [] OTHER -> IF e.early THEN "PRE_ENABLED" ELSE "ENABLED"
Served(e) == e.state = "POSE_BAN" /\ e.banLeft = 0
\* IncreasePoSeBanScore and DecreasePoSeBanScore.
Lower(s) == IF s > -MaxScore THEN s - 1 ELSE s
Higher(s) == IF s < MaxScore THEN s + 1 ELSE s
Rechecked(e) ==
    CASE coin = "absent" -> [e EXCEPT !.state = "OUTPOINT_SPENT"]
      [] coin # "absent" /\ e.state = "POSE_BAN" /\ ~Served(e) -> e
      [] coin # "absent" /\ e.state # "POSE_BAN" /\ e.score >= MaxScore ->
            [e EXCEPT !.state = "POSE_BAN", !.banLeft = Cycle]
      [] OTHER -> [e EXCEPT !.state = NextState(e),
                            !.score = IF Served(e) THEN Lower(@) ELSE @]
\* Fault: the collateral of an outdated safenode is not looked at.
OutdatedFirst(e) ==
    IF outdated /\ e.state = "UPDATE_REQUIRED" THEN e ELSE Rechecked(e)
Checks(e) == IF e.state = "OUTPOINT_SPENT" THEN e ELSE Rechecked(e)
\* Check(fForce) with cs_main held.
Check(e, force) == IF e.checked /\ ~force THEN e ELSE Checks([e EXCEPT !.checked = TRUE])

-----------------------------------------------------------------------------
(* Pings.                                                                    *)

\* Ages of the pings the safenode may have signed since it signed announcement b.
PingAges(b) == {a \in silent .. Old : a <= sigAge[b]}
\* A ping of age a relative to announcement b: exact unless the ping is past Old.
Earlies(b, a) == {x \in BOOLEAN : a < Old => (x <=> sigAge[b] - a < MinMnp)}
Acceptable(e, a, block) == block = "known" /\ e.pingAge - a >= MinMnp
\* Fault: a ping is taken in any state.
PingTakenAlways(e) == TRUE
PingTaken(e) == e.state \notin {"UPDATE_REQUIRED", "NEW_START_REQUIRED"}

SafenodePing(a, block) ==
    /\ Free /\ sync >= Blockchain /\ Listed
    /\ PingTaken(entry) /\ Acceptable(entry, a, block)
    /\ \E x \in Earlies(entry.mnb, a) :
          entry' = Check([entry EXCEPT !.pingAge = a, !.early = x], TRUE)
    /\ seenPing' = [seenPing EXCEPT ![entry.mnb] = IF seen[entry.mnb] = "no" THEN @ ELSE a]
    /\ UNCHANGED <<seen, recoveryVars, pool, worldVars>>

-----------------------------------------------------------------------------
(* Announcements: CheckMnbAndUpdateSafenodeList.                              *)

\* CSafenode::UpdateFromNewBroadcast, up to the ping that comes with the announcement.
\* The entry has x as the distance of its ping, the new one when that is accepted.
Replacement(e, b, x) ==
    [e EXCEPT !.mnb = b, !.score = 0, !.banLeft = 0, !.checked = FALSE, !.early = x]
\* All of it, and the Check that follows it.
UpdateFromNewBroadcast(e, b, a, block, x) ==
    LET new == Replacement(e, b, x)
        pinged == Check([new EXCEPT !.pingAge = a], TRUE)
    IN  Check(IF Acceptable(new, a, block) THEN pinged ELSE new, FALSE)

IsBroadcastedWithin(e) == sigAge[e.mnb] < MinMnb
\* Fault: a ban does not keep an announcement out.
BanIgnored(e) == FALSE
Banned(e) == e.state = "POSE_BAN"

\* mapSeenSafenodeBroadcast[hash of the entry], which creates what is not there.
LookedUp(s) == [s EXCEPT ![entry.mnb] = IF @ = "no" THEN "empty" ELSE @]
LookedUpPing(s, sp) == [sp EXCEPT ![entry.mnb] = IF s[entry.mnb] = "no" THEN Never ELSE @]
\* The mark of the announcement that b replaced is erased, also when b was not applied.
Replaced(s, b) ==
    [s EXCEPT ![entry.mnb] = IF entry.mnb # b /\ @ = "whole" THEN "no" ELSE @]

\* Fault: an announcement whose collateral is too young stays marked.
StaysMarked(s, b) == s
TriedAgain(s, b) == [s EXCEPT ![b] = "no"]
\* The list is empty: CheckOutpoint and Add.
AddsEntry(b, a, block, s, sp) ==
    /\ ~Listed /\ ~outdated
    /\ \/ coin = "absent" /\ entry' = entry /\ seen' = s
       \/ coin = "young" /\ entry' = entry /\ seen' = TriedAgain(s, b)
       \/ coin = "old" /\ b <= premature /\ entry' = entry /\ seen' = s    \* Bad sigTime
       \/ /\ coin = "old" /\ b > premature /\ seen' = s
          /\ \E x \in Earlies(b, a) :
                entry' = [state |-> IF block = "unknown" THEN "EXPIRED" ELSE "ENABLED",
                          mnb |-> b, pingAge |-> a, early |-> x, score |-> 0,
                          banLeft |-> 0, checked |-> FALSE]
    /\ seenPing' = sp

\* The safenode is listed: CSafenodeBroadcast::Update.
UpdatesEntry(b, a, block, fRecovery, s, sp) ==
    LET e == Check(entry, FALSE)
        stale == entry.mnb > b \/ (entry.mnb = b /\ ~fRecovery)
        ping == IF Acceptable(e, a, block) THEN a ELSE e.pingAge
    IN
    /\ Listed /\ ~outdated
    /\ \/ /\ stale \/ Banned(e)
          /\ entry' = IF stale THEN entry ELSE e
          /\ seen' = LookedUp(s) /\ seenPing' = LookedUpPing(s, sp)
       \/ /\ ~stale /\ ~Banned(e) /\ IsBroadcastedWithin(entry)
          /\ entry' = e
          /\ seen' = Replaced(LookedUp(s), b) /\ seenPing' = LookedUpPing(s, sp)
       \/ /\ ~stale /\ ~Banned(e) /\ ~IsBroadcastedWithin(entry)
          /\ \E x \in Earlies(b, ping) : entry' = UpdateFromNewBroadcast(e, b, a, block, x)
          /\ seen' = Replaced(LookedUp(s), b)
          /\ seenPing' = [LookedUpPing(s, sp) EXCEPT
                ![b] = IF Acceptable(e, a, block) THEN a ELSE @]

ListUpdate(b, a, block, fRecovery, s, sp) ==
    \/ outdated /\ entry' = entry /\ seen' = s /\ seenPing' = sp     \* SimpleCheck
    \/ AddsEntry(b, a, block, s, sp)
    \/ UpdatesEntry(b, a, block, fRecovery, s, sp)

Arrives(b) == Free /\ sync >= Blockchain /\ b <= signed

NewAnnouncement(b, a, block) ==
    /\ Arrives(b) /\ seen[b] = "no"
    /\ ListUpdate(b, a, block, FALSE, [seen EXCEPT ![b] = "whole"], [seenPing EXCEPT ![b] = a])
    /\ UNCHANGED <<recoveryVars, pool, worldVars>>

\* start-alias and start-all of the owner, whose wallet is on this node: what is signed
\* goes straight into the list (CSafenodeMan::UpdateSafenodeList).  A ban, the collateral
\* and the announcement before are not looked at, and cs_main is not held, so the check
\* that comes with the ping may be left out.
StartHere(lockMain) ==
    LET b == signed + 1
        s == [seen EXCEPT ![b] = "whole"]
        new == Replacement(entry, b, TRUE)
        pinged == [new EXCEPT !.pingAge = 0]
    IN
    /\ Free /\ signed < LastAnnouncement /\ 2 * signed + disturbances <= MaxDisturbances
    /\ signed' = b /\ silent' = 0
    /\ \/ /\ ~Listed /\ seen' = s
          /\ entry' = [state |-> "ENABLED", mnb |-> b, pingAge |-> 0, early |-> TRUE,
                       score |-> 0, banLeft |-> 0, checked |-> FALSE]
          /\ seenPing' = [seenPing EXCEPT ![b] = 0]
       \/ /\ Listed /\ seen' = Replaced(LookedUp(s), b)
          /\ entry' = CASE ~Acceptable(new, 0, "known") -> new
                        [] Acceptable(new, 0, "known") /\ lockMain -> Check(pinged, TRUE)
                        [] OTHER -> [pinged EXCEPT !.checked = TRUE]
          /\ seenPing' = [LookedUpPing(s, seenPing) EXCEPT ![b] = 0]
    /\ UNCHANGED <<recoveryVars, pool, coin, premature, sync, outdated, sigAge, alive,
                   disturbances>>

\* The announcement alone, in the eyes of Check, is fit for an automatic start.
Projected(b, a, x) ==
    Check([state |-> "ENABLED", mnb |-> b, pingAge |-> a, early |-> x, score |-> 0,
           banLeft |-> 0, checked |-> FALSE], FALSE).state
ValidForAutoStart == {"ENABLED", "PRE_ENABLED", "EXPIRED"}
Waits(b) == request[b] > RecoveryRetry
\* Fault: a peer may answer again.
StillAsked(b, p) == asked[b]
Answered(b, p) == asked[b] \ {p}
\* A peer that was asked sends an announcement that is known here.
RecoveryReply(b, a, p) ==
    /\ Arrives(b) /\ seen[b] # "no" /\ Waits(b) /\ p \in asked[b]
    /\ asked' = [asked EXCEPT ![b] = Answered(b, p)]
    /\ IF a < seenPing[b] /\ \E x \in Earlies(b, a) : Projected(b, a, x) \in ValidForAutoStart
       THEN replies' = [replies EXCEPT
                ![b] = [by |-> @.by \cup {p}, age |-> IF @.by = {} THEN a ELSE @.age]]
       ELSE UNCHANGED replies
    /\ UNCHANGED <<entry, seen, seenPing, request, pool, worldVars>>

-----------------------------------------------------------------------------
(* The pool thread.                                                          *)

\* CSafenodeMan::Check, once a second; cs_main may be taken by another thread.
CheckAll(lockMain) ==
    /\ Free /\ sync >= Blockchain /\ Listed
    /\ entry' = IF lockMain THEN Check(entry, FALSE) ELSE [entry EXCEPT !.checked = TRUE]
    /\ UNCHANGED <<seen, seenPing, recoveryVars, pool, worldVars>>

AsksPeers(b, Q) ==
    /\ request' = [request EXCEPT ![b] = RecoveryWait + RecoveryRetry]
    /\ asked' = [asked EXCEPT ![b] = Q]
\* CheckAndRemove, the pass over the list.
CheckAndRemove ==
    LET e == Check(entry, FALSE) IN
    /\ Free /\ sync >= List
    /\ pool' = "replies"
    /\ \/ ~Listed /\ UNCHANGED <<entry, seen, request, asked>>
       \/ /\ Listed /\ e.state = "OUTPOINT_SPENT"
          /\ entry' = NoEntry /\ seen' = [seen EXCEPT ![entry.mnb] = "no"]
          /\ UNCHANGED <<request, asked>>
       \/ /\ Listed /\ e.state # "OUTPOINT_SPENT"
          /\ entry' = e /\ UNCHANGED seen
          /\ \/ UNCHANGED <<request, asked>>     \* not its turn, or nothing to ask
             \/ /\ sync = Everything /\ e.state = "NEW_START_REQUIRED"
                /\ request[e.mnb] = None
                /\ \E Q \in SUBSET Peers : AsksPeers(e.mnb, Q)
    /\ UNCHANGED <<seenPing, replies, worldVars>>

\* ... the replies to a request whose time is over,
Due(b) == replies[b].by # {} /\ ~Waits(b)
ProcessReplies(b, block) ==
    /\ pool = "replies" /\ Due(b)
    /\ IF Cardinality(replies[b].by) >= QuorumRequired
       THEN ListUpdate(b, replies[b].age, block, TRUE,
                       [seen EXCEPT ![b] = IF @ = "no" THEN "whole" ELSE @],
                       [seenPing EXCEPT ![b] = IF seen[b] = "no" THEN replies[b].age ELSE @])
       ELSE UNCHANGED <<entry, seen, seenPing>>
    /\ replies' = [replies EXCEPT ![b] = NoReplies]
    /\ UNCHANGED <<request, asked, pool, worldVars>>

\* ... and the requests that may be made again.  The locks are let go before this; no
\* handler touches a request whose time is over.
EndSweep ==
    /\ pool = "replies" /\ \A b \in Announcements : ~Due(b)
    /\ pool' = "idle"
    /\ request' = [b \in Announcements |-> IF request[b] = 0 THEN None ELSE request[b]]
    /\ asked' = [b \in Announcements |-> IF request[b] = 0 THEN {} ELSE asked[b]]
    /\ UNCHANGED <<entry, seen, seenPing, replies, worldVars>>

\* DSEG: an entry that is sent is marked again when its mark is gone.
ServeList ==
    /\ Free /\ sync = Everything /\ Listed /\ entry.state # "UPDATE_REQUIRED"
    /\ seen[entry.mnb] = "no"
    /\ seen' = [seen EXCEPT ![entry.mnb] = "whole"]
    /\ seenPing' = [seenPing EXCEPT ![entry.mnb] = entry.pingAge]
    /\ UNCHANGED <<entry, recoveryVars, pool, worldVars>>

-----------------------------------------------------------------------------
(* The safenode, the chain and the clock.                                    *)

Older(a, last) == IF a < last THEN a + 1 ELSE a
Tick ==
    /\ entry' = IF Listed THEN [entry EXCEPT !.pingAge = Older(@, Old), !.checked = FALSE]
                          ELSE entry
    /\ seenPing' = [b \in Announcements |-> IF seen[b] = "no" THEN 0 ELSE Older(seenPing[b], Old)]
    /\ replies' = [b \in Announcements |->
                     IF replies[b].by = {} THEN NoReplies
                     ELSE [replies[b] EXCEPT !.age = Older(@, Old)]]
    /\ request' = [b \in Announcements |-> IF request[b] > 0 THEN request[b] - 1 ELSE request[b]]
    /\ sigAge' = [b \in Announcements |->
                     IF b <= signed THEN Older(sigAge[b], Old + MinMnp - 1) ELSE 0]
    /\ silent' = IF alive THEN 0 ELSE Older(silent, Old)
    /\ UNCHANGED <<seen, asked, pool, coin, premature, sync, outdated, signed, alive,
                   disturbances>>

\* The owner starts the safenode, and starts it again.
Sign ==
    /\ alive /\ signed < LastAnnouncement /\ 2 * signed + disturbances <= MaxDisturbances
    /\ signed' = signed + 1
    /\ UNCHANGED <<entry, seen, seenPing, recoveryVars, pool, coin, premature, sync, outdated,
                   sigAge, alive, silent, disturbances>>
Die ==
    /\ alive /\ alive' = FALSE
    /\ UNCHANGED <<entry, seen, seenPing, recoveryVars, pool, coin, premature, sync, outdated,
                   signed, sigAge, silent, disturbances>>

\* A block: one more confirmation, and one block less of a ban.  The block that
\* makes the collateral old has its miner's time, which is before or after that of any
\* announcement there is, and no later than those to come.  It is looked at once for each
\* entry: not of one that is listed, which stays until its collateral is gone.
NewBlock ==
    /\ Free
    /\ \/ UNCHANGED <<coin, premature>>
       \/ /\ coin = "young" /\ coin' = "old"
          /\ premature' \in (IF Listed THEN {0} ELSE 0 .. signed)
    /\ entry' = IF Listed /\ entry.banLeft > 0 THEN [entry EXCEPT !.banLeft = @ - 1] ELSE entry
    /\ UNCHANGED <<seen, seenPing, recoveryVars, pool, sync, outdated, signed, sigAge, alive,
                   silent, disturbances>>
NextStage ==
    /\ sync < Everything /\ sync' = sync + 1
    /\ UNCHANGED <<entry, seen, seenPing, recoveryVars, pool, coin, premature, outdated, signed,
                   sigAge, alive, silent, disturbances>>

Disturb ==
    /\ Free /\ disturbances' = disturbances + 1
    /\ disturbances + 2 * signed < MaxDisturbances + 2
    /\ disturbances < MaxDisturbances
    /\ \/ /\ coin' = (IF coin = "absent" THEN "young" ELSE "absent")  \* spent; a reorganisation
          /\ premature' = 0 /\ UNCHANGED <<entry, sync, outdated>>
       \/ sync' = 0 /\ UNCHANGED <<entry, coin, premature, outdated>>  \* CSafenodeSync::Reset
       \/ outdated' = ~outdated /\ UNCHANGED <<entry, coin, premature, sync>>     \* spork 10
       \/ /\ Listed /\ UNCHANGED <<coin, premature, sync, outdated>>   \* PoSe verification
          /\ entry' \in {[entry EXCEPT !.score = Lower(@)], [entry EXCEPT !.score = Higher(@)]}
    /\ UNCHANGED <<seen, seenPing, recoveryVars, pool, signed, sigAge, alive, silent>>

-----------------------------------------------------------------------------
(* The history variable.                                                     *)

Dead(e) == e.state = "NEW_START_REQUIRED" /\ e.pingAge = Old
Quorum(b) == Cardinality(replies[b].by) >= QuorumRequired
\* lapse is "silent" from when the entry needs a new start, until it has another
\* announcement, its own is judged again on the answers of a quorum (one of A), or its
\* collateral is gone; "outdated" from when its protocol is seen to be too old; and
\* "excused" from when it is banned, or outdated while the list is not synchronised.
Noted(A) ==
    LET goesOn == /\ Listed /\ Listed' /\ entry'.state # "OUTPOINT_SPENT"
                  /\ entry'.mnb = entry.mnb /\ entry.mnb \notin A
        silence == IF goesOn THEN lapse ELSE "no"
    IN  lapse' =
            CASE Listed' /\ Dead(entry') -> "silent"
              [] ~(Listed' /\ Dead(entry')) /\ silence \in {"silent", "outdated"}
                 /\ entry'.state = "POSE_BAN" -> "excused"
              [] ~(Listed' /\ Dead(entry')) /\ silence \in {"silent", "outdated"}
                 /\ entry'.state = "UPDATE_REQUIRED" ->
                    IF sync' < List THEN "excused" ELSE "outdated"
              [] OTHER -> silence

-----------------------------------------------------------------------------
Announce(b) ==
    \E a \in PingAges(b) :
        \/ \E block \in PingBlocks : NewAnnouncement(b, a, block)
        \/ \E p \in Peers : RecoveryReply(b, a, p)
Replies(b) == \E block \in PingBlocks : ProcessReplies(b, block)
Next ==
    \/ \E b \in Announcements : Announce(b) /\ Noted({})
    \/ \E b \in Announcements : Replies(b) /\ Noted(IF Quorum(b) THEN {b} ELSE {})
    \/ \E a \in silent .. Old, block \in PingBlocks : SafenodePing(a, block) /\ Noted({})
    \/ \E lockMain \in BOOLEAN : CheckAll(lockMain) /\ Noted({})
    \/ \E lockMain \in BOOLEAN : StartHere(lockMain) /\ Noted({})
    \/ CheckAndRemove /\ Noted({})
    \/ EndSweep /\ Noted({})
    \/ ServeList /\ Noted({})
    \/ Tick /\ Noted({})
    \/ Sign /\ Noted({})
    \/ Die /\ Noted({})
    \/ NewBlock /\ Noted({})
    \/ NextStage /\ Noted({})
    \/ Disturb /\ Noted({})

\* The clock runs, safenodeSync gets on (module SafenodeSync), blocks come, and the pool
\* thread comes round: cs_main is not always taken when it checks the list.  While a
\* safenode runs, each of its pings makes a node that does not list it ask for its
\* announcement (AskForMN), so one that is not marked as seen comes again and again.
Confirm == NewBlock /\ coin' = (IF coin = "young" THEN "old" ELSE coin)
Offered(b) ==
    alive /\ \E a \in PingAges(b), block \in PingBlocks : NewAnnouncement(b, a, block)
Fairness ==
    /\ WF_programVars(Tick) /\ WF_programVars(NextStage) /\ SF_programVars(Confirm)
    /\ SF_programVars(CheckAll(TRUE)) /\ WF_programVars(CheckAndRemove)
    /\ WF_programVars(EndSweep)
    /\ \A b \in Announcements :
          WF_programVars(Replies(b)) /\ SF_programVars(Offered(b))
Spec == Init /\ [][Next]_vars
FairSpec == Spec /\ Fairness

-----------------------------------------------------------------------------
EntryOK == entry \in Entry \cup {NoEntry}
SeenOK ==
    /\ seen \in [Announcements -> {"no", "whole", "empty"}]
    /\ seenPing \in [Announcements -> 0 .. Never]
RecoveryOK ==
    /\ request \in [Announcements -> None .. RecoveryWait + RecoveryRetry]
    /\ asked \in [Announcements -> SUBSET Peers]
    /\ replies \in [Announcements -> [by : SUBSET Peers, age : 0 .. Old]]
WorldOK ==
    /\ pool \in {"idle", "replies"} /\ coin \in Coins /\ premature \in 0 .. LastAnnouncement
    /\ sync \in 0 .. Everything
    /\ outdated \in BOOLEAN /\ signed \in 0 .. LastAnnouncement
    /\ sigAge \in [Announcements -> SigAges]
    /\ alive \in BOOLEAN /\ silent \in 0 .. Old /\ disturbances \in 0 .. MaxDisturbances
LapseOK == lapse \in {"no", "silent", "outdated", "excused"}
TypeOK == EntryOK /\ SeenOK /\ RecoveryOK /\ WorldOK /\ LapseOK

\* mMnbRecoveryGoodReplies is a vector that is filled by messages, judged by the pool
\* thread and never cleared by the request it answers: every answer in it is that of a
\* peer that cannot answer once more, to a request that is still on record.
RepliesOfThisRound ==
    \A b \in Announcements : replies[b].by # {} =>
        request[b] # None /\ replies[b].by \cap asked[b] = {}

\* A ban is served: whatever announcements and answers come from the network, a banned
\* entry stays banned, and its ban as long as it was but for the blocks that come, until
\* the block it ends at.  The ways out: its collateral is gone, or its owner starts it at
\* this very node, with an announcement nobody had before (safenodeman.cpp:1392).
BanServed ==
    [][Listed /\ Listed' /\ entry.state = "POSE_BAN" /\ entry.banLeft > 0
          => \/ /\ entry'.state = "POSE_BAN"
                /\ entry'.banLeft = entry.banLeft \/ entry'.banLeft = entry.banLeft - 1
             \/ entry'.state = "OUTPOINT_SPENT"
             \/ entry'.mnb > signed]_vars

\* A safenode that was silent too long has to be started again (README, safenode.h:19).
\* From when its entry is in that state it is not back among those that may be paid, and
\* no ping of it is taken, until it has a later announcement or its own was judged again on
\* the answers of a quorum of those this node asked.  A change of the sync stage does not
\* bring it back.  The state is forgotten, and the rule with it, in two ways: by a ban,
\* whose end comes with a look at the last ping, and pings are taken during a ban
\* (safenode.cpp:812-820); and by an outdated protocol while the list is not synchronised.
NewStartIsRequired ==
    lapse \in {"silent", "outdated"} =>
        entry.pingAge = Old /\ entry.state \notin {"PRE_ENABLED", "ENABLED", "EXPIRED"}

\* An entry whose collateral is gone for good leaves the list, whatever else is wrong
\* with it: banned, outdated or expired.
SpentIsRemoved == (Listed /\ coin = "absent") ~> (~Listed \/ coin # "absent")

\* A safenode that stopped is, in the end, never again in a state that is paid, though
\* its announcements and the answers to recovery requests keep coming.
SilentIsNotPaid ==
    ~alive ~> [](Listed => entry.state \notin {"PRE_ENABLED", "ENABLED"})

\* An announcement that came before its collateral had its confirmations here gets its
\* chance when it has them ("maybe we miss few blocks, let this mnb to be checked again
\* later", src/safenode.cpp:637), if it was not signed before they were there at all.
WaitsForConfirmations ==
    \A b \in Announcements :
        (alive /\ b <= signed /\ seen[b] = "no" /\ ~Listed /\ coin # "absent" /\ ~outdated)
            ~> \/ Listed \/ coin = "absent" \/ outdated \/ ~alive
               \/ coin = "old" /\ b <= premature

\* CheckMnbAndUpdateSafenodeList marks what it takes as seen and forgets what it replaced
\* (src/safenodeman.cpp:1453): the announcement of a listed safenode is on record, so that
\* this node can serve it to those who ask.
ListedIsSeen == Listed => seen[entry.mnb] = "whole"
=============================================================================

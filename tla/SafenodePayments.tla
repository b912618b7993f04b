-------------------------- MODULE SafenodePayments --------------------------
(***************************************************************************)
(* Votes for the payee of a block on one node: CSafenodePayments           *)
(* (src/safenode-payments.cpp), with the miner that asks it for a payee    *)
(* and the files that keep it over a restart.                              *)
(*                                                                         *)
(* Four threads.  "net" takes the votes of the peers.  "chain" is whoever  *)
(* connects blocks: the tip moves under cs_main, the payments hear of it   *)
(* later, without a lock, and this node's own safenode votes.  "pool" is   *)
(* ThreadCheckDarkSendPool and forgets old heights.  "miner" builds a      *)
(* block under cs_main, which does not keep votes from being counted.      *)
(*                                                                         *)
(* The hash of a vote covers its safenode, height and payee: a vote is that*)
(* record.  The list of safenodes, ranks and keys are what IsValid and the *)
(* signature make of them: either answer.  Superblocks are left out, the   *)
(* node is past its synchronisation and pays safenodes (spork 8).          *)
(***************************************************************************)
EXTENDS Integers, Sequences, FiniteSetsExt

CONSTANTS
    Safenodes, Payees,
    Self,               \* this node's own safenode
    Votes,              \* the votes there are: [by, height, payee]
    FirstTip, LastTip,  \* bounds of the height of the chain
    Ahead,              \* 20: how far above the tip a vote may be
    VoteAhead,          \* 10: how far above the tip the own safenode votes
    ScheduledAhead,     \* 8
    StorageLimit,       \* GetStorageLimit: 5000 up to 4000 safenodes
    Required,           \* MNPAYMENTS_SIGNATURES_REQUIRED
    MaxReorgs,          \* bound: how often the chain gets shorter
    MaxRestarts         \* bound

ASSUME HeightAssumption ==
    /\ FirstTip \in Nat /\ LastTip \in Nat /\ FirstTip <= LastTip
    /\ Ahead \in Nat /\ VoteAhead \in 1 .. Ahead /\ ScheduledAhead \in Nat
    /\ StorageLimit \in Nat /\ Required \in Nat \ {0}
ASSUME VoteAssumption ==
    Votes \subseteq [by : Safenodes, height : Nat, payee : Payees]
ASSUME BoundAssumption == MaxReorgs \in Nat /\ MaxRestarts \in Nat

Threads == {"net", "chain", "miner"}
Voters == {"net", "chain"}
Heights == {v.height : v \in Votes}
Absent == "absent"
Unverified == "unverified"      \* vchSig has been cleared
Verified == "verified"
None == -1

VARIABLES
    chainHeight,        \* chainActive.Height()
    tip,                \* pCurrentBlockIndex->nHeight
    mapSafenodePaymentVotes,    \* vote -> Absent, Unverified or Verified
    counted,            \* vote -> how often mapSafenodeBlocks lists its hash
    vecPayees,          \* height -> the payees of its entry, in their order
    mapSafenodesLastVote,       \* safenode -> a height, or None
    pc, vote,           \* where each thread is, and {the vote it has in hand}
    template,           \* {the payee of the miner's block}
    disk,               \* mnpayments.dat
    highest,            \* history: the highest tip the payments have seen
    reorgs, restarts

store == <<mapSafenodePaymentVotes, counted, vecPayees>>
chainVars == <<chainHeight, tip, highest, reorgs>>
vars == <<chainVars, store, mapSafenodesLastVote, pc, vote, template, disk, restarts>>

-----------------------------------------------------------------------------
Empty == [votes |-> [v \in Votes |-> Absent], counted |-> [v \in Votes |-> 0],
          payees |-> [h \in Heights |-> <<>>]]

Init ==
    /\ chainHeight = FirstTip /\ tip = FirstTip /\ highest = FirstTip /\ reorgs = 0
    /\ mapSafenodePaymentVotes = Empty.votes /\ counted = Empty.counted
    /\ vecPayees = Empty.payees
    /\ mapSafenodesLastVote = [m \in Safenodes |-> None]
    /\ pc = [t \in Threads |-> "idle"] /\ vote = [t \in Voters |-> {}]
    /\ template = {}
    /\ disk = Empty /\ restarts = 0

Free(t) == pc[t] = "idle"
MainFree == pc["miner"] # "filled"              \* cs_main is not with the miner
Goes(t, p) == pc' = [pc EXCEPT ![t] = p]
HasVerifiedPaymentVote(v) == mapSafenodePaymentVotes[v] = Verified

VoteCount(h, p) == MapThenSumSet(LAMBDA v : counted[v],
                                 {v \in Votes : v.height = h /\ v.payee = p})
Listed(h) == IF h \in Heights THEN {vecPayees[h][i] : i \in DOMAIN vecPayees[h]} ELSE {}

\* GetBestPayee: the most votes, and among equals the one that came first.
IsBest(p, h) ==
    \E i \in DOMAIN vecPayees[h] :
       /\ vecPayees[h][i] = p
       /\ \A j \in DOMAIN vecPayees[h] :
             LET q == vecPayees[h][j] IN
             VoteCount(h, q) < VoteCount(h, p) \/ (VoteCount(h, q) = VoteCount(h, p) /\ i <= j)
BestPayees(h) == {p \in Listed(h) : IsBest(p, h)}
\* IsScheduled: skipped when the next payee is chosen.
Scheduled == UNION {BestPayees(h) : h \in tip .. tip + ScheduledAhead}
\* IsTransactionValid of a block at height h that pays those of P.
Elected(h) == {p \in Listed(h) : VoteCount(h, p) >= Required}
IsTransactionValid(P, h) == Elected(h) = {} \/ P \cap Elected(h) # {}

-----------------------------------------------------------------------------
(* AddPaymentVote looks for a verified copy first and takes the locks later. *)

\* Fault: the vote is added whether it is there or not.
Whatever(v) == TRUE
IsNew(v) == ~HasVerifiedPaymentVote(v)

Takes(t, v) == Goes(t, "adding") /\ vote' = [vote EXCEPT ![t] = {v}]
Drops(t) == Goes(t, "idle") /\ vote' = [vote EXCEPT ![t] = {}]

StoreVote(t) ==
    /\ pc[t] = "adding"
    /\ \E v \in vote[t] :
          /\ mapSafenodePaymentVotes' = [mapSafenodePaymentVotes EXCEPT ![v] = Verified]
          /\ counted' = [counted EXCEPT ![v] = @ + 1]
          /\ vecPayees' = IF v.payee \in Listed(v.height) THEN vecPayees
                          ELSE [vecPayees EXCEPT ![v.height] = Append(@, v.payee)]
    /\ Drops(t)
    /\ UNCHANGED <<chainVars, mapSafenodesLastVote, template, disk, restarts>>

(* "net": ProcessMessage of one vote.                                        *)

InRange(v) == tip - StorageLimit <= v.height /\ v.height <= tip + Ahead

\* Fault: a vote that is known already is marked again.
MarkAgain(v) == TRUE
NotSeen(v) == mapSafenodePaymentVotes[v] = Absent

ReceiveVote(v) ==
    /\ Free("net") /\ NotSeen(v)
    /\ mapSafenodePaymentVotes' = [mapSafenodePaymentVotes EXCEPT ![v] = Unverified]
    /\ IF InRange(v) THEN Goes("net", "checking") /\ vote' = [vote EXCEPT !["net"] = {v}]
                     ELSE UNCHANGED <<pc, vote>>
    /\ UNCHANGED <<chainVars, counted, vecPayees, mapSafenodesLastVote, template, disk, restarts>>

\* vote.IsValid fails: safenode unknown, too old or not among the first ten.
RefuseVote ==
    /\ pc["net"] = "checking" /\ MainFree /\ Drops("net")
    /\ UNCHANGED <<chainVars, store, mapSafenodesLastVote, template, disk, restarts>>

HeightNoted(v) == v.height

\* CanVote, and then GetSafenodeInfo and CheckSignature, which may fail.
CheckVote ==
    /\ pc["net"] = "checking" /\ MainFree
    /\ \E v \in vote["net"] :
          IF mapSafenodesLastVote[v.by] = HeightNoted(v)
          THEN Drops("net") /\ UNCHANGED mapSafenodesLastVote
          ELSE /\ mapSafenodesLastVote' = [mapSafenodesLastVote EXCEPT ![v.by] = HeightNoted(v)]
               /\ \/ Drops("net")
                  \/ IsNew(v) /\ Takes("net", v)
    /\ UNCHANGED <<chainVars, store, template, disk, restarts>>

(* "chain": blocks come and go; UpdatedBlockTip; ProcessBlock.               *)

\* ActivateBestChain leaves cs_main before it notifies.
NewTip(h) ==
    /\ Free("chain") /\ MainFree
    /\ h \in FirstTip .. LastTip /\ h - chainHeight \in {-1, 0, 1}
    /\ h <= chainHeight => reorgs < MaxReorgs
    /\ reorgs' = IF h <= chainHeight THEN reorgs + 1 ELSE reorgs
    /\ chainHeight' = h /\ Goes("chain", "notifying")
    /\ UNCHANGED <<tip, highest, store, mapSafenodesLastVote, vote, template, disk, restarts>>

\* InvalidateBlock without a rival chain: nobody is told.
Disconnect ==
    /\ Free("chain") /\ MainFree /\ chainHeight > FirstTip /\ reorgs < MaxReorgs
    /\ reorgs' = reorgs + 1 /\ chainHeight' = chainHeight - 1
    /\ UNCHANGED <<tip, highest, store, mapSafenodesLastVote, pc, vote, template, disk, restarts>>

Higher(h) == IF h > highest THEN h ELSE highest
Hears == tip' = chainHeight /\ highest' = Higher(tip') /\ Goes("chain", "voting")

UpdatedBlockTip ==
    /\ pc["chain"] = "notifying" /\ Hears
    /\ UNCHANGED <<chainHeight, reorgs, store, mapSafenodesLastVote, vote, template, disk, restarts>>

\* The own safenode is not asked CanVote.  No vote: it is not ranked, or there
\* is nobody to pay, or the vote is known already.
ProcessBlock ==
    /\ pc["chain"] = "voting" /\ MainFree
    /\ \/ Goes("chain", "idle") /\ UNCHANGED vote
       \/ \E v \in Votes :
             /\ v.by = Self /\ v.height = tip + VoteAhead /\ v.payee \notin Scheduled
             /\ IsNew(v) /\ Takes("chain", v)
    /\ UNCHANGED <<chainVars, store, mapSafenodesLastVote, template, disk, restarts>>

(* "pool": CheckAndRemove.                                                   *)

\* Fault: the last height within the limit goes too.
OneTooMany(h, t) == t - h >= StorageLimit
Forgettable(h, t) == t - h > StorageLimit
\* Fault: the entry of the height keeps the votes.
BlocksStay(old) == UNCHANGED <<counted, vecPayees>>
BlocksErased(old) ==
    LET hs == {v.height : v \in old} IN
    /\ counted' = [v \in Votes |-> IF v.height \in hs THEN 0 ELSE counted[v]]
    /\ vecPayees' = [h \in Heights |-> IF h \in hs THEN <<>> ELSE vecPayees[h]]
Forgets(old) ==
    /\ mapSafenodePaymentVotes' =
          [v \in Votes |-> IF v \in old THEN Absent ELSE mapSafenodePaymentVotes[v]]
    /\ BlocksErased(old)
Stored == {v \in Votes : mapSafenodePaymentVotes[v] # Absent}
CheckAndRemove ==
    /\ Forgets({v \in Stored : Forgettable(v.height, tip)})
    /\ UNCHANGED <<chainVars, mapSafenodesLastVote, pc, vote, template, disk, restarts>>

\* The sweep reads the tip for every vote, and the tip moves without its locks.
SweepAcrossTip ==
    /\ pc["chain"] = "notifying" /\ Hears
    /\ \E early \in SUBSET Stored :
          Forgets({v \in Stored : Forgettable(v.height, IF v \in early THEN tip ELSE tip')})
    /\ UNCHANGED <<chainHeight, reorgs, mapSafenodesLastVote, vote, template, disk, restarts>>

(* "miner": CreateNewBlock.                                                  *)

\* FillBlockPayee, with the best payee or, without one, a choice of its own.
FillBlockPayee ==
    /\ Free("miner")
    /\ template' \in IF Listed(chainHeight + 1) # {} THEN {BestPayees(chainHeight + 1)}
                     ELSE {{}} \cup {{p} : p \in Payees}
    /\ Goes("miner", "filled")
    /\ UNCHANGED <<chainVars, store, mapSafenodesLastVote, vote, disk, restarts>>

\* A block that fails makes CreateNewBlock throw, and ThreadMiner returns.
TestBlockValidity ==
    /\ pc["miner"] = "filled"
    /\ Goes("miner", IF IsTransactionValid(template, chainHeight + 1) THEN "idle" ELSE "dead")
    /\ template' = {}
    /\ UNCHANGED <<chainVars, store, mapSafenodesLastVote, vote, disk, restarts>>

(* Shutdown writes the file once the threads have ended; a crash does not.   *)

\* Fault: the blocks are not written.
VotesSaved == [Empty EXCEPT !.votes = mapSafenodePaymentVotes]
Saved == [votes |-> mapSafenodePaymentVotes, counted |-> counted, payees |-> vecPayees]
\* Without safenodes in mncache.dat the payments are not loaded.
Start(file, h) ==
    /\ \E from \in {file, Empty} :
          /\ mapSafenodePaymentVotes' = from.votes /\ counted' = from.counted
          /\ vecPayees' = from.payees
    /\ chainHeight' = h /\ tip' = h /\ highest' = Higher(h) /\ UNCHANGED reorgs
    /\ mapSafenodesLastVote' = [m \in Safenodes |-> None]
    /\ pc' = [t \in Threads |-> "idle"] /\ vote' = [t \in Voters |-> {}] /\ template' = {}
    /\ restarts < MaxRestarts /\ restarts' = restarts + 1

Restart ==
    /\ \A t \in Voters : Free(t)
    /\ MainFree
    /\ disk' = Saved /\ Start(Saved, chainHeight)
Crash == \E h \in FirstTip .. chainHeight : Start(disk, h) /\ UNCHANGED disk

Next ==
    \/ \E t \in Voters : StoreVote(t)
    \/ \E v \in Votes : ReceiveVote(v)
    \/ RefuseVote \/ CheckVote
    \/ \E h \in FirstTip .. LastTip : NewTip(h)
    \/ Disconnect \/ UpdatedBlockTip \/ ProcessBlock
    \/ CheckAndRemove \/ SweepAcrossTip
    \/ FillBlockPayee \/ TestBlockValidity
    \/ Restart \/ Crash

Spec == Init /\ [][Next]_vars

-----------------------------------------------------------------------------
Files == [votes : [Votes -> {Absent, Unverified, Verified}],
          counted : [Votes -> Nat], payees : [Heights -> Seq(Payees)]]
\* The types, and no tip of the payments above the highest one they heard of.
TypeOK ==
    /\ chainHeight \in FirstTip .. LastTip /\ tip \in FirstTip .. LastTip
    /\ highest \in FirstTip .. LastTip /\ tip <= highest
    /\ mapSafenodePaymentVotes \in [Votes -> {Absent, Unverified, Verified}]
    /\ counted \in [Votes -> Nat] /\ vecPayees \in [Heights -> Seq(Payees)]
    /\ mapSafenodesLastVote \in [Safenodes -> Heights \cup {None}]
    /\ pc \in [Threads -> {"idle", "checking", "adding", "notifying", "voting", "filled", "dead"}]
    /\ vote \in [Voters -> SUBSET Votes] /\ disk \in Files /\ template \in SUBSET Payees
    /\ reorgs \in 0 .. MaxReorgs /\ restarts \in 0 .. MaxRestarts

TooOld(h, t) == t - h > StorageLimit
\* 1 while thread t is about to count v.
Pending(t, v) == IF pc[t] = "adding" /\ v \in vote[t] THEN 1 ELSE 0

\* What the blocks list, in memory and in the file, can be served to a peer:
\* Sync and getdata hand out verified votes only, and a hash in vecPayees
\* without its vote would count for a payee and convince nobody else.
CountedIsVerified ==
    \A v \in Votes :
       /\ counted[v] > 0 => HasVerifiedPaymentVote(v) /\ v.payee \in Listed(v.height)
       /\ disk.counted[v] > 0 =>
             /\ disk.votes[v] = Verified
             /\ \E i \in DOMAIN disk.payees[v.height] : disk.payees[v.height][i] = v.payee

\* A verified vote is refused when it comes again, so one that is not counted
\* is lost for good: only a height the sweep was entitled to forget has any.
VerifiedIsCounted ==
    \A v \in Votes : HasVerifiedPaymentVote(v) => counted[v] > 0 \/ TooOld(v.height, highest)

\* HasVerifiedPaymentVote and the counting are apart, so two threads can count
\* one vote: never more than twice, whatever is forgotten in between.
AtMostTwice ==
    \A v \in Votes : counted[v] + Pending("net", v) + Pending("chain", v) <= 2

\* The votes of a height are forgotten together, and only when it is past the
\* storage limit of the highest tip or the node starts again.
ForgottenWhenOld ==
    [][restarts' = restarts =>
       \A v \in Votes : counted[v] > 0 /\ counted'[v] = 0
            => /\ TooOld(v.height, highest')
               /\ \A w \in Votes : w.height = v.height => counted'[w] = 0]_vars

\* "record this safenode voted" (safenode-payments.cpp:253), and a second vote
\* for the height is refused as "safenode already voted" (line 374).
OneVoteAHeight ==
    \A v, w \in Votes :
       /\ HasVerifiedPaymentVote(v) /\ HasVerifiedPaymentVote(w)
       /\ v.by = w.by /\ v.by # Self /\ v.height = w.height /\ restarts = 0
       => v = w

\* "TestBlockValidity failed" (miner.cpp:308) is thrown as a thing that must
\* not happen to the node's own template.
TemplateAccepted == pc["miner"] # "dead"

\* "Avoid processing same vote multiple times" (safenode-payments.cpp:354).
CountedOnce == \A v \in Votes : counted[v] <= 1
=============================================================================

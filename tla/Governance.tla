----------------------------- MODULE Governance -----------------------------
(***************************************************************************)
(* Governance objects and their votes on one node: CGovernanceManager      *)
(* (src/governance.cpp), CGovernanceObject (src/governance-object.cpp) and *)
(* what they share with the safenode list, CSafenodeMan.                   *)
(*                                                                         *)
(* Two threads.  "net" handles messages: inventories, objects, votes and   *)
(* announcements of safenodes.  "pool" is ThreadCheckDarkSendPool: it      *)
(* removes safenodes whose collateral is spent and runs the maintenance.   *)
(* Both end in NotifySafenodeUpdates, which takes and drops the locks      *)
(* several times.  A step is what one thread does under governance.cs, or  *)
(* under mnodeman.cs when it holds only that one.                          *)
(*                                                                         *)
(* Time is relative: Tick ages what has a deadline.  Watchdogs, the rebuilt*)
(* index of more than 30,000 safenodes and rate limits are left out: the   *)
(* rate limit of votes compares with voteInstance.nTime, which stays 0.    *)
(***************************************************************************)
EXTENDS Integers, Sequences, FiniteSets

CONSTANTS
    Safenodes, Objects, Votes,
    VoteBy,             \* vote -> the safenode that signed it
    VoteFor,            \* vote -> nParentHash
    VoteAt, LastTime,   \* vote -> its timestamp, an int64_t
    VoteSignal,         \* vote -> "delete" or another signal
    YesVotes,           \* votes whose outcome is yes; the others say no
    Triggers, Owner,    \* objects a safenode signs; trigger -> that safenode
    OrphanTime,         \* GOVERNANCE_ORPHAN_EXPIRATION_TIME
    DeletionDelay,      \* GOVERNANCE_DELETION_DELAY
    MinQuorum           \* nGovernanceMinQuorum

ASSUME VoteAssumption ==
    /\ VoteBy \in [Votes -> Safenodes] /\ VoteFor \in [Votes -> Objects]
    /\ LastTime \in Nat /\ VoteAt \in [Votes -> 0 .. LastTime]
ASSUME OwnerAssumption == Triggers \subseteq Objects /\ Owner \in [Triggers -> Safenodes]
ASSUME TimeAssumption == OrphanTime \in Nat \ {0} /\ DeletionDelay \in Nat \ {0}

SameSlot(v, w) ==
    VoteFor[v] = VoteFor[w] /\ VoteBy[v] = VoteBy[w] /\ VoteSignal[v] = VoteSignal[w]

\* Two votes in one slot differ in their time: a safenode signs one a second.
ASSUME SlotAssumption ==
    \A v, w \in Votes : SameSlot(v, w) /\ VoteAt[v] = VoteAt[w] => v = w

Threads == {"net", "pool"}

VARIABLES
    vSafenodes,         \* the list, in the order of the vector
    indexed,            \* indexSafenodes: everyone who was ever listed
    votedOn,            \* safenode -> mapGovernanceObjectsVotedOn of its entry
    dirtyHashes,        \* vecDirtyGovernanceObjectHashes
    fSafenodesAdded, fSafenodesRemoved,
    mapObjects,         \* hashes of the stored objects
    object,             \* hash -> the object, Fresh when not stored
    seenObjects,        \* mapSeenGovernanceObjects
    orphanObjects,      \* hash -> time left in mapSafenodeOrphanObjects, or Absent
    orphanVotes,        \* mapOrphanVotes of the manager: [vote, left]
    mapInvalidVotes, mapVoteToObject,
    pc, local,          \* where each thread is, and its local variables
    erased              \* history: objects that were stored and erased

listVars == <<vSafenodes, indexed, votedOn, dirtyHashes, fSafenodesAdded, fSafenodesRemoved>>
objectVars == <<mapObjects, object, seenObjects, orphanObjects, erased>>
voteVars == <<orphanVotes, mapInvalidVotes, mapVoteToObject>>
vars == <<listVars, objectVars, voteVars, pc, local>>

-----------------------------------------------------------------------------
Absent == -1
Expired == 0
Listed == {vSafenodes[i] : i \in DOMAIN vSafenodes}
Entries == [vote : Votes, left : Expired .. OrphanTime]
Fresh == [counted |-> {}, file |-> {}, orphans |-> {}, fDirtyCache |-> TRUE,
          fCachedDelete |-> FALSE, fExpired |-> FALSE, age |-> 0]
NoLocal == [removed |-> FALSE, dirty |-> {}, then |-> "idle", votes |-> {}]

Init ==
    /\ vSafenodes = <<>> /\ indexed = {} /\ votedOn = [m \in Safenodes |-> {}]
    /\ dirtyHashes = {} /\ fSafenodesAdded = FALSE /\ fSafenodesRemoved = FALSE
    /\ mapObjects = {} /\ object = [o \in Objects |-> Fresh]
    /\ seenObjects = {} /\ orphanObjects = [o \in Objects |-> Absent] /\ erased = {}
    /\ orphanVotes = {} /\ mapInvalidVotes = {} /\ mapVoteToObject = {}
    /\ pc = [t \in Threads |-> "idle"] /\ local = [t \in Threads |-> NoLocal]

\* governance.cs is held across steps only while a vote is being stored.
Unlocked == pc["net"] \notin {"adding", "storing"}
Free == pc["net"] = "idle"
Goes(t, p) == pc' = [pc EXCEPT ![t] = p]

-----------------------------------------------------------------------------
(* The containers of orphan votes.                                           *)

\* Two values under one key are equal when their times are: operator< of
\* CGovernanceVote never holds, so the pairs compare by the time alone.
Equivalent(e, v, Key) == Key[e.vote] = Key[v] /\ e.left = OrphanTime
Insert(S, v, Key) ==
    IF \E e \in S : Equivalent(e, v, Key) THEN S ELSE S \cup {[vote |-> v, left |-> OrphanTime]}
\* Fault: what is past its time goes on ageing.
AgedFurther(S) == {[e EXCEPT !.left = @ - 1] : e \in S}
Aged(S) == {[e EXCEPT !.left = IF @ = Expired THEN Expired ELSE @ - 1] : e \in S}

(* Votes an object counts.                                                   *)
Obsolete(v, V) == \E w \in V : SameSlot(v, w) /\ VoteAt[w] > VoteAt[v]
\* The current votes once those of V have been taken in, each when not obsolete.
Newest(V) == {v \in V : ~Obsolete(v, V)}
\* Fault: the older vote of the slot stays in the count.
CountBoth(obj, V) ==
    IF V = {} THEN obj
    ELSE [obj EXCEPT !.counted = @ \cup V, !.file = @ \cup V, !.fDirtyCache = TRUE]
Count(obj, V) ==
    IF V = {} THEN obj
    ELSE [obj EXCEPT !.counted = Newest(@ \cup V), !.file = @ \cup V, !.fDirtyCache = TRUE]

\* What CountEnabled may return: which entries are enabled is up to SafenodeEntry.
Enabled == 0 .. Len(vSafenodes)
Larger(a, b) == IF a > b THEN a ELSE b
Tally(V, signal) ==
    LET S == {v \in V : VoteSignal[v] = signal} IN
    Cardinality(S \cap YesVotes) - Cardinality(S \ YesVotes)
DeleteQuorum(n) == Larger(MinQuorum, (2 * n) \div 3)
\* Fault: the flag is worked out anew each time.
ForgetfulSentinel(obj, n) ==
    IF n = 0 THEN obj
    ELSE [obj EXCEPT !.fDirtyCache = FALSE,
                     !.fCachedDelete = Tally(obj.counted, "delete") >= DeleteQuorum(n)]
UpdateSentinelVariables(obj, n) ==
    IF n = 0 THEN obj
    ELSE LET delete == ~obj.fCachedDelete /\ Tally(obj.counted, "delete") >= DeleteQuorum(n) IN
         [obj EXCEPT !.fDirtyCache = FALSE, !.fCachedDelete = @ \/ delete,
                     !.age = IF delete /\ ~obj.fExpired THEN 0 ELSE @]

\* mnodeman.AddGovernanceVote for the votes of V.
Noted(V) == [m \in Safenodes |-> votedOn[m] \cup {VoteFor[v] : v \in {w \in V : VoteBy[w] = m}}]

-----------------------------------------------------------------------------
(* Messages.  ConfirmInventoryRequest asks for objects and votes that are not  *)
(* here, and ProcessMessage takes what was asked for, once: a vote that        *)
(* mapVoteToObject holds was not asked for again.                              *)

\* Fault: the seen objects are not looked at.
NotStored(o) == o \notin mapObjects
NotSeen(o) == o \notin seenObjects
Missing(o) == o \in Triggers /\ Owner[o] \notin Listed

RefuseObject(o) ==
    /\ Free /\ NotSeen(o)
    /\ orphanObjects' = IF Missing(o) THEN [orphanObjects EXCEPT ![o] = OrphanTime]
                                      ELSE orphanObjects
    /\ seenObjects' = seenObjects \cup {o}
    /\ UNCHANGED <<listVars, mapObjects, object, erased, voteVars, pc, local>>

Waiting(o) == {e \in orphanVotes : VoteFor[e.vote] = o}
Alive(o) == {e \in Waiting(o) : e.left # Expired}
\* CheckOrphanVotes(govobj): the votes ProcessVote takes, oldest entry first, on
\* the handler's own copy of the object.
Taken(o) ==
    {e \in Alive(o) : /\ VoteBy[e.vote] \in Listed
                      /\ \A f \in Alive(o) : /\ VoteBy[f.vote] \in Listed
                                             /\ f.left < e.left
                                             => ~(SameSlot(f.vote, e.vote)
                                                  /\ VoteAt[f.vote] > VoteAt[e.vote])}
AcceptObject(o) ==
    /\ Free /\ NotSeen(o) /\ ~Missing(o) /\ o \notin mapObjects
    /\ mapObjects' = mapObjects \cup {o}
    /\ \E n \in Enabled : object' = [object EXCEPT ![o] = UpdateSentinelVariables(Fresh, n)]
    /\ seenObjects' = seenObjects \cup {o}
    /\ orphanVotes' = orphanVotes \ (Taken(o) \cup (Waiting(o) \ Alive(o)))
    /\ votedOn' = Noted({e.vote : e \in Taken(o)})
    /\ mapInvalidVotes' = mapInvalidVotes \cup
          {e.vote : e \in {f \in Alive(o) : VoteBy[f.vote] \in indexed \ Listed}}
    /\ UNCHANGED <<vSafenodes, indexed, dirtyHashes, fSafenodesAdded, fSafenodesRemoved,
                   orphanObjects, erased, mapVoteToObject, pc, local>>

\* ProcessVote, the ways out before anything is counted.
RefuseVote(v) ==
    LET o == VoteFor[v]
        obj == object[o] IN
    /\ Free /\ v \notin mapVoteToObject
    /\ UNCHANGED <<listVars, mapObjects, seenObjects, orphanObjects, erased,
                   mapVoteToObject, pc, local>>
    /\ \/ /\ \/ v \in mapInvalidVotes
             \/ o \in mapObjects /\ (obj.fCachedDelete \/ obj.fExpired)
             \/ o \in mapObjects /\ VoteBy[v] \in indexed /\ Obsolete(v, obj.counted)
          /\ UNCHANGED <<object, orphanVotes, mapInvalidVotes>>
       \/ /\ v \notin mapInvalidVotes /\ o \notin mapObjects
          /\ orphanVotes' = Insert(orphanVotes, v, VoteFor)
          /\ UNCHANGED <<object, mapInvalidVotes>>
       \/ /\ v \notin mapInvalidVotes /\ o \in mapObjects
          /\ ~obj.fCachedDelete /\ ~obj.fExpired /\ VoteBy[v] \notin indexed
          /\ object' = [object EXCEPT ![o].orphans = Insert(@, v, VoteBy)]
          /\ UNCHANGED <<orphanVotes, mapInvalidVotes>>
       \/ /\ v \notin mapInvalidVotes /\ o \in mapObjects
          /\ ~obj.fCachedDelete /\ ~obj.fExpired /\ VoteBy[v] \in indexed \ Listed
          /\ ~Obsolete(v, obj.counted)
          /\ mapInvalidVotes' = mapInvalidVotes \cup {v}
          /\ UNCHANGED <<object, orphanVotes>>

\* ProcessVote up to vote.IsValid: the list says that the signature is right.
CheckVote(v) ==
    LET obj == object[VoteFor[v]] IN
    /\ Free /\ v \notin mapVoteToObject
    /\ v \notin mapInvalidVotes /\ VoteFor[v] \in mapObjects
    /\ ~obj.fCachedDelete /\ ~obj.fExpired
    /\ VoteBy[v] \in Listed /\ ~Obsolete(v, obj.counted)
    /\ Goes("net", "adding") /\ local' = [local EXCEPT !["net"] = [NoLocal EXCEPT !.votes = {v}]]
    /\ UNCHANGED <<listVars, objectVars, voteVars>>

\* mnodeman.AddGovernanceVote: the safenode may be gone by now.
AddVote ==
    /\ pc["net"] = "adding"
    /\ \E v \in local["net"].votes :
          IF VoteBy[v] \in Listed
          THEN votedOn' = Noted({v}) /\ Goes("net", "storing") /\ UNCHANGED local
          ELSE Goes("net", "idle") /\ local' = [local EXCEPT !["net"] = NoLocal]
               /\ UNCHANGED votedOn
    /\ UNCHANGED <<vSafenodes, indexed, dirtyHashes, fSafenodesAdded, fSafenodesRemoved,
                   objectVars, voteVars>>

StoreVote ==
    /\ pc["net"] = "storing"
    /\ \E v \in local["net"].votes :
          /\ object' = [object EXCEPT ![VoteFor[v]] = Count(@, {v})]
          /\ mapVoteToObject' = mapVoteToObject \cup {v}
    /\ Goes("net", "idle") /\ local' = [local EXCEPT !["net"] = NoLocal]
    /\ UNCHANGED <<listVars, mapObjects, seenObjects, orphanObjects, erased, orphanVotes,
                   mapInvalidVotes>>

-----------------------------------------------------------------------------
(* The safenode list.                                                        *)

\* CheckMnbAndUpdateSafenodeList and Add: when push_back moves the vector, the
\* entries are copied, and the copy constructor leaves their votes behind.
Announce(m) ==
    /\ Free /\ m \notin Listed
    /\ vSafenodes' = Append(vSafenodes, m)
    /\ indexed' = indexed \cup {m}
    /\ fSafenodesAdded' = TRUE
    /\ votedOn' \in {[votedOn EXCEPT ![m] = {}], [n \in Safenodes |-> {}]}
    /\ Goes("net", "added")
    /\ UNCHANGED <<dirtyHashes, fSafenodesRemoved, objectVars, voteVars, local>>

\* Position of the first entry of the vector that is removed.
First(gone) == CHOOSE i \in DOMAIN vSafenodes :
    vSafenodes[i] \in gone /\ \A j \in 1 .. i - 1 : vSafenodes[j] \notin gone
\* What the loop over the vector leaves of its first i entries.
Survivors(gone) ==
    LET left[i \in 0 .. Len(vSafenodes)] ==
            IF i = 0 THEN <<>>
            ELSE IF vSafenodes[i] \in gone THEN left[i - 1]
            ELSE Append(left[i - 1], vSafenodes[i])
    IN  left[Len(vSafenodes)]
\* CheckAndRemove: erase() assigns every later entry from a copy, without its votes;
\* a second one that goes in the same pass has none left to flag.
CheckAndRemove(gone) ==
    /\ pc["pool"] = "idle" /\ gone # {}
    /\ vSafenodes' = Survivors(gone)
    /\ dirtyHashes' = dirtyHashes \cup votedOn[vSafenodes[First(gone)]]
    /\ votedOn' = [m \in Safenodes |->
          IF \E i \in 1 .. First(gone) - 1 : vSafenodes[i] = m THEN votedOn[m] ELSE {}]
    /\ fSafenodesRemoved' = TRUE
    /\ Goes("pool", "removed")
    /\ UNCHANGED <<indexed, fSafenodesAdded, objectVars, voteVars, local>>

-----------------------------------------------------------------------------
(* NotifySafenodeUpdates and DoMaintenance.                                  *)

\* The flags are looked at without a lock first.
Look(t) ==
    /\ \/ pc[t] = "added" /\ Goes(t, IF fSafenodesAdded THEN "notify" ELSE "idle")
       \/ pc[t] = "removed" /\ Goes(t, IF fSafenodesRemoved THEN "notify" ELSE "idle")
    /\ UNCHANGED <<listVars, objectVars, voteVars, local>>

CopyFlags(t) ==
    /\ pc[t] = "notify"
    /\ local' = [local EXCEPT ![t] = [NoLocal EXCEPT !.removed = fSafenodesRemoved,
                                                     !.then = "clearing"]]
    /\ Goes(t, IF fSafenodesAdded THEN "objects" ELSE
               IF fSafenodesRemoved THEN "taking" ELSE "clearing")
    /\ UNCHANGED <<listVars, objectVars, voteVars>>

CheckSafenodeOrphanObjects(t) ==
    LET alive == {o \in Objects : orphanObjects[o] \notin {Absent, Expired}}
        ready == {o \in alive : Owner[o] \in Listed} IN
    /\ pc[t] = "objects" /\ Unlocked
    /\ \E good \in SUBSET ready :       \* the others fail their signature
          /\ mapObjects' = mapObjects \cup good
          /\ object' = [o \in Objects |->
                IF o \in good \ mapObjects THEN Fresh ELSE object[o]]
    /\ orphanObjects' = [o \in Objects |->
          IF o \in alive \ ready THEN orphanObjects[o] ELSE Absent]
    /\ Goes(t, "votes")
    /\ UNCHANGED <<listVars, seenObjects, erased, voteVars, local>>

\* CGovernanceObject::CheckOrphanVotes on an object.  A vote past its time goes
\* through ProcessVote once more, and is kept anew when its safenode is unknown.
Due(o) == {e \in object[o].orphans : VoteBy[e.vote] \in Listed}
Late(o) == {e \in object[o].orphans : e.left = Expired /\ VoteBy[e.vote] \notin Listed}
Unknown(o) == {e \in Late(o) : VoteBy[e.vote] \notin indexed}
\* What is counted, when the votes of skip came after a newer one of their slot.
Countable(o, skip) == {e \in Due(o) : ~Obsolete(e.vote, object[o].counted)} \ skip
Kept(o, skip, renewed) ==
    {e \in object[o].orphans \ Countable(o, skip) : e.left # Expired}
    \cup {[e EXCEPT !.left = OrphanTime] : e \in renewed \cap Unknown(o)}
CheckSafenodeOrphanVotes(t) ==
    /\ pc[t] = "votes" /\ Unlocked
    /\ \E skip \in SUBSET UNION {Due(o) : o \in mapObjects},
          renewed \in SUBSET UNION {Unknown(o) : o \in mapObjects} :
          LET ok(o) == {e.vote : e \in Countable(o, skip)} IN
          /\ \A o \in mapObjects : \A e \in skip \cap Due(o) : Obsolete(e.vote, ok(o))
          /\ \A o \in mapObjects : \A e \in Unknown(o) :
                Cardinality({f \in Kept(o, skip, renewed) : Equivalent(f, e.vote, VoteBy)}) = 1
          /\ object' = [o \in Objects |->
                IF o \in mapObjects
                THEN Count([object[o] EXCEPT !.orphans = Kept(o, skip, renewed)], ok(o))
                ELSE object[o]]
          /\ votedOn' = Noted(UNION {ok(o) : o \in mapObjects})
    /\ mapInvalidVotes' = mapInvalidVotes \cup
          {v \in Votes : \E o \in mapObjects : \E e \in Late(o) \ Unknown(o) :
              e.vote = v /\ ~Obsolete(v, object[o].counted)}
    /\ Goes(t, IF local[t].removed THEN "taking" ELSE "clearing")
    /\ UNCHANGED <<vSafenodes, indexed, dirtyHashes, fSafenodesAdded, fSafenodesRemoved,
                   mapObjects, seenObjects, orphanObjects, erased, orphanVotes,
                   mapVoteToObject, local>>

\* UpdateCachesAndClean, before and after it takes governance.cs.
TakeDirty(t) ==
    /\ pc[t] = "taking"
    /\ local' = [local EXCEPT ![t] = [NoLocal EXCEPT !.dirty = dirtyHashes, !.then = local[t].then]]
    /\ dirtyHashes' = {}
    /\ Goes(t, "cleaning")
    /\ UNCHANGED <<vSafenodes, indexed, votedOn, fSafenodesAdded, fSafenodesRemoved,
                   objectVars, voteVars>>

ClearSafenodeVotes(obj) ==
    [obj EXCEPT !.counted = {v \in @ : VoteBy[v] \in Listed},
                !.file = {v \in @ : VoteBy[v] \in Listed}, !.fDirtyCache = TRUE]
\* triggerman.CleanAndRemove: the block of the trigger is long gone.
Expire(obj) == [obj EXCEPT !.fExpired = TRUE, !.age = 0]
Over(obj) == (obj.fCachedDelete \/ obj.fExpired) /\ obj.age >= DeletionDelay

\* What becomes of an object for which CountEnabled returned n.
Cleaned(t, o, expiring, n) ==
    LET cleared == IF o \in local[t].dirty THEN ClearSafenodeVotes(object[o]) ELSE object[o]
        dated == IF o \in expiring THEN Expire(cleared) ELSE cleared IN
    IF dated.fDirtyCache THEN UpdateSentinelVariables(dated, n) ELSE dated

\* Fault: the references to the votes of an erased object stay.
PointersStay(gone) == mapVoteToObject
PointersLeft(gone) == {v \in mapVoteToObject : VoteFor[v] \notin gone}
UpdateCachesAndClean(t) ==
    /\ pc[t] = "cleaning" /\ Unlocked
    /\ \E expiring \in SUBSET {o \in mapObjects \cap Triggers : ~object[o].fExpired},
          n \in [mapObjects -> Enabled] :
          LET gone == {o \in mapObjects : Over(Cleaned(t, o, expiring, n[o]))} IN
          /\ mapObjects' = mapObjects \ gone
          /\ erased' = erased \cup gone
          /\ object' = [o \in Objects |-> IF o \in gone \/ o \notin mapObjects THEN Fresh
                                          ELSE Cleaned(t, o, expiring, n[o])]
          /\ mapVoteToObject' = PointersLeft(gone)
          /\ votedOn' = [m \in Safenodes |-> votedOn[m] \ gone]
    /\ Goes(t, local[t].then) /\ local' = [local EXCEPT ![t] = NoLocal]
    /\ UNCHANGED <<vSafenodes, indexed, dirtyHashes, fSafenodesAdded, fSafenodesRemoved,
                   seenObjects, orphanObjects, orphanVotes, mapInvalidVotes>>

ClearFlags(t) ==
    /\ pc[t] = "clearing"
    /\ fSafenodesAdded' = FALSE /\ fSafenodesRemoved' = FALSE
    /\ Goes(t, "idle") /\ local' = [local EXCEPT ![t] = NoLocal]
    /\ UNCHANGED <<vSafenodes, indexed, votedOn, dirtyHashes, objectVars, voteVars>>

\* DoMaintenance: CleanOrphanObjects, then UpdateCachesAndClean.
DoMaintenance ==
    /\ pc["pool"] = "idle" /\ Unlocked
    /\ orphanVotes' = {e \in orphanVotes : e.left # Expired}
    /\ Goes("pool", "taking")
    /\ UNCHANGED <<listVars, objectVars, mapInvalidVotes, mapVoteToObject, local>>

Tick ==
    /\ orphanVotes' = Aged(orphanVotes)
    /\ orphanObjects' = [o \in Objects |->
          IF orphanObjects[o] \in {Absent, Expired} THEN orphanObjects[o]
          ELSE orphanObjects[o] - 1]
    /\ object' = [o \in Objects |->
          [object[o] EXCEPT !.orphans = Aged(@),
             !.age = IF (object[o].fCachedDelete \/ object[o].fExpired) /\ @ < DeletionDelay
                     THEN @ + 1 ELSE @]]
    /\ UNCHANGED <<listVars, mapObjects, seenObjects, erased, mapInvalidVotes,
                   mapVoteToObject, pc, local>>

-----------------------------------------------------------------------------
ObjectMessage(o) == RefuseObject(o) \/ AcceptObject(o)
VoteMessage(v) == RefuseVote(v) \/ CheckVote(v)
Notify(t) ==
    \/ Look(t) \/ CopyFlags(t) \/ CheckSafenodeOrphanObjects(t)
    \/ CheckSafenodeOrphanVotes(t) \/ TakeDirty(t) \/ UpdateCachesAndClean(t) \/ ClearFlags(t)
Next ==
    \/ \E o \in Objects : ObjectMessage(o)
    \/ \E v \in Votes : VoteMessage(v)
    \/ AddVote \/ StoreVote
    \/ \E m \in Safenodes : Announce(m)
    \/ \E gone \in SUBSET Listed : CheckAndRemove(gone)
    \/ \E t \in Threads : Notify(t)
    \/ DoMaintenance \/ Tick

\* The threads run, the pool thread comes back to its maintenance (every fifth
\* minute of its loop) whatever else it does, and time passes.
Fairness ==
    /\ WF_vars(AddVote) /\ WF_vars(StoreVote)
    /\ \A t \in Threads : WF_vars(Notify(t))
    /\ SF_vars(DoMaintenance) /\ WF_vars(Tick)

Spec == Init /\ [][Next]_vars
FairSpec == Spec /\ Fairness

-----------------------------------------------------------------------------
Stored == [counted : SUBSET Votes, file : SUBSET Votes, orphans : SUBSET Entries,
           fDirtyCache : BOOLEAN, fCachedDelete : BOOLEAN, fExpired : BOOLEAN,
           age : 0 .. DeletionDelay]
Places == {"idle", "adding", "storing", "added", "removed", "notify", "objects", "votes",
           "taking", "cleaning", "clearing"}
ListOK ==
    /\ vSafenodes \in Seq(Safenodes) /\ indexed \subseteq Safenodes
    /\ votedOn \in [Safenodes -> SUBSET Objects] /\ dirtyHashes \subseteq Objects
    /\ fSafenodesAdded \in BOOLEAN /\ fSafenodesRemoved \in BOOLEAN
ObjectsOK ==
    /\ mapObjects \subseteq Objects /\ object \in [Objects -> Stored]
    /\ seenObjects \subseteq Objects /\ erased \subseteq Objects
    /\ orphanObjects \in [Objects -> Absent .. OrphanTime]
VotesOK ==
    /\ orphanVotes \subseteq Entries
    /\ mapInvalidVotes \subseteq Votes /\ mapVoteToObject \subseteq Votes
ThreadsOK ==
    /\ pc \in [Threads -> Places]
    /\ local \in [Threads -> [removed : BOOLEAN, dirty : SUBSET Objects,
                              then : {"idle", "clearing"}, votes : SUBSET Votes]]
TypeOK == ListOK /\ ObjectsOK /\ VotesOK /\ ThreadsOK

\* mapVoteToObject holds raw pointers into mapObjects, which HaveVoteForHash and
\* SerializeVoteForHash follow: none may outlive its object, whichever thread erases
\* it and whatever votes were stored meanwhile.
VotePointersLive == \A v \in mapVoteToObject : VoteFor[v] \in mapObjects

\* Votes come in any order, twice, late and through the orphan caches: what an object
\* counts is one vote per safenode and signal, the newest of those it has on file.
TallyIsNewest ==
    \A o \in mapObjects :
        /\ object[o].counted \subseteq object[o].file
        /\ \A v \in object[o].file : VoteFor[v] = o
        /\ \A v \in object[o].counted, w \in object[o].file :
              SameSlot(v, w) => VoteAt[w] <= VoteAt[v]
        /\ \A w \in object[o].file : \E v \in object[o].counted : SameSlot(v, w)

\* An object that was voted out or expired, and was erased, never comes back, neither
\* from a peer that sends it again nor out of the orphans that wait for their safenode.
ErasedStaysErased ==
    \A o \in erased : o \notin mapObjects /\ orphanObjects[o] = Absent

\* An object the safenodes voted to delete is erased in the end, whatever is voted
\* afterwards: the votes cannot take the decision back.
DeletedIsErased ==
    \A o \in Objects : object[o].fCachedDelete ~> o \notin mapObjects

\* The comment at CheckOrphanVotes (src/governance.cpp:239): a vote that waited for its
\* object is counted by the object when it comes, and leaves the cache for that only.
OrphanVoteCounted ==
    [][\A e \in orphanVotes \ orphanVotes' :
          e.left # Expired /\ Aged({e}) \cap orphanVotes' = {}
             => e.vote \in object'[VoteFor[e.vote]].file]_vars

\* ClearSafenodeVotes (src/governance-object.h:349) is called when safenodes that have
\* voted on the object have been removed: until then the object is marked.
RemovedVotesMarked ==
    \A o \in mapObjects : \A v \in object[o].counted :
        VoteBy[v] \notin Listed => o \in dirtyHashes \cup UNION {local[t].dirty : t \in Threads}

\* CacheMultiMap::Insert (src/cachemultimap.h:117) turns away duplicates only: a vote
\* whose object is not here is in the cache once it was put there, whatever is in it.
DistinctVotesKept ==
    \A v \in Votes \ mapInvalidVotes :
        VoteFor[v] \notin mapObjects => \E e \in Insert(orphanVotes, v, VoteFor) : e.vote = v

\* fSafenodesAdded is cleared when the governance manager was notified
\* (src/safenodeman.h:146): with the flag down and no thread on its way, no orphan object
\* waits for a safenode that is listed.
AddedMeansNotified ==
    ~fSafenodesAdded /\ (\A t \in Threads : pc[t] = "idle")
        => \A o \in Triggers : orphanObjects[o] > Expired => Owner[o] \notin Listed
=============================================================================

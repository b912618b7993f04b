-------------------------- MODULE GovernanceProofs --------------------------
(***************************************************************************)
(* TLAPS proofs about Governance, for any safenodes, objects and votes and *)
(* every delay: the references to votes never outlive their object, an     *)
(* object counts the newest of the votes it has, and what was erased does  *)
(* not come back.                                                          *)
(***************************************************************************)
EXTENDS Governance, WellFoundedInduction, TLAPS

\* The vote a handler is storing is for an object that is stored, and nothing else runs
\* under governance.cs meanwhile.
HandsOK ==
    /\ DOMAIN pc = Threads /\ DOMAIN local = Threads
    /\ \A t \in Threads : local[t].then \in {"idle", "clearing"}
    /\ \A v \in local["net"].votes : v \in Votes /\ VoteFor[v] \in mapObjects
    /\ Unlocked => local["net"].votes = {}

\* What was ever stored or waits for its safenode was seen, and is in one place.
SeenOnce ==
    /\ mapObjects \subseteq Objects /\ erased \subseteq Objects
    /\ orphanObjects \in [Objects -> Absent .. OrphanTime]
    /\ mapObjects \cup erased \subseteq seenObjects
    /\ \A o \in Objects : orphanObjects[o] # Absent =>
          o \in seenObjects /\ o \notin mapObjects /\ o \notin erased

\* The votes of one object and the orphans that wait in it.
Tallied(o, obj) ==
    /\ obj.counted \subseteq obj.file
    /\ \A v \in obj.file : v \in Votes /\ VoteFor[v] = o
    /\ \A v \in obj.counted, w \in obj.file : SameSlot(v, w) => VoteAt[w] <= VoteAt[v]
    /\ \A w \in obj.file : \E v \in obj.counted : SameSlot(v, w)
Waits(o, obj) == \A e \in obj.orphans : e.vote \in Votes /\ VoteFor[e.vote] = o
AllTallied ==
    /\ object \in [Objects -> Stored]
    /\ \A o \in mapObjects : Tallied(o, object[o]) /\ Waits(o, object[o])

IInv == HandsOK /\ VotePointersLive /\ SeenOnce /\ mapObjects \cap erased = {} /\ AllTallied

----------------------------------------------------------------------------
(* The newest vote of a slot.                                               *)

Before == {p \in Nat \X Nat : p[1] < p[2]}
LEMMA BeforeWellFounded == IsWellFoundedOn(Before, Nat)
BY NatLessThanWellFounded DEF OpToRel, Before

\* Of some votes one is the latest: VoteAt is bounded.
LEMMA Latest ==
  ASSUME NEW V, V \subseteq Votes, V # {}
  PROVE  \E v \in V : \A w \in V : VoteAt[w] <= VoteAt[v]
<1> DEFINE T == {LastTime - VoteAt[v] : v \in V}
<1>1. \A v \in V : VoteAt[v] \in 0 .. LastTime
  BY VoteAssumption
<1>2. T \subseteq Nat /\ T # {}
  BY <1>1, VoteAssumption
<1>3. PICK x \in T : \A y \in T : <<y, x>> \notin Before
  BY <1>2, BeforeWellFounded, WFMin, Zenon
<1>4. PICK v \in V : x = LastTime - VoteAt[v]
  BY <1>3
<1>5. \A w \in V : VoteAt[w] <= VoteAt[v]
  <2> TAKE w \in V
  <2>1. LastTime - VoteAt[w] \in T
    OBVIOUS
  <2>2. <<LastTime - VoteAt[w], x>> \notin Before
    BY <1>3, <2>1
  <2>3. LastTime - VoteAt[w] \in Nat /\ x \in Nat
    BY <1>2, <2>1
  <2>4. ~(LastTime - VoteAt[w] < x)
    BY <2>2, <2>3 DEF Before
  <2> QED BY <2>4, <1>1, <1>4, VoteAssumption
<1> QED BY <1>5

\* Count keeps the newest vote of every slot and forgets none of the file.
LEMMA CountTallies ==
  ASSUME NEW o, NEW obj \in Stored, Tallied(o, obj),
         NEW V, V \subseteq Votes, \A v \in V : VoteFor[v] = o
  PROVE  /\ Count(obj, V) \in Stored /\ Tallied(o, Count(obj, V))
         /\ Count(obj, V).orphans = obj.orphans
<1>1. CASE V = {}
  BY <1>1 DEF Count
<1>2. CASE V # {}
  <2> DEFINE S == obj.counted \cup V
             new == Count(obj, V)
  <2>1. new = [obj EXCEPT !.counted = Newest(S), !.file = obj.file \cup V, !.fDirtyCache = TRUE]
    BY <1>2 DEF Count, Stored
  <2>2. obj.counted \subseteq Votes /\ obj.file \subseteq Votes
    BY DEF Stored
  <2>3. Newest(S) \subseteq S
    BY DEF Newest
  <2>4. /\ new.counted = Newest(S) /\ new.file = obj.file \cup V /\ new.orphans = obj.orphans
        /\ new \in Stored
    BY <2>1, <2>2, <2>3 DEF Stored
  <2>5. new.counted \subseteq new.file
    BY <2>3, <2>4 DEF Tallied
  <2>6. \A v \in new.file : v \in Votes /\ VoteFor[v] = o
    BY <2>2, <2>4 DEF Tallied
  <2>7. ASSUME NEW w \in new.file
        PROVE  \E u \in S : SameSlot(u, w) /\ VoteAt[w] <= VoteAt[u]
    <3>0. w \in Votes /\ VoteAt[w] \in Nat
      BY <2>6, VoteAssumption
    <3>1. CASE w \in V
      BY <3>0, <3>1 DEF SameSlot
    <3>2. CASE w \in obj.file
      <4>1. PICK u \in obj.counted : SameSlot(u, w)
        BY <3>2 DEF Tallied
      <4>2. VoteAt[w] <= VoteAt[u]
        BY <3>2, <4>1 DEF Tallied
      <4> QED BY <4>1, <4>2
    <3> QED BY <2>4, <3>1, <3>2
  <2>8. ASSUME NEW v \in new.counted, NEW w \in new.file, SameSlot(v, w)
        PROVE  VoteAt[w] <= VoteAt[v]
    <3>1. PICK u \in S : SameSlot(u, w) /\ VoteAt[w] <= VoteAt[u]
      BY <2>7
    <3>2. SameSlot(v, u)
      BY <2>8, <3>1 DEF SameSlot
    <3>3. ~(VoteAt[u] > VoteAt[v])
      BY <2>4, <3>1, <3>2 DEF Newest, Obsolete
    <3>4. VoteAt[u] \in Nat /\ VoteAt[v] \in Nat /\ VoteAt[w] \in Nat
      <4>1. u \in Votes /\ v \in Votes /\ w \in Votes
        BY <2>2, <2>3, <2>4, <2>6, <3>1
      <4> QED BY <4>1, VoteAssumption
    <3> QED BY <3>1, <3>3, <3>4
  <2>9. ASSUME NEW w \in new.file
        PROVE  \E v \in new.counted : SameSlot(v, w)
    <3>1. PICK u \in S : SameSlot(u, w)
      BY <2>7
    <3> DEFINE Slot == {x \in S : SameSlot(u, x)}
    <3>2. u \in Slot /\ Slot \subseteq Votes
      BY <2>2, <3>1 DEF SameSlot
    <3>3. PICK v \in Slot : \A x \in Slot : VoteAt[x] <= VoteAt[v]
      BY <3>2, Latest
    <3>4. ASSUME NEW x \in S, SameSlot(v, x) PROVE ~(VoteAt[x] > VoteAt[v])
      <4>1. x \in Slot
        BY <3>3, <3>4 DEF SameSlot
      <4>2. VoteAt[x] <= VoteAt[v] /\ VoteAt[x] \in Nat /\ VoteAt[v] \in Nat
        BY <3>2, <3>3, <4>1, VoteAssumption
      <4> QED BY <4>2
    <3>5. v \in Newest(S)
      BY <3>3, <3>4 DEF Newest, Obsolete
    <3>6. SameSlot(v, w)
      BY <3>1, <3>3 DEF SameSlot
    <3> QED BY <2>4, <3>5, <3>6
  <2> QED BY <2>4, <2>5, <2>6, <2>8, <2>9 DEF Tallied
<1> QED BY <1>1, <1>2

LEMMA FreshTallies ==
  ASSUME NEW o
  PROVE  Fresh \in Stored /\ Tallied(o, Fresh) /\ Waits(o, Fresh)
<1>1. 0 \in 0 .. DeletionDelay
  BY TimeAssumption
<1>2. Fresh = [counted |-> {}, file |-> {}, orphans |-> {}, fDirtyCache |-> TRUE,
               fCachedDelete |-> FALSE, fExpired |-> FALSE, age |-> 0]
  BY DEF Fresh
<1>3. Fresh \in Stored
  BY <1>1, <1>2 DEF Stored
<1> QED BY <1>2, <1>3 DEF Tallied, Waits

\* The other changes of an object: its flags, its age, the votes of removed safenodes.
LEMMA ClearTallies ==
  ASSUME NEW o, NEW obj \in Stored, Tallied(o, obj), Waits(o, obj)
  PROVE  /\ ClearSafenodeVotes(obj) \in Stored /\ Tallied(o, ClearSafenodeVotes(obj))
         /\ Waits(o, ClearSafenodeVotes(obj))
<1> DEFINE new == ClearSafenodeVotes(obj)
<1>1. /\ new \in Stored
      /\ new.counted = {v \in obj.counted : VoteBy[v] \in Listed}
      /\ new.file = {v \in obj.file : VoteBy[v] \in Listed}
      /\ new.orphans = obj.orphans
  BY DEF ClearSafenodeVotes, Stored
<1>2. ASSUME NEW w \in new.file PROVE \E v \in new.counted : SameSlot(v, w)
  <2>1. PICK v \in obj.counted : SameSlot(v, w)
    BY <1>1 DEF Tallied
  <2>2. VoteBy[v] = VoteBy[w]
    BY <2>1 DEF SameSlot
  <2> QED BY <1>1, <2>1, <2>2
<1> QED BY <1>1, <1>2 DEF Tallied, Waits

LEMMA SameVotesTally ==
  ASSUME NEW o, NEW obj, NEW new, Tallied(o, obj), Waits(o, obj),
         new.counted = obj.counted, new.file = obj.file, new.orphans = obj.orphans
  PROVE  Tallied(o, new) /\ Waits(o, new)
BY DEF Tallied, Waits

LEMMA FlagsTally ==
  ASSUME NEW o, NEW obj \in Stored, Tallied(o, obj), Waits(o, obj), NEW n
  PROVE  /\ Expire(obj) \in Stored /\ Tallied(o, Expire(obj)) /\ Waits(o, Expire(obj))
         /\ UpdateSentinelVariables(obj, n) \in Stored
         /\ Tallied(o, UpdateSentinelVariables(obj, n))
         /\ Waits(o, UpdateSentinelVariables(obj, n))
<1>0. 0 \in 0 .. DeletionDelay
  BY TimeAssumption
<1>1. /\ Expire(obj) \in Stored /\ Expire(obj).counted = obj.counted
      /\ Expire(obj).file = obj.file /\ Expire(obj).orphans = obj.orphans
  BY <1>0 DEF Expire, Stored
<1>2. CASE n = 0
  BY <1>1, <1>2, SameVotesTally DEF UpdateSentinelVariables
<1>3. CASE n # 0
  <2> DEFINE delete == ~obj.fCachedDelete /\ Tally(obj.counted, "delete") >= DeleteQuorum(n)
             new == UpdateSentinelVariables(obj, n)
  <2>1. new = [obj EXCEPT !.fDirtyCache = FALSE, !.fCachedDelete = obj.fCachedDelete \/ delete,
                          !.age = IF delete /\ ~obj.fExpired THEN 0 ELSE obj.age]
    BY <1>3 DEF UpdateSentinelVariables, Stored
  <2>2. (obj.fCachedDelete \/ delete) \in BOOLEAN
    OBVIOUS
  <2>3. (IF delete /\ ~obj.fExpired THEN 0 ELSE obj.age) \in 0 .. DeletionDelay
    BY <1>0 DEF Stored
  <2> HIDE DEF delete
  <2>4. new \in Stored /\ new.counted = obj.counted /\ new.file = obj.file
        /\ new.orphans = obj.orphans
    BY <2>1, <2>2, <2>3 DEF Stored
  <2> QED BY <1>1, <2>4, SameVotesTally
<1> QED BY <1>1, <1>2, <1>3, SameVotesTally

LEMMA CleanedTallies ==
  ASSUME NEW t, NEW expiring, NEW o, NEW n, object[o] \in Stored,
         Tallied(o, object[o]), Waits(o, object[o])
  PROVE  /\ Cleaned(t, o, expiring, n) \in Stored /\ Tallied(o, Cleaned(t, o, expiring, n))
         /\ Waits(o, Cleaned(t, o, expiring, n))
<1> DEFINE cleared == IF o \in local[t].dirty THEN ClearSafenodeVotes(object[o]) ELSE object[o]
           dated == IF o \in expiring THEN Expire(cleared) ELSE cleared
<1>1. cleared \in Stored /\ Tallied(o, cleared) /\ Waits(o, cleared)
  BY ClearTallies
<1> HIDE DEF cleared
<1>2. dated \in Stored /\ Tallied(o, dated) /\ Waits(o, dated)
  BY <1>1, FlagsTally
<1> HIDE DEF dated
<1>3. Cleaned(t, o, expiring, n) \in {UpdateSentinelVariables(dated, n), dated}
  BY DEF Cleaned, cleared, dated
<1> QED BY <1>2, <1>3, FlagsTally

----------------------------------------------------------------------------
(* Stored votes and the vote at hand.                                        *)

Hands == HandsOK /\ VotePointersLive

\* A step that stores nothing, takes nothing out and leaves the vote at hand alone.
LEMMA HandsKept ==
  ASSUME Hands, mapObjects \subseteq mapObjects', UNCHANGED <<pc, local, mapVoteToObject>>
  PROVE  Hands'
BY DEF Hands, HandsOK, VotePointersLive, Unlocked

\* A step of a thread that holds no vote and goes to a place where it holds none.
LEMMA HandsMove ==
  ASSUME Hands, NEW t \in Threads, NEW p, p \notin {"adding", "storing"}, Goes(t, p),
         t = "net" => Unlocked, mapObjects \subseteq mapObjects',
         UNCHANGED <<local, mapVoteToObject>>
  PROVE  Hands'
<1>1. pc' = [pc EXCEPT ![t] = p] /\ "net" \in Threads /\ DOMAIN pc = Threads
  BY DEF Goes, Threads, Hands, HandsOK
<1>2. Unlocked' => Unlocked
  BY <1>1 DEF Unlocked, Threads
<1> QED BY <1>1, <1>2 DEF Hands, HandsOK, VotePointersLive

\* The same when the thread sets its locals, and holds no vote in them.
LEMMA HandsSet ==
  ASSUME Hands, NEW t \in Threads, NEW p, p \notin {"adding", "storing"}, Goes(t, p),
         t = "net" => Unlocked, mapObjects \subseteq mapObjects', UNCHANGED mapVoteToObject,
         NEW l, local' = [local EXCEPT ![t] = l], l.then \in {"idle", "clearing"}, l.votes = {}
  PROVE  Hands'
<1>1. pc' = [pc EXCEPT ![t] = p] /\ "net" \in Threads /\ DOMAIN pc = Threads
  BY DEF Goes, Threads, Hands, HandsOK
<1>2. Unlocked' => Unlocked
  BY <1>1 DEF Unlocked, Threads
<1>3. DOMAIN local = Threads /\ local'["net"].votes \subseteq local["net"].votes
  BY <1>1 DEF Hands, HandsOK
<1>4. \A s \in Threads : local'[s].then \in {"idle", "clearing"}
  BY <1>3 DEF Hands, HandsOK
<1>5. DOMAIN local' = Threads /\ DOMAIN pc' = Threads
  BY <1>1, <1>3
<1> QED BY <1>2, <1>3, <1>4, <1>5 DEF Hands, HandsOK, VotePointersLive

LEMMA LocalFields ==
  /\ NoLocal.then = "idle" /\ NoLocal.votes = {}
  /\ \A b : LET l == [NoLocal EXCEPT !.removed = b, !.then = "clearing"]
            IN  l.then = "clearing" /\ l.votes = {}
  /\ \A d, p : LET l == [NoLocal EXCEPT !.dirty = d, !.then = p] IN l.then = p /\ l.votes = {}
  /\ \A V : LET l == [NoLocal EXCEPT !.votes = V] IN l.then = "idle" /\ l.votes = V
BY DEF NoLocal

LEMMA HandsHold == Hands /\ [Next]_vars => Hands'
<1> SUFFICES ASSUME Hands, [Next]_vars PROVE Hands'
  OBVIOUS
<1>0. /\ "net" \in Threads /\ "pool" \in Threads /\ DOMAIN pc = Threads /\ DOMAIN local = Threads
  BY DEF Threads, Hands, HandsOK
<1>1. ASSUME NEW o \in Objects, ObjectMessage(o) PROVE Hands'
  <2>1. mapObjects \subseteq mapObjects' /\ UNCHANGED <<pc, local, mapVoteToObject>>
    BY <1>1 DEF ObjectMessage, RefuseObject, AcceptObject, voteVars
  <2> QED BY <2>1, HandsKept
<1>2. ASSUME NEW v \in Votes, VoteMessage(v) PROVE Hands'
  <2>1. CASE RefuseVote(v)
    <3>1. mapObjects' = mapObjects /\ UNCHANGED <<pc, local, mapVoteToObject>>
      BY <2>1 DEF RefuseVote
    <3> QED BY <3>1, HandsKept
  <2>2. CASE CheckVote(v)
    <3>1. /\ pc' = [pc EXCEPT !["net"] = "adding"] /\ VoteFor[v] \in mapObjects
          /\ local' = [local EXCEPT !["net"] = [NoLocal EXCEPT !.votes = {v}]]
          /\ UNCHANGED <<mapObjects, mapVoteToObject>>
      BY <2>2 DEF CheckVote, Goes, objectVars, voteVars
    <3>2. local'["net"].votes = {v} /\ local'["net"].then = "idle"
      BY <3>1, <1>0, LocalFields
    <3>3. \A t \in Threads : local'[t].then \in {"idle", "clearing"}
      BY <3>1, <3>2, <1>0 DEF Hands, HandsOK
    <3>4. ~Unlocked'
      BY <3>1, <1>0 DEF Unlocked
    <3> QED BY <3>1, <3>2, <3>3, <3>4, <1>0 DEF Hands, HandsOK, VotePointersLive
  <2> QED BY <1>2, <2>1, <2>2 DEF VoteMessage
<1>3. CASE AddVote
  <2>1. UNCHANGED <<mapObjects, mapVoteToObject>> /\ pc["net"] = "adding"
    BY <1>3 DEF AddVote, objectVars, voteVars
  <2>2. \/ local' = local /\ pc' = [pc EXCEPT !["net"] = "storing"]
        \/ local' = [local EXCEPT !["net"] = NoLocal] /\ pc' = [pc EXCEPT !["net"] = "idle"]
    BY <1>3 DEF AddVote, Goes
  <2>3. CASE local' = local /\ pc' = [pc EXCEPT !["net"] = "storing"]
    BY <2>1, <2>3, <1>0 DEF Hands, HandsOK, VotePointersLive, Unlocked
  <2>4. CASE local' = [local EXCEPT !["net"] = NoLocal] /\ pc' = [pc EXCEPT !["net"] = "idle"]
    <3>1. local'["net"].votes = {} /\ \A t \in Threads : local'[t].then \in {"idle", "clearing"}
      BY <2>4, <1>0, LocalFields DEF Hands, HandsOK
    <3> QED BY <2>1, <2>4, <3>1, <1>0 DEF Hands, HandsOK, VotePointersLive
  <2> QED BY <2>2, <2>3, <2>4
<1>4. CASE StoreVote
  <2>1. /\ mapObjects' = mapObjects /\ pc' = [pc EXCEPT !["net"] = "idle"]
        /\ local' = [local EXCEPT !["net"] = NoLocal]
        /\ \E v \in local["net"].votes : mapVoteToObject' = mapVoteToObject \cup {v}
    BY <1>4 DEF StoreVote, Goes
  <2>2. local'["net"].votes = {} /\ \A t \in Threads : local'[t].then \in {"idle", "clearing"}
    BY <2>1, <1>0, LocalFields DEF Hands, HandsOK
  <2>3. VotePointersLive'
    BY <2>1 DEF Hands, HandsOK, VotePointersLive
  <2> QED BY <2>1, <2>2, <2>3, <1>0 DEF Hands, HandsOK
<1>5. ASSUME NEW m \in Safenodes, Announce(m) PROVE Hands'
  <2>1. /\ Unlocked /\ Goes("net", "added") /\ UNCHANGED <<mapObjects, local, mapVoteToObject>>
    BY <1>5 DEF Announce, Free, Unlocked, objectVars, voteVars
  <2> QED BY <2>1, <1>0, HandsMove
<1>6. ASSUME NEW gone, CheckAndRemove(gone) PROVE Hands'
  <2>1. Goes("pool", "removed") /\ UNCHANGED <<mapObjects, local, mapVoteToObject>>
    BY <1>6 DEF CheckAndRemove, objectVars, voteVars
  <2> QED BY <2>1, <1>0, HandsMove
<1>7. ASSUME NEW t \in Threads, Notify(t) PROVE Hands'
  <2>0. t = "net" => Unlocked
    BY <1>7 DEF Notify, Look, CopyFlags, CheckSafenodeOrphanObjects, CheckSafenodeOrphanVotes,
       TakeDirty, UpdateCachesAndClean, ClearFlags, Unlocked
  <2>1. CASE Look(t)
    <3>1. /\ \E p \in {"notify", "idle"} : Goes(t, p)
          /\ UNCHANGED <<mapObjects, local, mapVoteToObject>>
      BY <2>1 DEF Look, objectVars, voteVars
    <3> QED BY <3>1, <2>0, HandsMove
  <2>2. CASE CopyFlags(t)
    <3>1. /\ \E p \in {"objects", "taking", "clearing"} : Goes(t, p)
          /\ UNCHANGED <<mapObjects, mapVoteToObject>>
          /\ local' = [local EXCEPT ![t] = [NoLocal EXCEPT !.removed = fSafenodesRemoved,
                                                           !.then = "clearing"]]
      BY <2>2 DEF CopyFlags, objectVars, voteVars
    <3> DEFINE l == [NoLocal EXCEPT !.removed = fSafenodesRemoved, !.then = "clearing"]
    <3>2. l.then \in {"idle", "clearing"} /\ l.votes = {}
      BY LocalFields
    <3> HIDE DEF l
    <3>3. local' = [local EXCEPT ![t] = l]
      BY <3>1 DEF l
    <3> QED BY <3>1, <3>2, <3>3, <2>0, HandsSet
  <2>3. CASE CheckSafenodeOrphanObjects(t)
    <3>1. /\ Goes(t, "votes") /\ mapObjects \subseteq mapObjects'
          /\ UNCHANGED <<local, mapVoteToObject>>
      BY <2>3 DEF CheckSafenodeOrphanObjects, voteVars
    <3> QED BY <3>1, <2>0, HandsMove
  <2>4. CASE CheckSafenodeOrphanVotes(t)
    <3>1. /\ \E p \in {"taking", "clearing"} : Goes(t, p)
          /\ UNCHANGED <<mapObjects, local, mapVoteToObject>>
      BY <2>4 DEF CheckSafenodeOrphanVotes
    <3> QED BY <3>1, <2>0, HandsMove
  <2>5. CASE TakeDirty(t)
    <3> DEFINE l == [NoLocal EXCEPT !.dirty = dirtyHashes, !.then = local[t].then]
    <3>1. /\ Goes(t, "cleaning") /\ UNCHANGED <<mapObjects, mapVoteToObject>>
          /\ local' = [local EXCEPT ![t] = l]
      BY <2>5 DEF TakeDirty, objectVars, voteVars
    <3>2. l.then \in {"idle", "clearing"} /\ l.votes = {}
      BY LocalFields DEF Hands, HandsOK
    <3> HIDE DEF l
    <3> QED BY <3>1, <3>2, <2>0, HandsSet
  <2>6. CASE UpdateCachesAndClean(t)
    <3>1. PICK gone : /\ mapObjects' = mapObjects \ gone
                      /\ mapVoteToObject' = PointersLeft(gone)
      BY <2>6 DEF UpdateCachesAndClean
    <3>2. /\ pc' = [pc EXCEPT ![t] = local[t].then] /\ Unlocked
          /\ local' = [local EXCEPT ![t] = NoLocal]
      BY <2>6 DEF UpdateCachesAndClean, Goes
    <3>3. local["net"].votes = {}
      BY <3>2 DEF Hands, HandsOK
    <3>4. local'["net"].votes = {} /\ \A s \in Threads : local'[s].then \in {"idle", "clearing"}
      BY <3>2, <3>3, <1>0, LocalFields DEF Hands, HandsOK
    <3>5. VotePointersLive'
      BY <3>1 DEF Hands, VotePointersLive, PointersLeft
    <3> QED BY <3>2, <3>4, <3>5, <1>0 DEF Hands, HandsOK
  <2>7. CASE ClearFlags(t)
    <3>1. /\ Goes(t, "idle") /\ UNCHANGED <<mapObjects, mapVoteToObject>>
          /\ local' = [local EXCEPT ![t] = NoLocal]
      BY <2>7 DEF ClearFlags, objectVars, voteVars
    <3> QED BY <3>1, <2>0, LocalFields, HandsSet
  <2> QED BY <1>7, <2>1, <2>2, <2>3, <2>4, <2>5, <2>6, <2>7 DEF Notify
<1>8. CASE DoMaintenance
  <2>1. Goes("pool", "taking") /\ UNCHANGED <<mapObjects, local, mapVoteToObject>>
    BY <1>8 DEF DoMaintenance, objectVars
  <2> QED BY <2>1, <1>0, HandsMove
<1>9. CASE Tick
  <2>1. UNCHANGED <<mapObjects, pc, local, mapVoteToObject>>
    BY <1>9 DEF Tick
  <2> QED BY <2>1, HandsKept
<1>10. CASE UNCHANGED vars
  <2>1. UNCHANGED <<mapObjects, pc, local, mapVoteToObject>>
    BY <1>10 DEF vars, objectVars, voteVars
  <2> QED BY <2>1, HandsKept
<1> QED BY <1>1, <1>2, <1>3, <1>4, <1>5, <1>6, <1>7, <1>8, <1>9, <1>10 DEF Next

----------------------------------------------------------------------------
(* Stored, waiting and erased objects.                                       *)

Apart == SeenOnce /\ mapObjects \cap erased = {}

LEMMA ApartKept ==
  ASSUME Apart, UNCHANGED <<mapObjects, erased, seenObjects, orphanObjects>>
  PROVE  Apart'
BY DEF Apart, SeenOnce

LEMMA ApartHolds == Apart /\ [Next]_vars => Apart'
<1> SUFFICES ASSUME Apart, [Next]_vars PROVE Apart'
  OBVIOUS
<1>1. ASSUME NEW o \in Objects, ObjectMessage(o) PROVE Apart'
  <2>1. o \notin seenObjects /\ seenObjects' = seenObjects \cup {o} /\ erased' = erased
    BY <1>1 DEF ObjectMessage, RefuseObject, AcceptObject, NotSeen
  <2>2. o \notin mapObjects /\ o \notin erased
    BY <2>1 DEF Apart, SeenOnce
  <2>3. CASE RefuseObject(o)
    <3>1. /\ mapObjects' = mapObjects
          /\ \/ orphanObjects' = orphanObjects
             \/ orphanObjects' = [orphanObjects EXCEPT ![o] = OrphanTime]
      BY <2>3 DEF RefuseObject
    <3>2. OrphanTime \in Absent .. OrphanTime
      BY TimeAssumption DEF Absent
    <3>3. orphanObjects' \in [Objects -> Absent .. OrphanTime]
      BY <3>1, <3>2 DEF Apart, SeenOnce
    <3>4. \A q \in Objects : orphanObjects'[q] # Absent => q = o \/ orphanObjects[q] # Absent
      BY <3>1 DEF Apart, SeenOnce
    <3> QED BY <2>1, <2>2, <3>1, <3>3, <3>4 DEF Apart, SeenOnce
  <2>4. CASE AcceptObject(o)
    <3>1. mapObjects' = mapObjects \cup {o} /\ orphanObjects' = orphanObjects
      BY <2>4 DEF AcceptObject
    <3> QED BY <2>1, <2>2, <3>1 DEF Apart, SeenOnce
  <2> QED BY <1>1, <2>3, <2>4 DEF ObjectMessage
<1>2. ASSUME NEW v \in Votes, VoteMessage(v) PROVE Apart'
  <2>1. UNCHANGED <<mapObjects, erased, seenObjects, orphanObjects>>
    BY <1>2 DEF VoteMessage, RefuseVote, CheckVote, objectVars
  <2> QED BY <2>1, ApartKept
<1>3. CASE AddVote \/ StoreVote
  <2>1. UNCHANGED <<mapObjects, erased, seenObjects, orphanObjects>>
    BY <1>3 DEF AddVote, StoreVote, objectVars
  <2> QED BY <2>1, ApartKept
<1>4. ASSUME NEW m \in Safenodes, Announce(m) PROVE Apart'
  <2>1. UNCHANGED <<mapObjects, erased, seenObjects, orphanObjects>>
    BY <1>4 DEF Announce, objectVars
  <2> QED BY <2>1, ApartKept
<1>5. ASSUME NEW gone, CheckAndRemove(gone) PROVE Apart'
  <2>1. UNCHANGED <<mapObjects, erased, seenObjects, orphanObjects>>
    BY <1>5 DEF CheckAndRemove, objectVars
  <2> QED BY <2>1, ApartKept
<1>6. ASSUME NEW t \in Threads, Notify(t) PROVE Apart'
  <2>1. CASE CheckSafenodeOrphanObjects(t)
    <3> DEFINE alive == {o \in Objects : orphanObjects[o] \notin {Absent, Expired}}
               ready == {o \in alive : Owner[o] \in Listed}
    <3>1. PICK good \in SUBSET ready : mapObjects' = mapObjects \cup good
      BY <2>1 DEF CheckSafenodeOrphanObjects
    <3>2. orphanObjects' = [o \in Objects |->
             IF o \in alive \ ready THEN orphanObjects[o] ELSE Absent]
      BY <2>1 DEF CheckSafenodeOrphanObjects
    <3>3. seenObjects' = seenObjects /\ erased' = erased
      BY <2>1 DEF CheckSafenodeOrphanObjects
    <3>4. \A o \in good : o \in Objects /\ orphanObjects[o] # Absent /\ orphanObjects'[o] = Absent
      BY <3>1, <3>2
    <3>5. \A o \in Objects : orphanObjects'[o] \in {orphanObjects[o], Absent}
      BY <3>2
    <3>6. Absent \in Absent .. OrphanTime
      BY TimeAssumption DEF Absent
    <3>7. orphanObjects' \in [Objects -> Absent .. OrphanTime]
      BY <3>2, <3>6 DEF Apart, SeenOnce
    <3> HIDE DEF alive, ready
    <3> QED BY <3>1, <3>3, <3>4, <3>5, <3>7 DEF Apart, SeenOnce
  <2>2. CASE UpdateCachesAndClean(t)
    <3>1. PICK gone \in SUBSET mapObjects :
             mapObjects' = mapObjects \ gone /\ erased' = erased \cup gone
      BY <2>2 DEF UpdateCachesAndClean
    <3>2. UNCHANGED <<seenObjects, orphanObjects>>
      BY <2>2 DEF UpdateCachesAndClean
    <3> QED BY <3>1, <3>2 DEF Apart, SeenOnce
  <2>3. CASE Look(t) \/ CopyFlags(t) \/ CheckSafenodeOrphanVotes(t) \/ TakeDirty(t) \/ ClearFlags(t)
    <3>1. UNCHANGED <<mapObjects, erased, seenObjects, orphanObjects>>
      BY <2>3 DEF Look, CopyFlags, CheckSafenodeOrphanVotes, TakeDirty, ClearFlags, objectVars
    <3> QED BY <3>1, ApartKept
  <2> QED BY <1>6, <2>1, <2>2, <2>3 DEF Notify
<1>7. CASE DoMaintenance
  <2>1. UNCHANGED <<mapObjects, erased, seenObjects, orphanObjects>>
    BY <1>7 DEF DoMaintenance, objectVars
  <2> QED BY <2>1, ApartKept
<1>8. CASE Tick
  <2>1. UNCHANGED <<mapObjects, erased, seenObjects>>
        /\ orphanObjects' = [o \in Objects |->
             IF orphanObjects[o] \in {Absent, Expired} THEN orphanObjects[o]
             ELSE orphanObjects[o] - 1]
    BY <1>8 DEF Tick
  <2>2. \A o \in Objects : /\ orphanObjects'[o] \in Absent .. OrphanTime
                           /\ orphanObjects'[o] # Absent => orphanObjects[o] # Absent
    BY <2>1, TimeAssumption DEF Apart, SeenOnce, Absent, Expired
  <2>3. orphanObjects' \in [Objects -> Absent .. OrphanTime]
    BY <2>1, <2>2
  <2> QED BY <2>1, <2>2, <2>3 DEF Apart, SeenOnce
<1>9. CASE UNCHANGED vars
  BY <1>9, ApartKept DEF vars, objectVars
<1> QED BY <1>1, <1>2, <1>3, <1>4, <1>5, <1>6, <1>7, <1>8, <1>9 DEF Next

----------------------------------------------------------------------------
(* What an object counts.                                                    *)

LEMMA TalliedKept ==
  ASSUME AllTallied, UNCHANGED <<mapObjects, object>>
  PROVE  AllTallied'
BY DEF AllTallied

LEMMA AgedVotes ==
  ASSUME NEW S, S \subseteq Entries
  PROVE  /\ Aged(S) \subseteq Entries
         /\ \A e \in Aged(S) : \E f \in S : e.vote = f.vote
<1> SUFFICES ASSUME NEW f \in S
             PROVE  LET e == [f EXCEPT !.left = IF @ = Expired THEN Expired ELSE @ - 1]
                    IN  e \in Entries /\ e.vote = f.vote
  BY DEF Aged
<1>1. f.left \in Expired .. OrphanTime
  BY DEF Entries
<1>2. (IF f.left = Expired THEN Expired ELSE f.left - 1) \in Expired .. OrphanTime
  BY <1>1, TimeAssumption DEF Expired
<1> QED BY <1>2 DEF Entries

LEMMA InsertVotes ==
  ASSUME NEW S, S \subseteq Entries, NEW v \in Votes
  PROVE  /\ Insert(S, v, VoteBy) \subseteq Entries
         /\ \A e \in Insert(S, v, VoteBy) : e \in S \/ e.vote = v
<1>1. OrphanTime \in Expired .. OrphanTime
  BY TimeAssumption DEF Expired
<1>2. [vote |-> v, left |-> OrphanTime] \in Entries
  BY <1>1 DEF Entries
<1> QED BY <1>2 DEF Insert

\* What is counted of the votes that wait in an object, and what stays.
LEMMA OrphansOf ==
  ASSUME NEW o, NEW skip, NEW renewed,
         object[o] \in Stored, Tallied(o, object[o]), Waits(o, object[o])
  PROVE  LET kept == [object[o] EXCEPT !.orphans = Kept(o, skip, renewed)]
             ok == {e.vote : e \in Countable(o, skip)}
         IN  /\ ok \subseteq Votes /\ \A v \in ok : VoteFor[v] = o
             /\ kept \in Stored /\ Tallied(o, kept) /\ Waits(o, kept)
<1> DEFINE kept == [object[o] EXCEPT !.orphans = Kept(o, skip, renewed)]
           Again == {[e EXCEPT !.left = OrphanTime] : e \in renewed \cap Unknown(o)}
<1>1. Countable(o, skip) \subseteq object[o].orphans /\ Unknown(o) \subseteq object[o].orphans
  BY DEF Countable, Due, Unknown, Late
<1>2. object[o].orphans \subseteq Entries
  BY DEF Stored
<1>3. OrphanTime \in Expired .. OrphanTime
  BY TimeAssumption DEF Expired
<1>4. \A e \in Again : e \in Entries /\ \E f \in object[o].orphans : e.vote = f.vote
  <2> SUFFICES ASSUME NEW f \in renewed \cap Unknown(o)
               PROVE  [f EXCEPT !.left = OrphanTime] \in Entries
                      /\ [f EXCEPT !.left = OrphanTime].vote = f.vote
    BY <1>1
  <2>1. f \in Entries
    BY <1>1, <1>2
  <2> QED BY <2>1, <1>3 DEF Entries
<1> HIDE DEF Again
<1>5. \A e \in Kept(o, skip, renewed) : e \in object[o].orphans \/ e \in Again
  BY DEF Kept, Again
<1>6. Kept(o, skip, renewed) \subseteq Entries
  BY <1>2, <1>4, <1>5
<1>7. \A e \in Kept(o, skip, renewed) : e.vote \in Votes /\ VoteFor[e.vote] = o
  BY <1>4, <1>5 DEF Waits
<1>8. /\ kept \in Stored /\ kept.counted = object[o].counted /\ kept.file = object[o].file
      /\ kept.orphans = Kept(o, skip, renewed)
  BY <1>6 DEF Stored
<1>9. Tallied(o, kept) /\ Waits(o, kept)
  BY <1>7, <1>8 DEF Tallied, Waits
<1>10. \A v \in {e.vote : e \in Countable(o, skip)} : v \in Votes /\ VoteFor[v] = o
  BY <1>1 DEF Waits
<1> QED BY <1>8, <1>9, <1>10

LEMMA AllTalliedHolds ==
  ASSUME Hands, Apart, AllTallied, [Next]_vars
  PROVE  AllTallied'
<1>0. /\ object \in [Objects -> Stored] /\ mapObjects \subseteq Objects
      /\ \A o \in mapObjects : Tallied(o, object[o]) /\ Waits(o, object[o])
  BY DEF AllTallied, Apart, SeenOnce
<1>1. ASSUME NEW o \in Objects, ObjectMessage(o) PROVE AllTallied'
  <2>1. CASE RefuseObject(o)
    BY <2>1, TalliedKept DEF RefuseObject
  <2>2. CASE AcceptObject(o)
    <3>1. PICK n : object' = [object EXCEPT ![o] = UpdateSentinelVariables(Fresh, n)]
      BY <2>2 DEF AcceptObject
    <3> DEFINE new == UpdateSentinelVariables(Fresh, n)
    <3>2. mapObjects' = mapObjects \cup {o}
      BY <2>2 DEF AcceptObject
    <3>3. new \in Stored /\ Tallied(o, new) /\ Waits(o, new)
      BY FreshTallies, FlagsTally
    <3>4. object' = [object EXCEPT ![o] = new]
      BY <3>1
    <3> HIDE DEF new
    <3> QED BY <1>0, <3>2, <3>3, <3>4 DEF AllTallied
  <2> QED BY <1>1, <2>1, <2>2 DEF ObjectMessage
<1>2. ASSUME NEW v \in Votes, VoteMessage(v) PROVE AllTallied'
  <2>1. CASE RefuseVote(v)
    <3>1. mapObjects' = mapObjects
      BY <2>1 DEF RefuseVote
    <3>2. \/ object' = object
          \/ object' = [object EXCEPT ![VoteFor[v]].orphans = Insert(@, v, VoteBy)]
      BY <2>1 DEF RefuseVote
    <3>3. CASE object' = object
      BY <3>1, <3>3, TalliedKept
    <3>4. CASE object' = [object EXCEPT ![VoteFor[v]].orphans = Insert(@, v, VoteBy)]
      <4> DEFINE o == VoteFor[v]
                 S == Insert(object[o].orphans, v, VoteBy)
                 new == [object[o] EXCEPT !.orphans = S]
      <4>1. o \in Objects /\ object[o] \in Stored
        BY <1>0, VoteAssumption
      <4>2. S \subseteq Entries /\ \A e \in S : e \in object[o].orphans \/ e.vote = v
        <5>1. object[o].orphans \subseteq Entries
          BY <4>1 DEF Stored
        <5> QED BY <5>1, InsertVotes
      <4> HIDE DEF S
      <4>3. /\ new \in Stored /\ new.counted = object[o].counted /\ new.file = object[o].file
            /\ new.orphans = S
        BY <4>1, <4>2 DEF Stored
      <4>4. o \in mapObjects => Tallied(o, new) /\ Waits(o, new)
        BY <1>0, <4>2, <4>3 DEF Tallied, Waits
      <4>5. object' = [object EXCEPT ![o] = new]
        BY <3>4 DEF S
      <4> HIDE DEF new, o
      <4> QED BY <1>0, <3>1, <4>1, <4>3, <4>4, <4>5 DEF AllTallied
    <3> QED BY <3>2, <3>3, <3>4
  <2>2. CASE CheckVote(v)
    BY <2>2, TalliedKept DEF CheckVote, objectVars
  <2> QED BY <1>2, <2>1, <2>2 DEF VoteMessage
<1>3. CASE AddVote
  BY <1>3, TalliedKept DEF AddVote, objectVars
<1>4. CASE StoreVote
  <2>1. PICK v \in local["net"].votes : object' = [object EXCEPT ![VoteFor[v]] = Count(@, {v})]
    BY <1>4 DEF StoreVote
  <2> DEFINE o == VoteFor[v]
             new == Count(object[o], {v})
  <2>2. mapObjects' = mapObjects /\ v \in Votes /\ o \in mapObjects
    BY <1>4 DEF StoreVote, Hands, HandsOK
  <2>3. new \in Stored /\ Tallied(o, new) /\ new.orphans = object[o].orphans
    BY <1>0, <2>2, CountTallies
  <2>4. Waits(o, new)
    BY <1>0, <2>2, <2>3 DEF Waits
  <2>5. object' = [object EXCEPT ![o] = new]
    BY <2>1
  <2> HIDE DEF new, o
  <2> QED BY <1>0, <2>2, <2>3, <2>4, <2>5 DEF AllTallied
<1>5. ASSUME NEW m \in Safenodes, Announce(m) PROVE AllTallied'
  BY <1>5, TalliedKept DEF Announce, objectVars
<1>6. ASSUME NEW gone, CheckAndRemove(gone) PROVE AllTallied'
  <2>1. UNCHANGED <<mapObjects, object>>
    BY <1>6 DEF CheckAndRemove, objectVars
  <2> QED BY <2>1, TalliedKept
<1>7. ASSUME NEW t \in Threads, Notify(t) PROVE AllTallied'
  <2>1. CASE CheckSafenodeOrphanObjects(t)
    <3>1. PICK good :
             /\ good \subseteq Objects /\ mapObjects' = mapObjects \cup good
             /\ object' = [o \in Objects |->
                    IF o \in good \ mapObjects THEN Fresh ELSE object[o]]
      BY <2>1 DEF CheckSafenodeOrphanObjects
    <3>2. \A o \in Objects : object'[o] = Fresh \/ object'[o] = object[o]
      BY <3>1
    <3>3. \A o \in mapObjects' :
             o \in Objects /\ (object'[o] = Fresh \/ (o \in mapObjects /\ object'[o] = object[o]))
      BY <3>1, <1>0
    <3>4. Fresh \in Stored /\ \A o : Tallied(o, Fresh) /\ Waits(o, Fresh)
      BY FreshTallies
    <3>5. object' \in [Objects -> Stored]
      BY <3>1, <3>4, <1>0
    <3>6. \A o \in mapObjects' : Tallied(o, object'[o]) /\ Waits(o, object'[o])
      BY <3>3, <3>4, <1>0
    <3> QED BY <3>5, <3>6 DEF AllTallied
  <2>2. CASE CheckSafenodeOrphanVotes(t)
    <3>1. PICK skip, renewed :
             object' = [o \in Objects |->
                IF o \in mapObjects
                THEN Count([object[o] EXCEPT !.orphans = Kept(o, skip, renewed)],
                           {e.vote : e \in Countable(o, skip)})
                ELSE object[o]]
      BY <2>2 DEF CheckSafenodeOrphanVotes
    <3>2. mapObjects' = mapObjects
      BY <2>2 DEF CheckSafenodeOrphanVotes
    <3>3. ASSUME NEW o \in mapObjects
          PROVE  object'[o] \in Stored /\ Tallied(o, object'[o]) /\ Waits(o, object'[o])
      <4> DEFINE kept == [object[o] EXCEPT !.orphans = Kept(o, skip, renewed)]
                 ok == {e.vote : e \in Countable(o, skip)}
      <4>1. object[o] \in Stored /\ Tallied(o, object[o]) /\ Waits(o, object[o])
        BY <1>0
      <4>2. /\ ok \subseteq Votes /\ \A v \in ok : VoteFor[v] = o
            /\ kept \in Stored /\ Tallied(o, kept) /\ Waits(o, kept)
        BY <4>1, OrphansOf
      <4>3. object'[o] = Count(kept, ok)
        BY <3>1, <1>0
      <4> HIDE DEF kept, ok
      <4>4. Count(kept, ok) \in Stored /\ Tallied(o, Count(kept, ok))
            /\ Count(kept, ok).orphans = kept.orphans
        BY <4>2, CountTallies
      <4> QED BY <4>2, <4>3, <4>4 DEF Waits
    <3>4. object' \in [Objects -> Stored]
      <4>1. \A o \in Objects : object'[o] \in Stored
        <5> TAKE o \in Objects
        <5>1. CASE o \in mapObjects
          BY <5>1, <3>3
        <5>2. CASE o \notin mapObjects
          <6>1. object'[o] = object[o]
            BY <3>1, <5>2
          <6> QED BY <6>1, <1>0
        <5> QED BY <5>1, <5>2
      <4>2. object' = [o \in Objects |-> object'[o]]
        BY <3>1
      <4> QED BY <4>1, <4>2
    <3> QED BY <3>2, <3>3, <3>4 DEF AllTallied
  <2>3. CASE UpdateCachesAndClean(t)
    <3>1. PICK expiring, gone, n :
             /\ mapObjects' = mapObjects \ gone
             /\ object' = [o \in Objects |-> IF o \in gone \/ o \notin mapObjects THEN Fresh
                                             ELSE Cleaned(t, o, expiring, n[o])]
      BY <2>3 DEF UpdateCachesAndClean
    <3>2. Fresh \in Stored
      BY FreshTallies
    <3>3. ASSUME NEW o \in mapObjects
          PROVE  LET new == Cleaned(t, o, expiring, n[o])
                 IN  new \in Stored /\ Tallied(o, new) /\ Waits(o, new)
      BY <1>0, CleanedTallies
    <3>4. \A o \in Objects : \/ object'[o] = Fresh
                             \/ o \in mapObjects /\ object'[o] = Cleaned(t, o, expiring, n[o])
      BY <3>1
    <3>5. \A o \in mapObjects' : o \in mapObjects /\ object'[o] = Cleaned(t, o, expiring, n[o])
      BY <3>1, <1>0
    <3>6. object' = [o \in Objects |-> object'[o]]
      BY <3>1
    <3>7. object' \in [Objects -> Stored]
      BY <3>2, <3>3, <3>4, <3>6
    <3> QED BY <3>3, <3>5, <3>7 DEF AllTallied
  <2>4. CASE Look(t) \/ CopyFlags(t) \/ TakeDirty(t) \/ ClearFlags(t)
    <3>1. UNCHANGED <<mapObjects, object>>
      BY <2>4 DEF Look, CopyFlags, TakeDirty, ClearFlags, objectVars
    <3> QED BY <3>1, TalliedKept
  <2> QED BY <1>7, <2>1, <2>2, <2>3, <2>4 DEF Notify
<1>8. CASE DoMaintenance
  BY <1>8, TalliedKept DEF DoMaintenance, objectVars
<1>9. CASE Tick
  <2> DEFINE Older(o) ==
          [object[o] EXCEPT !.orphans = Aged(@),
             !.age = IF (object[o].fCachedDelete \/ object[o].fExpired) /\ @ < DeletionDelay
                     THEN @ + 1 ELSE @]
  <2>1. mapObjects' = mapObjects /\ object' = [o \in Objects |-> Older(o)]
    BY <1>9 DEF Tick
  <2>2. ASSUME NEW o \in Objects
        PROVE  /\ Older(o) \in Stored /\ Older(o).counted = object[o].counted
               /\ Older(o).file = object[o].file /\ Older(o).orphans = Aged(object[o].orphans)
    <3> DEFINE age == IF (object[o].fCachedDelete \/ object[o].fExpired)
                            /\ object[o].age < DeletionDelay
                      THEN object[o].age + 1 ELSE object[o].age
               orphans == Aged(object[o].orphans)
    <3>1. object[o] \in Stored /\ object[o].orphans \subseteq Entries
          /\ object[o].age \in 0 .. DeletionDelay
      BY <1>0 DEF Stored
    <3>2. age \in 0 .. DeletionDelay
      BY <3>1, TimeAssumption
    <3>3. orphans \subseteq Entries
      BY <3>1, AgedVotes
    <3>4. Older(o) = [object[o] EXCEPT !.orphans = orphans, !.age = age]
      BY <3>1 DEF Stored
    <3> HIDE DEF age, orphans, Older
    <3>5. /\ Older(o) \in Stored /\ Older(o).counted = object[o].counted
          /\ Older(o).file = object[o].file /\ Older(o).orphans = orphans
      BY <3>1, <3>2, <3>3, <3>4 DEF Stored
    <3> QED BY <3>5 DEF orphans
  <2> HIDE DEF Older
  <2>3. ASSUME NEW o \in mapObjects PROVE Tallied(o, Older(o)) /\ Waits(o, Older(o))
    <3>1. o \in Objects /\ Tallied(o, object[o]) /\ Waits(o, object[o])
      BY <1>0
    <3>2. Tallied(o, Older(o))
      BY <2>2, <3>1 DEF Tallied
    <3>3. object[o].orphans \subseteq Entries
      BY <3>1, <1>0 DEF Stored
    <3>4. \A e \in Older(o).orphans : \E f \in object[o].orphans : e.vote = f.vote
      BY <2>2, <3>1, <3>3, AgedVotes
    <3> QED BY <3>1, <3>2, <3>4 DEF Waits
  <2>4. object' \in [Objects -> Stored] /\ \A o \in mapObjects' : object'[o] = Older(o)
    BY <2>1, <2>2, <1>0
  <2> QED BY <2>1, <2>3, <2>4 DEF AllTallied
<1>10. CASE UNCHANGED vars
  BY <1>10, TalliedKept DEF vars, objectVars
<1> QED BY <1>1, <1>2, <1>3, <1>4, <1>5, <1>6, <1>7, <1>8, <1>9, <1>10 DEF Next

----------------------------------------------------------------------------
THEOREM InitHolds == Init => IInv
<1> SUFFICES ASSUME Init PROVE IInv
  OBVIOUS
<1>1. HandsOK /\ VotePointersLive
  <2>1. /\ pc = [t \in Threads |-> "idle"] /\ local = [t \in Threads |-> NoLocal]
        /\ mapVoteToObject = {}
    BY DEF Init
  <2> QED BY <2>1, LocalFields DEF HandsOK, VotePointersLive, Threads
<1>2. SeenOnce /\ mapObjects \cap erased = {}
  <2>1. mapObjects = {} /\ erased = {} /\ seenObjects = {}
        /\ orphanObjects = [o \in Objects |-> Absent]
    BY DEF Init
  <2>2. Absent \in Absent .. OrphanTime
    BY TimeAssumption DEF Absent
  <2> QED BY <2>1, <2>2 DEF SeenOnce
<1>3. AllTallied
  <2>1. mapObjects = {} /\ object = [o \in Objects |-> Fresh]
    BY DEF Init
  <2>2. Fresh \in Stored
    BY FreshTallies
  <2> QED BY <2>1, <2>2 DEF AllTallied
<1> QED BY <1>1, <1>2, <1>3 DEF IInv

\* The invariant holds of every behaviour.
THEOREM Inductive == Spec => []IInv
<1>1. IInv /\ [Next]_vars => IInv'
  BY HandsHold, ApartHolds, AllTalliedHolds DEF IInv, Hands, Apart
<1> QED BY InitHolds, <1>1, PTL DEF Spec

\* mapVoteToObject (src/governance.h) holds raw pointers to stored objects: whichever
\* thread erases an object, no reference of a vote to it stays.
THEOREM VotePointersLiveHolds == Spec => []VotePointersLive
<1>1. IInv => VotePointersLive
  BY DEF IInv
<1> QED BY Inductive, <1>1, PTL

\* ProcessVote (src/governance-object.cpp) replaces a vote by a newer one of its safenode
\* and signal: an object counts the newest of all the votes in its file, one a slot.
THEOREM TallyIsNewestHolds == Spec => []TallyIsNewest
<1>1. IInv => TallyIsNewest
  BY DEF IInv, AllTallied, Tallied, TallyIsNewest
<1> QED BY Inductive, <1>1, PTL

\* mapSeenGovernanceObjects (src/governance.cpp) keeps what was erased: it does not come
\* back from a peer, nor from the objects that wait for their safenode.
THEOREM ErasedStaysErasedHolds == Spec => []ErasedStaysErased
<1>1. IInv => ErasedStaysErased
  <2> SUFFICES ASSUME IInv, NEW o \in erased PROVE o \notin mapObjects /\ orphanObjects[o] = Absent
    BY DEF ErasedStaysErased
  <2> QED BY DEF IInv, SeenOnce
<1> QED BY Inductive, <1>1, PTL

----------------------------------------------------------------------------
(* Types. The list is the part that IInv says nothing about.                 *)

\* One turn of the loop of CheckAndRemove, and all of it up to entry n.
Turn(gone, i, left) == IF vSafenodes[i] \in gone THEN left ELSE Append(left, vSafenodes[i])
Loop(gone, n, left) ==
    left = [i \in 0 .. n |-> IF i = 0 THEN <<>> ELSE Turn(gone, i, left[i - 1])]

LEMMA LoopEnds ==
  ASSUME NEW gone, NEW N \in Nat
  PROVE  \E left : Loop(gone, N, left)
<1> DEFINE Bad == {n \in Nat : ~ \E left : Loop(gone, n, left)}
<1>1. SUFFICES ASSUME Bad # {} PROVE FALSE
  OBVIOUS
<1>2. PICK n \in Bad : \A k \in Bad : <<k, n>> \notin Before
  BY <1>1, BeforeWellFounded, WFMin, Zenon
<1>3. n # 0
  <2>1. Loop(gone, 0, [i \in 0 .. 0 |-> <<>>])
    BY DEF Loop
  <2> QED BY <2>1, <1>2
<1>4. n \in Nat /\ n - 1 \in Nat /\ n - 1 < n
  BY <1>2, <1>3
<1>5. n - 1 \notin Bad
  BY <1>2, <1>4 DEF Before
<1>6. PICK left : Loop(gone, n - 1, left)
  BY <1>4, <1>5
<1> DEFINE longer == [i \in 0 .. n |-> IF i = 0 THEN <<>> ELSE Turn(gone, i, left[i - 1])]
<1>7. ASSUME NEW i \in 0 .. n - 1 PROVE longer[i] = left[i]
  <2>1. longer[i] = IF i = 0 THEN <<>> ELSE Turn(gone, i, left[i - 1])
    BY <1>4
  <2>2. left[i] = IF i = 0 THEN <<>> ELSE Turn(gone, i, left[i - 1])
    BY <1>4, <1>6 DEF Loop
  <2> QED BY <2>1, <2>2
<1>8. ASSUME NEW i \in 0 .. n, i # 0 PROVE longer[i - 1] = left[i - 1]
  <2>1. i - 1 \in 0 .. n - 1
    BY <1>4, <1>8
  <2> QED BY <1>7, <2>1
<1>9. longer = [i \in 0 .. n |-> IF i = 0 THEN <<>> ELSE Turn(gone, i, longer[i - 1])]
  <2> HIDE DEF longer
  <2>1. longer = [i \in 0 .. n |-> IF i = 0 THEN <<>> ELSE Turn(gone, i, left[i - 1])]
    BY DEF longer
  <2> QED BY <2>1, <1>8
<1>10. Loop(gone, n, longer)
  BY <1>9 DEF Loop
<1> QED BY <1>2, <1>10

LEMMA LoopTypes ==
  ASSUME NEW gone, vSafenodes \in Seq(Safenodes), NEW left, Loop(gone, Len(vSafenodes), left)
  PROVE  left[Len(vSafenodes)] \in Seq(Safenodes)
<1> DEFINE Bad == {n \in 0 .. Len(vSafenodes) : left[n] \notin Seq(Safenodes)}
<1>1. SUFFICES ASSUME Bad # {} PROVE FALSE
  OBVIOUS
<1>2. Bad \subseteq Nat
  OBVIOUS
<1>3. PICK n \in Bad : \A k \in Bad : <<k, n>> \notin Before
  BY <1>1, <1>2, BeforeWellFounded, WFMin, Zenon
<1>4. n # 0
  BY <1>3 DEF Loop
<1>5. n \in 1 .. Len(vSafenodes) /\ n - 1 \in 0 .. Len(vSafenodes) /\ n - 1 < n
  BY <1>3, <1>4
<1>6. left[n - 1] \in Seq(Safenodes)
  BY <1>2, <1>3, <1>5 DEF Before
<1>7. vSafenodes[n] \in Safenodes
  BY <1>5
<1>8. left[n] = Turn(gone, n, left[n - 1])
  <2>1. n \in 0 .. Len(vSafenodes)
    BY <1>3
  <2> QED BY <1>4, <2>1 DEF Loop
<1>9. left[n] \in Seq(Safenodes)
  <2> DEFINE before == left[n - 1]
             m == vSafenodes[n]
  <2>1. before \in Seq(Safenodes) /\ m \in Safenodes
    BY <1>6, <1>7
  <2>2. left[n] = IF m \in gone THEN before ELSE Append(before, m)
    BY <1>8 DEF Turn
  <2> HIDE DEF before, m
  <2> QED BY <2>1, <2>2
<1> QED BY <1>3, <1>9

LEMMA SurvivorsType ==
  ASSUME NEW gone, vSafenodes \in Seq(Safenodes)
  PROVE  Survivors(gone) \in Seq(Safenodes)
<1> DEFINE left == CHOOSE f : Loop(gone, Len(vSafenodes), f)
<1>1. Len(vSafenodes) \in Nat
  OBVIOUS
<1>2. Loop(gone, Len(vSafenodes), left)
  BY <1>1, LoopEnds
<1>3. Survivors(gone) = left[Len(vSafenodes)]
  BY DEF Survivors, Loop, Turn
<1> HIDE DEF left
<1> QED BY <1>2, <1>3, LoopTypes

\* The first entry that goes is in the vector.
LEMMA FirstType ==
  ASSUME NEW gone \in SUBSET Listed, gone # {}, vSafenodes \in Seq(Safenodes)
  PROVE  First(gone) \in 1 .. Len(vSafenodes)
<1> DEFINE T == {i \in 1 .. Len(vSafenodes) : vSafenodes[i] \in gone}
<1>1. T \subseteq Nat /\ T # {}
  BY DEF Listed
<1>2. PICK i \in T : \A j \in T : <<j, i>> \notin Before
  BY <1>1, BeforeWellFounded, WFMin, Zenon
<1>3. ASSUME NEW j \in 1 .. i - 1 PROVE vSafenodes[j] \notin gone
  <2>1. j \in 1 .. Len(vSafenodes) /\ j \in Nat /\ i \in Nat /\ j < i
    BY <1>2
  <2>2. <<j, i>> \in Before
    BY <2>1 DEF Before
  <2> QED BY <1>2, <2>1, <2>2
<1>4. DOMAIN vSafenodes = 1 .. Len(vSafenodes)
  OBVIOUS
<1> QED BY <1>2, <1>3, <1>4 DEF First

\* Votes taken from orphans, and what is noted of them.
LEMMA NotedType ==
  ASSUME NEW V, V \subseteq Votes, ListOK
  PROVE  Noted(V) \in [Safenodes -> SUBSET Objects]
<1>1. \A m \in Safenodes : votedOn[m] \subseteq Objects
  BY DEF ListOK
<1>2. \A v \in V : VoteFor[v] \in Objects
  BY VoteAssumption
<1> QED BY <1>1, <1>2 DEF Noted

LEMMA ListStep == IInv /\ TypeOK /\ [Next]_vars => ListOK'
<1> SUFFICES ASSUME IInv, TypeOK, [Next]_vars PROVE ListOK'
  OBVIOUS
<1>0. ASSUME UNCHANGED listVars PROVE ListOK'
  BY <1>0 DEF TypeOK, ListOK, listVars
<1>1. ASSUME votedOn' \in [Safenodes -> SUBSET Objects],
             UNCHANGED <<vSafenodes, indexed, dirtyHashes, fSafenodesAdded, fSafenodesRemoved>>
      PROVE  ListOK'
  BY <1>1 DEF TypeOK, ListOK
<1>2. ASSUME NEW o \in Objects, ObjectMessage(o) PROVE ListOK'
  <2>1. CASE RefuseObject(o)
    BY <1>0, <2>1 DEF RefuseObject
  <2>2. CASE AcceptObject(o)
    <3>1. {e.vote : e \in Taken(o)} \subseteq Votes
      BY DEF Taken, Alive, Waiting, TypeOK, VotesOK, Entries
    <3>2. Noted({e.vote : e \in Taken(o)}) \in [Safenodes -> SUBSET Objects]
      BY <3>1, NotedType DEF TypeOK
    <3> QED BY <1>1, <2>2, <3>2 DEF AcceptObject
  <2> QED BY <1>2, <2>1, <2>2 DEF ObjectMessage
<1>3. ASSUME NEW v \in Votes, VoteMessage(v) PROVE ListOK'
  BY <1>0, <1>3 DEF VoteMessage, RefuseVote, CheckVote
<1>4. CASE AddVote
  <2>1. PICK v \in local["net"].votes :
           \/ votedOn' = Noted({v})
           \/ UNCHANGED votedOn
    BY <1>4 DEF AddVote
  <2>2. v \in Votes
    BY <2>1 DEF IInv, HandsOK
  <2>3. Noted({v}) \in [Safenodes -> SUBSET Objects]
    BY <2>2, NotedType DEF TypeOK
  <2>4. votedOn' \in [Safenodes -> SUBSET Objects]
    BY <2>1, <2>3 DEF TypeOK, ListOK
  <2> QED BY <1>1, <1>4, <2>4 DEF AddVote
<1>5. CASE StoreVote
  BY <1>0, <1>5 DEF StoreVote
<1>6. ASSUME NEW m \in Safenodes, Announce(m) PROVE ListOK'
  <2>1. Append(vSafenodes, m) \in Seq(Safenodes) /\ indexed \cup {m} \subseteq Safenodes
    BY DEF TypeOK, ListOK
  <2>2. /\ [votedOn EXCEPT ![m] = {}] \in [Safenodes -> SUBSET Objects]
        /\ [n \in Safenodes |-> {}] \in [Safenodes -> SUBSET Objects]
    BY DEF TypeOK, ListOK
  <2>3. votedOn' \in [Safenodes -> SUBSET Objects]
    BY <1>6, <2>2 DEF Announce
  <2> QED BY <1>6, <2>1, <2>3 DEF Announce, TypeOK, ListOK
<1>7. ASSUME NEW gone \in SUBSET Listed, CheckAndRemove(gone) PROVE ListOK'
  <2>0. gone # {} /\ vSafenodes \in Seq(Safenodes)
    BY <1>7 DEF CheckAndRemove, TypeOK, ListOK
  <2>1. vSafenodes' \in Seq(Safenodes)
    BY <1>7, <2>0, SurvivorsType DEF CheckAndRemove
  <2>2. vSafenodes[First(gone)] \in Safenodes
    BY <2>0, FirstType
  <2>3. dirtyHashes' \subseteq Objects
    BY <1>7, <2>2 DEF CheckAndRemove, TypeOK, ListOK
  <2>4. votedOn' \in [Safenodes -> SUBSET Objects]
    BY <1>7 DEF CheckAndRemove, TypeOK, ListOK
  <2> QED BY <1>7, <2>1, <2>3, <2>4 DEF CheckAndRemove, TypeOK, ListOK
<1>8. ASSUME NEW t \in Threads, Notify(t) PROVE ListOK'
  <2>1. CASE Look(t) \/ CopyFlags(t) \/ CheckSafenodeOrphanObjects(t)
    BY <1>0, <2>1 DEF Look, CopyFlags, CheckSafenodeOrphanObjects
  <2>2. CASE CheckSafenodeOrphanVotes(t)
    <3>1. PICK skip, V : votedOn' = Noted(V)
                         /\ V = UNION {{e.vote : e \in Countable(o, skip)} : o \in mapObjects}
      BY <2>2 DEF CheckSafenodeOrphanVotes
    <3>2. ASSUME NEW o \in mapObjects PROVE {e.vote : e \in Countable(o, skip)} \subseteq Votes
      BY DEF Countable, Due, IInv, AllTallied, Waits
    <3>3. V \subseteq Votes
      BY <3>1, <3>2
    <3>4. votedOn' \in [Safenodes -> SUBSET Objects]
      BY <3>1, <3>3, NotedType DEF TypeOK
    <3> QED BY <1>1, <2>2, <3>4 DEF CheckSafenodeOrphanVotes
  <2>3. CASE TakeDirty(t) \/ ClearFlags(t)
    BY <2>3 DEF TakeDirty, ClearFlags, TypeOK, ListOK
  <2>4. CASE UpdateCachesAndClean(t)
    <3>1. PICK gone : votedOn' = [m \in Safenodes |-> votedOn[m] \ gone]
      BY <2>4 DEF UpdateCachesAndClean
    <3>2. votedOn' \in [Safenodes -> SUBSET Objects]
      BY <3>1 DEF TypeOK, ListOK
    <3> QED BY <1>1, <2>4, <3>2 DEF UpdateCachesAndClean
  <2> QED BY <1>8, <2>1, <2>2, <2>3, <2>4 DEF Notify
<1>9. CASE DoMaintenance \/ Tick \/ UNCHANGED vars
  BY <1>0, <1>9 DEF DoMaintenance, Tick, vars
<1> QED BY <1>2, <1>3, <1>4, <1>5, <1>6, <1>7, <1>8, <1>9 DEF Next

LEMMA VotesStep == IInv /\ TypeOK /\ [Next]_vars => VotesOK' /\ seenObjects' \subseteq Objects
<1> SUFFICES ASSUME IInv, TypeOK, [Next]_vars PROVE VotesOK' /\ seenObjects' \subseteq Objects
  OBVIOUS
<1>0. ASSUME UNCHANGED <<voteVars, seenObjects>> PROVE VotesOK' /\ seenObjects' \subseteq Objects
  BY <1>0 DEF TypeOK, VotesOK, ObjectsOK, voteVars
<1>1. ASSUME NEW o \in Objects, ObjectMessage(o) PROVE VotesOK' /\ seenObjects' \subseteq Objects
  <2>1. CASE RefuseObject(o)
    BY <2>1 DEF RefuseObject, TypeOK, VotesOK, ObjectsOK, voteVars
  <2>2. CASE AcceptObject(o)
    <3>1. {e.vote : e \in {f \in Alive(o) : VoteBy[f.vote] \in indexed \ Listed}} \subseteq Votes
      BY DEF Alive, Waiting, TypeOK, VotesOK, Entries
    <3> QED BY <2>2, <3>1 DEF AcceptObject, TypeOK, VotesOK, ObjectsOK
  <2> QED BY <1>1, <2>1, <2>2 DEF ObjectMessage
<1>2. ASSUME NEW v \in Votes, VoteMessage(v) PROVE VotesOK' /\ seenObjects' \subseteq Objects
  <2>1. CASE RefuseVote(v)
    <3>1. [vote |-> v, left |-> OrphanTime] \in Entries
      BY TimeAssumption DEF Entries, Expired
    <3>2. Insert(orphanVotes, v, VoteFor) \subseteq Entries
      BY <3>1 DEF Insert, TypeOK, VotesOK
    <3>3. /\ orphanVotes' \in {orphanVotes, Insert(orphanVotes, v, VoteFor)}
          /\ mapInvalidVotes' \in {mapInvalidVotes, mapInvalidVotes \cup {v}}
          /\ UNCHANGED <<mapVoteToObject, seenObjects>>
      BY <2>1 DEF RefuseVote
    <3> QED BY <3>2, <3>3 DEF TypeOK, VotesOK, ObjectsOK
  <2>2. CASE CheckVote(v)
    BY <1>0, <2>2 DEF CheckVote, objectVars
  <2> QED BY <1>2, <2>1, <2>2 DEF VoteMessage
<1>3. CASE AddVote
  BY <1>0, <1>3 DEF AddVote, objectVars
<1>4. CASE StoreVote
  <2>1. PICK v \in local["net"].votes : mapVoteToObject' = mapVoteToObject \cup {v}
    BY <1>4 DEF StoreVote
  <2>2. v \in Votes
    BY <2>1 DEF IInv, HandsOK
  <2> QED BY <1>4, <2>1, <2>2 DEF StoreVote, TypeOK, VotesOK, ObjectsOK
<1>5. ASSUME NEW m \in Safenodes, Announce(m) PROVE VotesOK' /\ seenObjects' \subseteq Objects
  BY <1>0, <1>5 DEF Announce, objectVars
<1>6. ASSUME NEW gone \in SUBSET Listed, CheckAndRemove(gone)
      PROVE  VotesOK' /\ seenObjects' \subseteq Objects
  BY <1>0, <1>6 DEF CheckAndRemove, objectVars
<1>7. ASSUME NEW t \in Threads, Notify(t) PROVE VotesOK' /\ seenObjects' \subseteq Objects
  <2>1. CASE Look(t) \/ CopyFlags(t) \/ CheckSafenodeOrphanObjects(t) \/ TakeDirty(t) \/ ClearFlags(t)
    BY <1>0, <2>1
       DEF Look, CopyFlags, CheckSafenodeOrphanObjects, TakeDirty, ClearFlags, objectVars
  <2>2. CASE CheckSafenodeOrphanVotes(t)
    <3>1. /\ mapInvalidVotes' \subseteq mapInvalidVotes \cup Votes
          /\ UNCHANGED <<orphanVotes, mapVoteToObject, seenObjects>>
      BY <2>2 DEF CheckSafenodeOrphanVotes
    <3> QED BY <3>1 DEF TypeOK, VotesOK, ObjectsOK
  <2>3. CASE UpdateCachesAndClean(t)
    <3>1. /\ mapVoteToObject' \subseteq mapVoteToObject
          /\ UNCHANGED <<orphanVotes, mapInvalidVotes, seenObjects>>
      BY <2>3 DEF UpdateCachesAndClean, PointersLeft
    <3> QED BY <3>1 DEF TypeOK, VotesOK, ObjectsOK
  <2> QED BY <1>7, <2>1, <2>2, <2>3 DEF Notify
<1>8. CASE DoMaintenance
  <2>1. /\ orphanVotes' \subseteq orphanVotes
        /\ UNCHANGED <<mapInvalidVotes, mapVoteToObject, seenObjects>>
    BY <1>8 DEF DoMaintenance, objectVars
  <2> QED BY <2>1 DEF TypeOK, VotesOK, ObjectsOK
<1>9. CASE Tick
  <2>1. orphanVotes' \subseteq Entries
    BY <1>9, AgedVotes DEF Tick, TypeOK, VotesOK
  <2>2. UNCHANGED <<mapInvalidVotes, mapVoteToObject, seenObjects>>
    BY <1>9 DEF Tick
  <2> QED BY <2>1, <2>2 DEF TypeOK, VotesOK, ObjectsOK
<1>10. CASE UNCHANGED vars
  BY <1>0, <1>10 DEF vars, objectVars
<1> QED BY <1>1, <1>2, <1>3, <1>4, <1>5, <1>6, <1>7, <1>8, <1>9, <1>10 DEF Next

Locals == [removed : BOOLEAN, dirty : SUBSET Objects, then : {"idle", "clearing"},
           votes : SUBSET Votes]

\* A step of thread t that takes it to a place and gives it local variables.
LEMMA ThreadMoves ==
  ASSUME TypeOK, NEW t \in Threads, NEW p \in Places, Goes(t, p),
         NEW l, l \in Locals \/ l = local[t], local' = [local EXCEPT ![t] = l]
  PROVE  ThreadsOK'
<1>1. pc' \in [Threads -> Places]
  BY DEF Goes, TypeOK, ThreadsOK
<1>2. local \in [Threads -> Locals]
  BY DEF TypeOK, ThreadsOK, Locals
<1>3. l \in Locals
  BY <1>2
<1>4. local' \in [Threads -> Locals]
  BY <1>2, <1>3
<1> QED BY <1>1, <1>4 DEF ThreadsOK, Locals

LEMMA ThreadGoes ==
  ASSUME TypeOK, NEW t \in Threads, NEW p \in Places, Goes(t, p), UNCHANGED local
  PROVE  ThreadsOK'
BY DEF Goes, TypeOK, ThreadsOK

LEMMA LocalsOf ==
  /\ NoLocal \in Locals
  /\ \A b \in BOOLEAN : [NoLocal EXCEPT !.removed = b, !.then = "clearing"] \in Locals
  /\ \A d \in SUBSET Objects, p \in {"idle", "clearing"} :
        [NoLocal EXCEPT !.dirty = d, !.then = p] \in Locals
  /\ \A V \in SUBSET Votes : [NoLocal EXCEPT !.votes = V] \in Locals
BY DEF NoLocal, Locals

LEMMA ThreadsStep == TypeOK /\ [Next]_vars => ThreadsOK'
<1> SUFFICES ASSUME TypeOK, [Next]_vars PROVE ThreadsOK'
  OBVIOUS
<1> USE LocalsOf
<1>a. ASSUME UNCHANGED <<pc, local>> PROVE ThreadsOK'
  BY <1>a DEF TypeOK, ThreadsOK
<1>b. "net" \in Threads /\ "pool" \in Threads
  BY DEF Threads
<1>c. /\ {"idle", "adding", "storing", "added", "removed"} \subseteq Places
      /\ {"notify", "objects", "votes", "taking", "cleaning", "clearing"} \subseteq Places
  BY DEF Places
<1>1. ASSUME NEW o \in Objects, ObjectMessage(o) PROVE ThreadsOK'
  BY <1>a, <1>1 DEF ObjectMessage, RefuseObject, AcceptObject
<1>2. ASSUME NEW v \in Votes, VoteMessage(v) PROVE ThreadsOK'
  <2>1. CASE RefuseVote(v)
    BY <1>a, <2>1 DEF RefuseVote
  <2>2. CASE CheckVote(v)
    <3>1. /\ Goes("net", "adding")
          /\ local' = [local EXCEPT !["net"] = [NoLocal EXCEPT !.votes = {v}]]
      BY <2>2 DEF CheckVote
    <3>2. [NoLocal EXCEPT !.votes = {v}] \in Locals
      OBVIOUS
    <3> QED BY <1>b, <1>c, <3>1, <3>2, ThreadMoves
  <2> QED BY <1>2, <2>1, <2>2 DEF VoteMessage
<1>3. CASE AddVote
  <2>1. \/ Goes("net", "storing") /\ UNCHANGED local
        \/ Goes("net", "idle") /\ local' = [local EXCEPT !["net"] = NoLocal]
    BY <1>3 DEF AddVote
  <2>2. CASE Goes("net", "storing") /\ UNCHANGED local
    BY <1>b, <1>c, <2>2, ThreadGoes
  <2>3. CASE Goes("net", "idle") /\ local' = [local EXCEPT !["net"] = NoLocal]
    BY <1>b, <1>c, <2>3, ThreadMoves
  <2> QED BY <2>1, <2>2, <2>3
<1>4. CASE StoreVote
  <2>1. Goes("net", "idle") /\ local' = [local EXCEPT !["net"] = NoLocal]
    BY <1>4 DEF StoreVote
  <2> QED BY <1>b, <1>c, <2>1, ThreadMoves
<1>5. ASSUME NEW m \in Safenodes, Announce(m) PROVE ThreadsOK'
  <2>1. Goes("net", "added") /\ UNCHANGED local
    BY <1>5 DEF Announce
  <2> QED BY <1>b, <1>c, <2>1, ThreadGoes
<1>6. ASSUME NEW gone \in SUBSET Listed, CheckAndRemove(gone) PROVE ThreadsOK'
  <2>1. Goes("pool", "removed") /\ UNCHANGED local
    BY <1>6 DEF CheckAndRemove
  <2> QED BY <1>b, <1>c, <2>1, ThreadGoes
<1>7. ASSUME NEW t \in Threads, Notify(t) PROVE ThreadsOK'
  <2>0. /\ local[t].then \in {"idle", "clearing"} /\ dirtyHashes \subseteq Objects
        /\ fSafenodesRemoved \in BOOLEAN
    BY DEF TypeOK, ThreadsOK, ListOK
  <2>1. CASE Look(t) \/ CheckSafenodeOrphanObjects(t) \/ CheckSafenodeOrphanVotes(t)
    <3>1. UNCHANGED local /\ \E p \in Places : Goes(t, p)
      BY <1>c, <2>1 DEF Look, CheckSafenodeOrphanObjects, CheckSafenodeOrphanVotes
    <3> QED BY <3>1, ThreadGoes
  <2>2. CASE CopyFlags(t)
    <3>1. \E p \in Places : Goes(t, p)
      BY <1>c, <2>2 DEF CopyFlags
    <3>2. \E l \in Locals : local' = [local EXCEPT ![t] = l]
      BY <2>0, <2>2 DEF CopyFlags
    <3> QED BY <3>1, <3>2, ThreadMoves
  <2>3. CASE TakeDirty(t)
    <3>1. Goes(t, "cleaning")
      BY <2>3 DEF TakeDirty
    <3>2. \E l \in Locals : local' = [local EXCEPT ![t] = l]
      BY <2>0, <2>3 DEF TakeDirty
    <3> QED BY <1>c, <3>1, <3>2, ThreadMoves
  <2>4. CASE UpdateCachesAndClean(t)
    <3>1. Goes(t, local[t].then) /\ local' = [local EXCEPT ![t] = NoLocal]
      BY <2>4 DEF UpdateCachesAndClean
    <3>2. local[t].then \in Places
      BY <1>c, <2>0
    <3> QED BY <3>1, <3>2, ThreadMoves
  <2>5. CASE ClearFlags(t)
    <3>1. Goes(t, "idle") /\ local' = [local EXCEPT ![t] = NoLocal]
      BY <2>5 DEF ClearFlags
    <3> QED BY <1>c, <3>1, ThreadMoves
  <2> QED BY <1>7, <2>1, <2>2, <2>3, <2>4, <2>5 DEF Notify
<1>8. CASE DoMaintenance
  <2>1. Goes("pool", "taking") /\ UNCHANGED local
    BY <1>8 DEF DoMaintenance
  <2> QED BY <1>b, <1>c, <2>1, ThreadGoes
<1>9. CASE Tick \/ UNCHANGED vars
  BY <1>a, <1>9 DEF Tick, vars
<1> QED BY <1>1, <1>2, <1>3, <1>4, <1>5, <1>6, <1>7, <1>8, <1>9 DEF Next

\* Every state is one the types describe: the list stays a list of safenodes when entries
\* are erased from its middle, votes and orphans are of known objects, and the ages and
\* expiry times stay within their limits.
THEOREM TypeCorrect == Spec => []TypeOK
<1>1. Init => TypeOK
  <2> SUFFICES ASSUME Init PROVE TypeOK
    OBVIOUS
  <2>1. ListOK
    <3>1. vSafenodes \in Seq(Safenodes)
      <4>1. vSafenodes = <<>>
        BY DEF Init
      <4> QED BY <4>1
    <3>2. votedOn \in [Safenodes -> SUBSET Objects] /\ indexed = {} /\ dirtyHashes = {}
      BY DEF Init
    <3>3. fSafenodesAdded = FALSE /\ fSafenodesRemoved = FALSE
      BY DEF Init
    <3> QED BY <3>1, <3>2, <3>3 DEF ListOK
  <2>2. IInv
    BY InitHolds
  <2>3. ObjectsOK
    BY <2>2 DEF Init, IInv, SeenOnce, AllTallied, ObjectsOK
  <2>4. VotesOK
    BY DEF Init, VotesOK
  <2>5. ThreadsOK
    BY LocalsOf DEF Init, ThreadsOK, Places, Locals
  <2> QED BY <2>1, <2>3, <2>4, <2>5 DEF TypeOK
<1>2. IInv /\ IInv' /\ TypeOK /\ [Next]_vars => TypeOK'
  <2> SUFFICES ASSUME IInv, IInv', TypeOK, [Next]_vars PROVE TypeOK'
    OBVIOUS
  <2>1. ListOK' /\ VotesOK' /\ seenObjects' \subseteq Objects /\ ThreadsOK'
    BY ListStep, VotesStep, ThreadsStep
  <2>2. ObjectsOK'
    BY <2>1 DEF IInv, SeenOnce, AllTallied, ObjectsOK
  <2> QED BY <2>1, <2>2 DEF TypeOK
<1> QED BY Inductive, <1>1, <1>2, PTL DEF Spec
=============================================================================

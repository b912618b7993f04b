------------------------- MODULE SafenodeSyncProofs -------------------------
(***************************************************************************)
(* TLAPS proofs about SafenodeSync, for any set of peers, every timeout    *)
(* and any number of disturbances: the thread of ProcessTick never calls   *)
(* SwitchToNextAsset in the failed state, and no stage is left unasked.    *)
(***************************************************************************)
EXTENDS SafenodeSync, TLAPS

\* Only Fail makes the state failed, and it ends the tick: while the pool thread is
\* anywhere in its tick the state is another one.
InTick == pc["pool"] # "dead" /\ (pc["pool"] # "idle" => asset # "failed")

Switching == {"switch", "switch and return", "write", "write and return"}
\* A stage that is about to be left, or has used up an attempt, was asked for.
AttemptWasAsked == ~skipped /\ attempt > 0 /\ asset \in {"list", "payments"} => asset \in asked
SwitchWasAsked ==
    ~skipped /\ pc["pool"] \in Switching /\ asset \in {"list", "payments"} => asset \in asked
\* ProcessTick asks for the chain a second time in the stage of the sporks only.
AsksAgainForSporks ==
    ~skipped /\ pc["pool"] \in {"ask again", "gate again"} => asset \in {"initial", "sporks"}

IInv == /\ TypeOK /\ InTick
        /\ AskedBeforeLeaving /\ AttemptWasAsked /\ SwitchWasAsked /\ AsksAgainForSporks

----------------------------------------------------------------------------
LEMMA Times == Timeout \in Nat /\ Cooldown \in Nat /\ MaxEvents \in Nat
BY TimeAssumption

LEMMA OlderInRange ==
  ASSUME NEW limit \in Nat, NEW age \in 0 .. limit + 1
  PROVE  Older(age, limit) \in 0 .. limit + 1
BY DEF Older

\* What any thread may do to the state when it asks whether the chain is synced.
LEMMA AskingKeeps ==
  ASSUME NEW b \in BOOLEAN, NEW answer \in BOOLEAN, IsBlockchainSynced(b, answer), ChainOK
  PROVE  (Reset \/ UNCHANGED <<stateVars, histVars>>) /\ ChainOK'
<1>1. Reset \/ UNCHANGED <<stateVars, histVars>>
  BY DEF IsBlockchainSynced
<1>2. /\ fBlockchainSynced' = fBlockchainSynced \/ fBlockchainSynced' \in BOOLEAN
      /\ fFirstBlockAccepted' = fFirstBlockAccepted \/ fFirstBlockAccepted' \in BOOLEAN
      /\ sinceProcess' = sinceProcess \/ sinceProcess' = 0
  BY DEF IsBlockchainSynced, chainVars
<1>3. ChainOK'
  BY <1>2 DEF ChainOK, Hour
<1> QED BY <1>1, <1>3

LEMMA ResetTyped ==
  ASSUME Reset \/ UNCHANGED <<stateVars, histVars>>, StateOK
  PROVE  StateOK'
<1>1. CASE Reset
  <2>1. /\ asset' = "initial" /\ attempt' = 0 /\ quiet' = 0 /\ sinceFailure' = Cooldown + 1
        /\ asked' = {} /\ skipped' = FALSE
    BY <1>1 DEF Reset
  <2>2. asset' \in Assets
    BY <2>1 DEF Assets
  <2>3. attempt' \in 0 .. 2 /\ quiet' \in 0 .. Timeout + 1
        /\ sinceFailure' \in 0 .. Cooldown + 1
    BY <2>1, Times
  <2>4. asked' \subseteq Stages /\ skipped' \in BOOLEAN
    BY <2>1
  <2> QED BY <2>2, <2>3, <2>4 DEF StateOK
<1>2. CASE UNCHANGED <<stateVars, histVars>>
  BY <1>2 DEF stateVars, histVars, StateOK
<1> QED BY <1>1, <1>2

LEMMA GoesTyped ==
  ASSUME NEW t \in Threads, NEW p \in Places, Goes(t, p), ThreadsOK
  PROVE  pc' \in [Threads -> Places]
BY DEF Goes, ThreadsOK

LEMMA DisturbedTyped ==
  ASSUME Disturbed, events \in 0 .. MaxEvents
  PROVE  events' \in 0 .. MaxEvents
BY Times DEF Disturbed

\* The write of a switch.
LEMMA WriteTyped ==
  ASSUME NEW t \in Threads, WriteAsset(t), TypeOK
  PROVE  TypeOK'
<1>1. PICK locked \in BOOLEAN : fulfilled' = Marked(t, locked) /\ attempt' = Attempts(t, locked)
  BY DEF WriteAsset
<1>2. PeersOK'
  <2>1. fulfilled \in [Peers -> SUBSET Requests] /\ PeersOK
    BY DEF TypeOK, PeersOK
  <2>2. Marked(t, locked) \in [Peers -> SUBSET Requests]
    BY <2>1 DEF Marked, Requests
  <2> QED BY <2>1, <2>2, <1>1 DEF WriteAsset, PeersOK
<1>3. StateOK'
  <2>1. target[t] \in Assets \ {"failed"} /\ StateOK
    BY DEF TypeOK, ThreadsOK
  <2>2. target[t] \in {"initial", "sporks", "list", "payments", "governance", "finished"}
    BY <2>1 DEF Assets, Stages
  <2>3. NextAsset[target[t]] \in {"sporks", "list", "payments", "governance", "finished"}
    BY <2>2 DEF NextAsset
  <2>4. asset' \in Assets
    BY <2>3 DEF WriteAsset, Assets, Stages
  <2>5. attempt' \in 0 .. 2
    BY <2>1, <1>1 DEF Attempts, StateOK
  <2>6. /\ quiet' = 0 \/ quiet' = quiet
        /\ sinceFailure' = sinceFailure /\ asked' = asked /\ skipped' \in BOOLEAN
    BY <2>1 DEF WriteAsset, StateOK
  <2> QED BY <2>1, <2>4, <2>5, <2>6, Times DEF StateOK
<1>4. ChainOK' /\ WorldOK'
  BY DEF WriteAsset, TypeOK, ChainOK, WorldOK, chainVars, Done, Goes
<1>5. ThreadsOK'
  <2>1. pc' \in [Threads -> Places]
    BY GoesTyped DEF WriteAsset, Done, TypeOK, Places, Threads
  <2> QED BY <2>1 DEF WriteAsset, TypeOK, ThreadsOK
<1> QED BY <1>2, <1>3, <1>4, <1>5 DEF TypeOK

LEMMA ReadTyped ==
  ASSUME NEW t \in Threads, ReadAsset(t), TypeOK
  PROVE  TypeOK'
<1>1. StateOK' /\ ChainOK' /\ PeersOK' /\ WorldOK'
  BY DEF ReadAsset, TypeOK, StateOK, ChainOK, PeersOK, WorldOK, stateVars, histVars, chainVars,
     envVars
<1>2. pc' \in [Threads -> Places]
  BY GoesTyped DEF ReadAsset, TypeOK, Places
<1>3. target' \in [Threads -> Assets \ {"failed"}]
  <2>1. asset \in Assets /\ target \in [Threads -> Assets \ {"failed"}]
    BY DEF TypeOK, StateOK, ThreadsOK
  <2> QED BY <2>1 DEF ReadAsset
<1> QED BY <1>1, <1>2, <1>3 DEF TypeOK, ThreadsOK

\* The turns of the loop over the peers.
LEMMA TurnTyped ==
  ASSUME NEW p \in Peers, SkipPeer(p) \/ TimedOut(p) \/ Request(p) \/ AskedAlready(p), TypeOK
  PROVE  TypeOK'
<1>0. "pool" \in Threads
  BY DEF Threads
<1>1. CASE SkipPeer(p)
  <2>1. StateOK' /\ ChainOK' /\ ThreadsOK' /\ WorldOK'
    BY <1>1 DEF SkipPeer, TypeOK, StateOK, ChainOK, ThreadsOK, WorldOK, stateVars, histVars,
       chainVars
  <2>2. PeersOK'
    BY <1>1 DEF SkipPeer, TypeOK, PeersOK, Requests
  <2> QED BY <2>1, <2>2 DEF TypeOK
<1>2. CASE TimedOut(p)
  <2>1. StateOK' /\ ChainOK' /\ PeersOK' /\ WorldOK'
    BY <1>2 DEF TimedOut, TypeOK, StateOK, ChainOK, PeersOK, WorldOK, stateVars, histVars,
       chainVars, envVars
  <2>2. ThreadsOK'
    BY <1>0, <1>2, GoesTyped DEF TimedOut, TypeOK, ThreadsOK, Places
  <2> QED BY <2>1, <2>2 DEF TypeOK
<1>3. CASE Request(p)
  <2>1. ChainOK' /\ WorldOK'
    BY <1>3 DEF Request, Done, TypeOK, ChainOK, WorldOK, chainVars
  <2>2. PeersOK'
    <3>1. fulfilled' = [fulfilled EXCEPT ![p] = @ \cup {asset}] /\ asset \in Stages
      BY <1>3 DEF Request
    <3>2. PeersOK
      BY DEF TypeOK
    <3>3. fulfilled' \in [Peers -> SUBSET Requests]
      BY <3>1, <3>2 DEF PeersOK, Requests
    <3> QED BY <1>3, <3>2, <3>3 DEF Request, PeersOK
  <2>3. ThreadsOK'
    BY <1>0, <1>3, GoesTyped DEF Request, Done, TypeOK, ThreadsOK, Places
  <2>4. StateOK'
    BY <1>3 DEF Request, TypeOK, StateOK
  <2> QED BY <2>1, <2>2, <2>3, <2>4 DEF TypeOK
<1>4. CASE AskedAlready(p)
  <2>1. StateOK' /\ ChainOK' /\ WorldOK'
    BY <1>4 DEF AskedAlready, TypeOK, StateOK, ChainOK, WorldOK, stateVars, histVars,
       chainVars, envVars
  <2>2. PeersOK'
    <3>1. noObjectsFor' \in {noObjectsFor, 0, Never}
      BY <1>4 DEF AskedAlready
    <3>2. fulfilled' = fulfilled /\ connected' = connected /\ todo' \in {todo, todo \ {p}}
      BY <1>4 DEF AskedAlready, envVars
    <3>3. PeersOK
      BY DEF TypeOK
    <3> QED BY <3>1, <3>2, <3>3, Times DEF PeersOK, Never
  <2>3. ThreadsOK'
    BY <1>0, <1>4, GoesTyped DEF AskedAlready, TypeOK, ThreadsOK, Places
  <2> QED BY <2>1, <2>2, <2>3 DEF TypeOK
<1> QED BY <1>1, <1>2, <1>3, <1>4

----------------------------------------------------------------------------
THEOREM InitHolds == Init => IInv
<1> SUFFICES ASSUME Init PROVE IInv
  OBVIOUS
<1>1. StateOK /\ ChainOK /\ ThreadsOK
  <2>1. asset = "initial" /\ attempt = 0 /\ quiet = 0 /\ sinceFailure = Cooldown + 1
        /\ asked = {} /\ skipped = FALSE
    BY DEF Init
  <2>2. "initial" \in Assets \ {"failed"}
    BY DEF Assets
  <2>3. StateOK
    <3>1. attempt \in 0 .. 2 /\ quiet \in 0 .. Timeout + 1
          /\ sinceFailure \in 0 .. Cooldown + 1
      BY <2>1, Times
    <3>2. asked \subseteq Stages /\ skipped \in BOOLEAN
      BY <2>1
    <3> QED BY <2>1, <2>2, <3>1, <3>2 DEF StateOK
  <2>4. ChainOK
    <3>1. fBlockchainSynced = FALSE /\ fFirstBlockAccepted = FALSE /\ sinceProcess = 0
      BY DEF Init
    <3>2. sinceProcess \in 0 .. Hour
      BY <3>1 DEF Hour
    <3>3. fBlockchainSynced \in BOOLEAN /\ fFirstBlockAccepted \in BOOLEAN
      BY <3>1
    <3> QED BY <3>2, <3>3 DEF ChainOK
  <2>5. ThreadsOK
    BY <2>2 DEF Init, ThreadsOK, Places
  <2> QED BY <2>3, <2>4, <2>5
<1>2. PeersOK /\ WorldOK
  <2>1. PeersOK
    BY Times DEF Init, PeersOK, Never
  <2>2. WorldOK
    <3>1. chain = "behind" /\ listed = FALSE /\ due = TRUE /\ events = 0 /\ said = FALSE
      BY DEF Init
    <3>2. events \in 0 .. MaxEvents
      BY <3>1, Times
    <3>3. chain \in {"behind", "recent", "agreed"} /\ listed \in BOOLEAN /\ due \in BOOLEAN
          /\ said \in BOOLEAN
      BY <3>1
    <3> QED BY <3>2, <3>3 DEF WorldOK
  <2> QED BY <2>1, <2>2
<1>3. InTick /\ AskedBeforeLeaving /\ AttemptWasAsked /\ SwitchWasAsked /\ AsksAgainForSporks
  BY DEF Init, InTick, AskedBeforeLeaving, AttemptWasAsked, SwitchWasAsked,
     AsksAgainForSporks, Switching, Threads
<1> QED BY <1>1, <1>2, <1>3 DEF IInv, TypeOK

LEMMA TypeHolds == TypeOK /\ [Next]_vars => TypeOK'
<1> SUFFICES ASSUME TypeOK, [Next]_vars PROVE TypeOK'
  OBVIOUS
<1>0. "pool" \in Threads /\ "rpc" \in Threads
  BY DEF Threads
<1>1. CASE ProcessTick
  <2>1. CASE Begin
    <3>1. StateOK'
      BY <2>1, ResetTyped DEF Begin, TypeOK
    <3>2. ChainOK' /\ PeersOK' /\ WorldOK'
      BY <2>1 DEF Begin, Done, chainVars, TypeOK, ChainOK, PeersOK, WorldOK
    <3>3. ThreadsOK'
      BY <1>0, <2>1, GoesTyped DEF Begin, Done, TypeOK, ThreadsOK, Places
    <3> QED BY <3>1, <3>2, <3>3 DEF TypeOK
  <2>2. CASE AsksChain
    <3>1. PICK answer \in BOOLEAN : IsBlockchainSynced(FALSE, answer) /\ said' = answer
      BY <2>2 DEF AsksChain
    <3>2. StateOK' /\ ChainOK'
      BY <3>1, AskingKeeps, ResetTyped DEF TypeOK
    <3>3. PeersOK' /\ WorldOK'
      BY <2>2, <3>1 DEF AsksChain, envVars, TypeOK, PeersOK, WorldOK
    <3>4. ThreadsOK'
      BY <1>0, <2>2, GoesTyped DEF AsksChain, TypeOK, ThreadsOK, Places
    <3> QED BY <3>2, <3>3, <3>4 DEF TypeOK
  <2>3. CASE Gate
    <3>1. StateOK'
      <4>1. asset' = asset /\ attempt' = attempt /\ sinceFailure' = sinceFailure
            /\ asked' = asked /\ skipped' = skipped /\ (quiet' = quiet \/ quiet' = 0)
        BY <2>3 DEF Gate, histVars
      <4> QED BY <4>1, Times DEF TypeOK, StateOK
    <3>2. ChainOK' /\ PeersOK' /\ WorldOK'
      BY <2>3 DEF Gate, Done, chainVars, TypeOK, ChainOK, PeersOK, WorldOK
    <3>3. ThreadsOK'
      <4>1. PICK q \in Places : Goes("pool", q)
        <5>1. \/ Goes("pool", "idle") \/ Goes("pool", "switch") \/ Goes("pool", "ask again")
              \/ Goes("pool", "copy")
          BY <2>3 DEF Gate, Done
        <5> QED BY <5>1 DEF Places
      <4> QED BY <1>0, <2>3, <4>1, GoesTyped DEF Gate, TypeOK, ThreadsOK
    <3> QED BY <3>1, <3>2, <3>3 DEF TypeOK
  <2>4. CASE ReadAsset("pool")
    BY <1>0, <2>4, ReadTyped
  <2>5. CASE WriteAsset("pool")
    BY <1>0, <2>5, WriteTyped
  <2>6. CASE CopyNodeVector
    <3>1. StateOK' /\ ChainOK' /\ PeersOK' /\ WorldOK'
      BY <2>6 DEF CopyNodeVector, stateVars, histVars, chainVars, envVars, TypeOK, StateOK,
         ChainOK, PeersOK, WorldOK
    <3>2. ThreadsOK'
      BY <1>0, <2>6, GoesTyped DEF CopyNodeVector, TypeOK, ThreadsOK, Places
    <3> QED BY <3>1, <3>2 DEF TypeOK
  <2>7. CASE AllAsked
    <3>1. StateOK' /\ ChainOK' /\ PeersOK' /\ WorldOK'
      BY <2>7 DEF AllAsked, Done, stateVars, histVars, chainVars, TypeOK, StateOK,
         ChainOK, PeersOK, WorldOK
    <3>2. ThreadsOK'
      BY <1>0, <2>7, GoesTyped DEF AllAsked, Done, TypeOK, ThreadsOK, Places
    <3> QED BY <3>1, <3>2 DEF TypeOK
  <2>8. CASE Fail
    <3>1. StateOK'
      BY <2>8, Times DEF Fail, histVars, TypeOK, StateOK, Assets
    <3>2. ChainOK' /\ PeersOK' /\ WorldOK'
      BY <2>8 DEF Fail, FailAndReturn, Done, chainVars, TypeOK, ChainOK, PeersOK, WorldOK
    <3>3. ThreadsOK'
      BY <1>0, <2>8, GoesTyped DEF Fail, FailAndReturn, Done, TypeOK, ThreadsOK, Places
    <3> QED BY <3>1, <3>2, <3>3 DEF TypeOK
  <2>9. CASE \E p \in Peers : SkipPeer(p) \/ TimedOut(p) \/ Request(p) \/ AskedAlready(p)
    BY <2>9, TurnTyped
  <2> QED BY <1>1, <2>1, <2>2, <2>3, <2>4, <2>5, <2>6, <2>7, <2>8, <2>9 DEF ProcessTick
<1>2. CASE SwitchCommand
  BY <1>0, <1>2, ReadTyped, WriteTyped DEF SwitchCommand
<1>3. CASE World
  <2>1. CASE HandlerAsks \/ BlockAccepted
    <3>1. \E b \in BOOLEAN, answer \in BOOLEAN : IsBlockchainSynced(b, answer)
      BY <2>1 DEF HandlerAsks, BlockAccepted
    <3>2. StateOK' /\ ChainOK'
      BY <3>1, AskingKeeps, ResetTyped DEF TypeOK
    <3>3. PeersOK' /\ ThreadsOK'
      BY <2>1 DEF HandlerAsks, BlockAccepted, envVars, threadVars, TypeOK, PeersOK, ThreadsOK
    <3>4. WorldOK'
      BY <2>1, DisturbedTyped DEF HandlerAsks, BlockAccepted, envVars, threadVars, TypeOK,
         WorldOK
    <3> QED BY <3>2, <3>3, <3>4 DEF TypeOK
  <2>2. CASE AddedItem
    <3>1. StateOK'
      BY <2>2, Times DEF AddedItem, histVars, TypeOK, StateOK
    <3>2. ChainOK' /\ PeersOK' /\ ThreadsOK'
      BY <2>2 DEF AddedItem, chainVars, threadVars, TypeOK, ChainOK, PeersOK, ThreadsOK
    <3>3. WorldOK'
      <4>1. events' \in 0 .. MaxEvents
        BY <2>2, DisturbedTyped DEF AddedItem, TypeOK, WorldOK
      <4>2. listed' \in BOOLEAN
        BY <2>2 DEF AddedItem, TypeOK, WorldOK
      <4> QED BY <2>2, <4>1, <4>2 DEF AddedItem, threadVars, TypeOK, WorldOK
    <3> QED BY <3>1, <3>2, <3>3 DEF TypeOK
  <2>3. CASE Command
    <3>1. StateOK'
      BY <2>3, ResetTyped DEF Command, TypeOK
    <3>2. ChainOK' /\ PeersOK'
      BY <2>3 DEF Command, chainVars, TypeOK, ChainOK, PeersOK
    <3>3. WorldOK'
      BY <2>3, DisturbedTyped DEF Command, TypeOK, WorldOK
    <3>4. ThreadsOK'
      BY <1>0, <2>3, GoesTyped DEF Command, TypeOK, ThreadsOK, Places
    <3> QED BY <3>1, <3>2, <3>3, <3>4 DEF TypeOK
  <2>4. CASE Sleep
    <3>1. StateOK'
      BY <2>4, Times DEF Sleep, histVars, TypeOK, StateOK
    <3>2. ChainOK' /\ ThreadsOK'
      BY <2>4 DEF Sleep, threadVars, TypeOK, ChainOK, ThreadsOK, Hour
    <3>3. PeersOK'
      BY <2>4, Times DEF Sleep, threadVars, TypeOK, PeersOK, Never
    <3>4. WorldOK'
      BY <2>4, DisturbedTyped DEF Sleep, threadVars, TypeOK, WorldOK
    <3> QED BY <3>1, <3>2, <3>3, <3>4 DEF TypeOK
  <2>5. CASE Disturb
    <3>1. StateOK' /\ ChainOK' /\ ThreadsOK'
      BY <2>5 DEF Disturb, stateVars, histVars, chainVars, threadVars, TypeOK, StateOK,
         ChainOK, ThreadsOK
    <3>2. PeersOK'
      BY <2>5 DEF Disturb, threadVars, TypeOK, PeersOK
    <3>3. WorldOK'
      <4>1. events' \in 0 .. MaxEvents
        BY <2>5, DisturbedTyped DEF Disturb, TypeOK, WorldOK
      <4> QED BY <2>5, <4>1 DEF Disturb, threadVars, TypeOK, WorldOK
    <3> QED BY <3>1, <3>2, <3>3 DEF TypeOK
  <2>6. CASE \E p \in Peers : Connect(p) \/ \E r \in Requests : Expire(p, r)
    <3>1. StateOK' /\ ChainOK' /\ ThreadsOK' /\ WorldOK'
      BY <2>6 DEF Connect, Expire, stateVars, histVars, chainVars, threadVars, envVars, TypeOK,
         StateOK, ChainOK, ThreadsOK, WorldOK
    <3>2. PeersOK'
      BY <2>6 DEF Connect, Expire, threadVars, envVars, TypeOK, PeersOK
    <3> QED BY <3>1, <3>2 DEF TypeOK
  <2> QED BY <1>3, <2>1, <2>2, <2>3, <2>4, <2>5, <2>6 DEF World
<1>4. CASE Tick
  <2>1. StateOK'
    BY <1>4, OlderInRange, Times DEF Tick, histVars, TypeOK, StateOK
  <2>2. noObjectsFor' \in Never .. Timeout + 1
    <3>1. noObjectsFor \in Never .. Timeout + 1 /\ Timeout \in Nat
      BY Times DEF TypeOK, PeersOK
    <3>2. noObjectsFor = Never \/ noObjectsFor \in 0 .. Timeout + 1
      BY <3>1 DEF Never
    <3>3. noObjectsFor' = Never \/ noObjectsFor' \in 0 .. Timeout + 1
      BY <1>4, <3>1, <3>2, OlderInRange DEF Tick
    <3> QED BY <3>1, <3>3 DEF Never
  <2>3. PeersOK'
    BY <1>4, <2>2 DEF Tick, threadVars, TypeOK, PeersOK
  <2>4. ChainOK' /\ WorldOK' /\ ThreadsOK'
    BY <1>4 DEF Tick, threadVars, TypeOK, ChainOK, WorldOK, ThreadsOK, Hour
  <2> QED BY <2>1, <2>3, <2>4 DEF TypeOK
<1>5. CASE UNCHANGED vars
  BY <1>5 DEF TypeOK, StateOK, ChainOK, PeersOK, WorldOK, ThreadsOK, vars, stateVars,
     chainVars, envVars, threadVars, histVars
<1> QED BY <1>1, <1>2, <1>3, <1>4, <1>5 DEF Next

----------------------------------------------------------------------------
\* The rest of the invariant only looks at the state, what was asked, and where the pool
\* thread is.
Rest == InTick /\ AskedBeforeLeaving /\ AttemptWasAsked /\ SwitchWasAsked /\ AsksAgainForSporks

LEMMA RestAfterReset ==
  ASSUME IInv, Reset, pc'["pool"] = pc["pool"]
  PROVE  Rest'
BY DEF IInv, Reset, Rest, InTick, AskedBeforeLeaving, AttemptWasAsked, SwitchWasAsked,
   AsksAgainForSporks

LEMMA RestKept ==
  ASSUME IInv, UNCHANGED <<asset, attempt, histVars>>, pc'["pool"] = pc["pool"]
  PROVE  Rest'
BY DEF IInv, Rest, InTick, AskedBeforeLeaving, AttemptWasAsked, SwitchWasAsked,
   AsksAgainForSporks, histVars

LEMMA RestHolds == IInv /\ [Next]_vars => Rest'
<1> SUFFICES ASSUME IInv, [Next]_vars PROVE Rest'
  OBVIOUS
<1> USE DEF Switching
<1>0. StateOK /\ ChainOK /\ ThreadsOK /\ Rest
  BY DEF IInv, Rest, TypeOK
<1>1. CASE ProcessTick
  <2>1. CASE Begin
    <3>1. Reset \/ UNCHANGED <<stateVars, histVars>>
      BY <2>1 DEF Begin
    <3>2. pc["pool"] = "idle" /\ pc'["pool"] \in {"idle", "ask"}
      BY <2>1, <1>0 DEF Begin, Done, Goes, ThreadsOK, Threads, Places
    <3>3. pc'["pool"] = "ask" => asset' # "failed"
      BY <2>1, <1>0 DEF Begin, Done, Goes, ThreadsOK, Threads, Places, stateVars, Reset
    <3>4. CASE Reset
      BY <3>2, <3>3, <3>4 DEF Rest, Reset, InTick, AskedBeforeLeaving, AttemptWasAsked,
         SwitchWasAsked, AsksAgainForSporks
    <3>5. CASE UNCHANGED <<stateVars, histVars>>
      BY <3>2, <3>3, <3>5, <1>0 DEF Rest, InTick, AskedBeforeLeaving, AttemptWasAsked,
         SwitchWasAsked, AsksAgainForSporks, stateVars, histVars
    <3> QED BY <3>1, <3>4, <3>5
  <2>2. CASE AsksChain
    <3>1. Reset \/ UNCHANGED <<stateVars, histVars>>
      BY <2>2, <1>0, AskingKeeps DEF AsksChain
    <3>2. \/ pc["pool"] = "ask" /\ pc'["pool"] = "gate"
          \/ pc["pool"] = "ask again" /\ pc'["pool"] = "gate again"
      BY <2>2, <1>0 DEF AsksChain, Goes, ThreadsOK, Threads, Places
    <3>3. CASE Reset
      BY <3>2, <3>3 DEF Rest, Reset, InTick, AskedBeforeLeaving, AttemptWasAsked,
         SwitchWasAsked, AsksAgainForSporks
    <3>4. CASE UNCHANGED <<stateVars, histVars>>
      BY <3>2, <3>4, <1>0 DEF Rest, InTick, AskedBeforeLeaving, AttemptWasAsked,
         SwitchWasAsked, AsksAgainForSporks, stateVars, histVars
    <3> QED BY <3>1, <3>3, <3>4
  <2>3. CASE Gate
    <3>1. UNCHANGED <<asset, attempt, asked, skipped>>
      BY <2>3 DEF Gate, histVars
    <3>2. \/ pc["pool"] = "gate" /\ pc'["pool"] = "idle"
          \/ /\ pc["pool"] = "gate"
             /\ \/ pc'["pool"] = "switch" /\ asset = "initial"
                \/ pc'["pool"] = "ask again" /\ asset = "sporks"
                \/ pc'["pool"] = "copy"
          \/ pc["pool"] = "gate again" /\ pc'["pool"] \in {"switch", "copy"}
      BY <2>3, <1>0 DEF Gate, Done, Goes, ThreadsOK, Threads, Places
    <3> QED BY <3>1, <3>2, <1>0 DEF Rest, InTick, AskedBeforeLeaving, AttemptWasAsked,
         SwitchWasAsked, AsksAgainForSporks
  <2>4. CASE ReadAsset("pool")
    <3>1. UNCHANGED <<asset, attempt, asked, skipped>>
      BY <2>4 DEF ReadAsset, histVars, stateVars
    <3>2. pc["pool"] \in {"switch", "switch and return"}
          /\ pc'["pool"] \in {"write", "write and return"}
      BY <2>4, <1>0 DEF ReadAsset, Goes, ThreadsOK, Threads, Places, Rest, InTick
    <3> QED BY <3>1, <3>2, <1>0 DEF Rest, InTick, AskedBeforeLeaving, AttemptWasAsked,
         SwitchWasAsked, AsksAgainForSporks
  <2>5. CASE WriteAsset("pool")
    <3>1. asset' = NextAsset[target["pool"]] /\ asked' = asked
          /\ skipped' = (skipped \/ asset # target["pool"])
      BY <2>5 DEF WriteAsset
    <3>2. pc["pool"] \in {"write", "write and return"} /\ pc'["pool"] \in {"copy", "idle"}
      BY <2>5, <1>0 DEF WriteAsset, Goes, Done, ThreadsOK, Threads, Places
    <3>3. asset' # "failed" /\ target["pool"] \in Assets \ {"failed"}
      BY <3>1, <1>0 DEF NextAsset, ThreadsOK, Threads, Assets, Stages
    <3>4. attempt' = 0 \/ target["pool"] = "governance"
      BY <2>5 DEF WriteAsset, Attempts
    <3>5. target["pool"] = "governance" => asset' = "finished"
      BY <3>1 DEF NextAsset
    <3>6. ~skipped' => ~skipped /\ asset = target["pool"]
      BY <3>1, <1>0 DEF StateOK
    <3>7. AskedBeforeLeaving'
      <4>1. CASE ~skipped'
        <5>1. asset' = "payments" => asset = "list"
          BY <3>1, <3>3, <3>6, <4>1 DEF NextAsset, Assets, Stages
        <5>2. asset' = "governance" => asset = "payments"
          BY <3>1, <3>3, <3>6, <4>1 DEF NextAsset, Assets, Stages
        <5>3. asset' = "finished" => asset \in {"governance", "finished"}
          BY <3>1, <3>3, <3>6, <4>1 DEF NextAsset, Assets, Stages
        <5> QED BY <5>1, <5>2, <5>3, <3>1, <3>2, <3>6, <4>1, <1>0
              DEF Rest, AskedBeforeLeaving, SwitchWasAsked
      <4>2. CASE skipped'
        BY <4>2 DEF AskedBeforeLeaving
      <4> QED BY <4>1, <4>2
    <3>8. InTick' /\ SwitchWasAsked' /\ AsksAgainForSporks'
      BY <3>2, <3>3 DEF InTick, SwitchWasAsked, AsksAgainForSporks
    <3>9. AttemptWasAsked'
      BY <3>4, <3>5 DEF AttemptWasAsked
    <3> QED BY <3>7, <3>8, <3>9 DEF Rest
  <2>6. CASE CopyNodeVector
    <3>1. /\ pc["pool"] = "copy" /\ pc'["pool"] = "loop"
          /\ UNCHANGED <<asset, attempt, asked, skipped>>
      BY <2>6, <1>0 DEF CopyNodeVector, Goes, ThreadsOK, Threads, Places, stateVars, histVars
    <3> QED BY <3>1, <1>0 DEF Rest, InTick, AskedBeforeLeaving, AttemptWasAsked,
         SwitchWasAsked, AsksAgainForSporks
  <2>7. CASE AllAsked
    <3>1. /\ pc["pool"] = "loop" /\ pc'["pool"] = "idle"
          /\ UNCHANGED <<asset, attempt, asked, skipped>>
      BY <2>7, <1>0 DEF AllAsked, Goes, Done, ThreadsOK, Threads, Places, stateVars, histVars
    <3> QED BY <3>1, <1>0 DEF Rest, InTick, AskedBeforeLeaving, AttemptWasAsked,
         SwitchWasAsked, AsksAgainForSporks
  <2>8. CASE Fail
    <3>1. /\ pc["pool"] = "fail" /\ pc'["pool"] = "idle" /\ asset' = "failed"
          /\ UNCHANGED <<attempt, asked, skipped>>
      BY <2>8, <1>0 DEF Fail, FailAndReturn, Goes, Done, ThreadsOK, Threads, Places, histVars
    <3> QED BY <3>1, <1>0 DEF Rest, InTick, AskedBeforeLeaving, AttemptWasAsked,
         SwitchWasAsked, AsksAgainForSporks
  <2>9. CASE \E p \in Peers : SkipPeer(p) \/ TimedOut(p) \/ Request(p) \/ AskedAlready(p)
    <3>1. PICK p \in Peers : SkipPeer(p) \/ TimedOut(p) \/ Request(p) \/ AskedAlready(p)
      BY <2>9
    <3>2. CASE SkipPeer(p)
      <4>1. pc' = pc /\ UNCHANGED <<asset, attempt, histVars>>
        BY <3>2 DEF SkipPeer, stateVars
      <4> QED BY <4>1, RestKept
    <3>3. CASE TimedOut(p)
      <4>1. UNCHANGED <<asset, attempt, asked, skipped>>
        BY <3>3 DEF TimedOut, stateVars, histVars
      <4>2. pc["pool"] = "loop" /\ pc'["pool"] \in {"fail", "switch and return"}
        BY <3>3, <1>0 DEF TimedOut, Ready, Turn, Goes, ThreadsOK, Threads, Places
      <4>3. pc'["pool"] = "switch and return" => asset \notin {"list", "payments"} \/ attempt > 0
        <5>1. attempt \in 0 .. 2
          BY <1>0 DEF StateOK
        <5>2. quiet > Timeout \/ attempt > 1
          BY <3>3 DEF TimedOut
        <5>3. CASE quiet > Timeout /\ attempt = 0 /\ asset # "governance"
          <6>1. pc' = [pc EXCEPT !["pool"] = "fail"]
            BY <3>3, <5>3 DEF TimedOut, Goes
          <6> QED BY <6>1, <1>0 DEF ThreadsOK, Threads
        <5>4. CASE ~(quiet > Timeout /\ attempt = 0 /\ asset # "governance")
          <6>1. attempt = 0 => asset = "governance"
            BY <5>2, <5>4
          <6>2. attempt # 0 => attempt > 0
            BY <5>1
          <6>3. asset = "governance" => asset \notin {"list", "payments"}
            OBVIOUS
          <6> QED BY <6>1, <6>2, <6>3
        <5> QED BY <5>3, <5>4
      <4> QED BY <4>1, <4>2, <4>3, <1>0 DEF Rest, InTick, AskedBeforeLeaving, AttemptWasAsked,
         SwitchWasAsked, AsksAgainForSporks
    <3>4. CASE Request(p)
      <4>1. pc["pool"] = "loop" /\ pc'["pool"] = "idle"
        BY <3>4, <1>0 DEF Request, Ready, Turn, Done, Goes, ThreadsOK, Threads, Places
      <4>2. asset' = asset /\ skipped' = skipped /\ asked' = asked \cup {asset}
        BY <3>4 DEF Request
      <4> QED BY <4>1, <4>2, <1>0 DEF Rest, InTick, AskedBeforeLeaving, AttemptWasAsked,
         SwitchWasAsked, AsksAgainForSporks
    <3>5. CASE AskedAlready(p)
      <4>1. UNCHANGED <<asset, attempt, asked, skipped>> /\ pc["pool"] = "loop"
        BY <3>5 DEF AskedAlready, Ready, Turn, stateVars, histVars
      <4>2. pc'["pool"] = "loop" \/ (pc'["pool"] = "switch and return" /\ asset = "governance")
        BY <3>5, <4>1, <1>0 DEF AskedAlready, Goes, ThreadsOK, Threads, Places
      <4> QED BY <4>1, <4>2, <1>0 DEF Rest, InTick, AskedBeforeLeaving, AttemptWasAsked,
         SwitchWasAsked, AsksAgainForSporks
    <3> QED BY <3>1, <3>2, <3>3, <3>4, <3>5
  <2> QED BY <1>1, <2>1, <2>2, <2>3, <2>4, <2>5, <2>6, <2>7, <2>8, <2>9 DEF ProcessTick
<1>2. CASE SwitchCommand
  <2>1. CASE ReadAsset("rpc")
    <3>1. pc'["pool"] = pc["pool"] /\ UNCHANGED <<asset, attempt, histVars>>
      BY <2>1, <1>0 DEF ReadAsset, Goes, stateVars, ThreadsOK, Threads, Places
    <3> QED BY <3>1, RestKept
  <2>2. CASE WriteAsset("rpc")
    <3>1. asset' = NextAsset[target["rpc"]] /\ skipped' = TRUE
      BY <2>2 DEF WriteAsset
    <3>2. asset' # "failed"
      BY <3>1, <1>0 DEF NextAsset, ThreadsOK, Threads, Assets, Stages
    <3>3. pc'["pool"] = pc["pool"]
      BY <2>2, <1>0 DEF WriteAsset, Goes, ThreadsOK, Threads, Places
    <3> QED BY <3>1, <3>2, <3>3, <1>0 DEF Rest, InTick, AskedBeforeLeaving, AttemptWasAsked,
         SwitchWasAsked, AsksAgainForSporks
  <2> QED BY <1>2, <2>1, <2>2 DEF SwitchCommand
<1>3. CASE World
  <2>1. CASE HandlerAsks \/ BlockAccepted
    <3>1. \E b \in BOOLEAN, answer \in BOOLEAN : IsBlockchainSynced(b, answer)
      BY <2>1 DEF HandlerAsks, BlockAccepted
    <3>2. Reset \/ UNCHANGED <<stateVars, histVars>>
      BY <3>1, <1>0, AskingKeeps
    <3>3. pc' = pc
      BY <2>1 DEF HandlerAsks, BlockAccepted, threadVars
    <3> QED BY <3>2, <3>3, RestAfterReset, RestKept DEF stateVars
  <2>2. CASE AddedItem
    <3>1. pc' = pc /\ UNCHANGED <<asset, attempt, histVars>>
      BY <2>2 DEF AddedItem, threadVars
    <3> QED BY <3>1, RestKept
  <2>3. CASE Command
    <3>1. pc'["pool"] = pc["pool"]
      BY <2>3, <1>0 DEF Command, Goes, ThreadsOK, Threads, Places
    <3>2. Reset \/ UNCHANGED <<stateVars, histVars>>
      BY <2>3 DEF Command
    <3> QED BY <3>1, <3>2, RestAfterReset, RestKept DEF stateVars
  <2>4. CASE Sleep
    <3>1. pc' = pc /\ UNCHANGED <<asset, attempt, histVars>>
      BY <2>4 DEF Sleep, threadVars
    <3> QED BY <3>1, RestKept
  <2>5. CASE Disturb
    <3>1. pc' = pc /\ UNCHANGED <<asset, attempt, histVars>>
      BY <2>5 DEF Disturb, threadVars, stateVars
    <3> QED BY <3>1, RestKept
  <2>6. CASE \E p \in Peers : Connect(p) \/ \E r \in Requests : Expire(p, r)
    <3>1. pc' = pc /\ UNCHANGED <<asset, attempt, histVars>>
      BY <2>6 DEF Connect, Expire, threadVars, stateVars
    <3> QED BY <3>1, RestKept
  <2> QED BY <1>3, <2>1, <2>2, <2>3, <2>4, <2>5, <2>6 DEF World
<1>4. CASE Tick
  <2>1. pc' = pc /\ UNCHANGED <<asset, attempt, histVars>>
    BY <1>4 DEF Tick, threadVars
  <2> QED BY <2>1, RestKept
<1>5. CASE UNCHANGED vars
  <2>1. pc' = pc /\ UNCHANGED <<asset, attempt, histVars>>
    BY <1>5 DEF vars, threadVars, stateVars
  <2> QED BY <2>1, RestKept
<1> QED BY <1>1, <1>2, <1>3, <1>4, <1>5 DEF Next

----------------------------------------------------------------------------
\* The invariant holds of every behaviour.
THEOREM Inductive == Spec => []IInv
<1>1. IInv /\ [Next]_vars => IInv'
  BY TypeHolds, RestHolds DEF IInv, Rest
<1> QED BY InitHolds, <1>1, PTL DEF Spec

\* Type correctness (CSafenodeSync's members, the locals of its threads).
THEOREM TypeCorrect == Spec => []TypeOK
<1>1. IInv => TypeOK
  BY DEF IInv
<1> QED BY Inductive, <1>1, PTL

\* SwitchToNextAsset (src/safenode-sync.cpp:70) throws in the failed state: the thread of
\* ProcessTick never calls it there, whatever resets and commands come between its reads.
THEOREM PoolNeverThrowsHolds == Spec => []PoolNeverThrows
<1>1. IInv => PoolNeverThrows
  BY DEF IInv, InTick, PoolNeverThrows
<1> QED BY Inductive, <1>1, PTL

\* A stage is left only after a peer was asked for it, unless the mnsync command or a reset
\* came between the read and the write of a switch.
THEOREM AskedBeforeLeavingHolds == Spec => []AskedBeforeLeaving
<1>1. IInv => AskedBeforeLeaving
  BY DEF IInv
<1> QED BY Inductive, <1>1, PTL
=============================================================================

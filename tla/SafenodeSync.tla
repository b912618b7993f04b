---------------------------- MODULE SafenodeSync ----------------------------
(***************************************************************************)
(* The synchronisation of sporks, safenode list, payment votes and         *)
(* governance objects: CSafenodeSync (src/safenode-sync.cpp) with the      *)
(* requests it remembers (src/netfulfilledman.cpp).                        *)
(*                                                                         *)
(* Thread "pool" runs ProcessTick every six seconds; message handlers and  *)
(* the validation of blocks call IsBlockchainSynced and report what        *)
(* arrives; thread "rpc" runs the mnsync command.  No lock covers the      *)
(* state, so ProcessTick and SwitchToNextAsset are cut where they read and *)
(* write it.  Peers that ProcessTick skips as safenodes, or finds too old  *)
(* to be asked, are left out, and so is the quick mode of the regression   *)
(* test network.                                                           *)
(*                                                                         *)
(* Time is relative, in ticks of ProcessTick.  The timers of the stages    *)
(* are one: each is set when its stage begins and read in that stage only. *)
(***************************************************************************)
EXTENDS Integers, FiniteSets

CONSTANTS
    Peers,
    Timeout,            \* SAFENODE_SYNC_TIMEOUT_SECONDS, in ticks
    Cooldown,           \* the minute after a failure, in ticks
    MaxEvents           \* bound on what disturbs the synchronisation

ASSUME TimeAssumption == Timeout \in Nat \ {0} /\ Cooldown \in Nat \ {0} /\ MaxEvents \in Nat

VARIABLES
    asset, attempt,         \* nRequestedSafenodeAssets; nRequestedSafenodeAttempt, up to 2
    quiet,                  \* age of the timer of the stage
    sinceFailure,           \* age of nTimeLastFailure
    fBlockchainSynced, fFirstBlockAccepted,
    sinceProcess,           \* age of nTimeLastProcess, Hour once it is over an hour
    noObjectsFor,           \* age of nTimeNoObjectsLeft, or Never
    fulfilled,              \* peer -> mapFulfilledRequests of its address
    connected,              \* vNodes
    chain,                  \* "behind", "recent" by its tip, or "agreed" by enough peers
    listed,                 \* CountSafenodes() > 0
    due,                    \* ProcessTick is to run in this tick
    pc, target, said, todo, \* each thread: where it is; the pool's locals
    events,                 \* disturbances so far
    asked, skipped          \* history: stages asked for since the last reset, and
                            \* whether a switch since then was not the pool's own

stateVars == <<asset, attempt, quiet, sinceFailure>>
chainVars == <<fBlockchainSynced, fFirstBlockAccepted, sinceProcess>>
envVars == <<connected, chain, listed, due, events>>
threadVars == <<pc, target, said, todo>>
histVars == <<asked, skipped>>
vars == <<stateVars, chainVars, noObjectsFor, fulfilled, envVars, threadVars, histVars>>

Threads == {"pool", "rpc"}
Stages == {"list", "payments", "governance"}
Assets == Stages \cup {"initial", "sporks", "failed", "finished"}
Requests == Stages \cup {"sporks", "full"}
AfterSporks == Stages \cup {"finished"}
Never == -1
Hour == 2

Init ==
    /\ asset = "initial" /\ attempt = 0 /\ quiet = 0 /\ sinceFailure = Cooldown + 1
    /\ fBlockchainSynced = FALSE /\ fFirstBlockAccepted = FALSE /\ sinceProcess = 0
    /\ noObjectsFor = Never
    /\ fulfilled = [p \in Peers |-> {}]
    /\ connected = {} /\ chain = "behind" /\ listed = FALSE /\ due = TRUE /\ events = 0
    /\ pc = [t \in Threads |-> "idle"] /\ target = [t \in Threads |-> "initial"]
    /\ said = FALSE /\ todo = {}
    /\ asked = {} /\ skipped = FALSE

Goes(t, p) == pc' = [pc EXCEPT ![t] = p]
\* ProcessTick returns.
Done == Goes("pool", "idle") /\ due' = FALSE
\* Fault: ages are not cut at their limit.
OlderStill(age, limit) == age + 1
Older(age, limit) == IF age > limit THEN age ELSE age + 1

-----------------------------------------------------------------------------
(* What any thread may run at any moment.                                    *)

Reset ==
    /\ asset' = "initial" /\ attempt' = 0 /\ quiet' = 0 /\ sinceFailure' = Cooldown + 1
    /\ asked' = {} /\ skipped' = FALSE

IsBlockchainSynced(fBlockAccepted, answer) ==
    LET slept == sinceProcess = Hour
        known == fBlockchainSynced /\ ~slept
        found == chain = "agreed" \/ (chain = "recent" /\ fFirstBlockAccepted) IN
    /\ IF slept THEN Reset ELSE UNCHANGED <<stateVars, histVars>>
    /\ \/ /\ fBlockAccepted /\ asset' # "finished"
          /\ fFirstBlockAccepted' = TRUE /\ fBlockchainSynced' = FALSE /\ sinceProcess' = 0
          /\ answer = FALSE
       \/ /\ ~fBlockAccepted /\ sinceProcess = 0
          /\ answer = known
          /\ UNCHANGED chainVars
       \/ /\ IF fBlockAccepted THEN asset' = "finished" ELSE sinceProcess # 0
          /\ answer = (known \/ found)
          /\ fBlockchainSynced' = answer /\ sinceProcess' = 0
          /\ UNCHANGED fFirstBlockAccepted

\* A message handler asks; a block is accepted; an item of the stage arrives.
HandlerAsks ==
    /\ \E answer \in BOOLEAN : IsBlockchainSynced(FALSE, answer)
    /\ UNCHANGED <<noObjectsFor, fulfilled, envVars, threadVars>>

Disturbed == events < MaxEvents /\ events' = events + 1
BlockAccepted ==
    /\ Disturbed
    /\ \E answer \in BOOLEAN : IsBlockchainSynced(TRUE, answer)
    /\ UNCHANGED <<noObjectsFor, fulfilled, connected, chain, listed, due, threadVars>>
AddedItem ==
    /\ Disturbed
    /\ quiet' = 0
    /\ listed' \in {listed, TRUE}
    /\ UNCHANGED <<asset, attempt, sinceFailure, chainVars, noObjectsFor, fulfilled,
                   connected, chain, due, threadVars, histVars>>

\* CNetFulfilledRequestManager: an entry is forgotten an hour after it was made; what a
\* peer was asked in a stage that goes on is younger.
Expire(p, request) ==
    /\ request \in fulfilled[p]
    /\ p \notin connected \/ asset \in {"failed", "finished"}
    /\ fulfilled' = [fulfilled EXCEPT ![p] = @ \ {request}]
    /\ UNCHANGED <<stateVars, chainVars, noObjectsFor, envVars, threadVars, histVars>>

-----------------------------------------------------------------------------
(* SwitchToNextAsset: read which stage it is, then write the next one.        *)

NextAsset == [sporks |-> "list", list |-> "payments", payments |-> "governance",
              governance |-> "finished", initial |-> "sporks", finished |-> "finished"]

ReadAsset(t) ==
    /\ pc[t] \in {"switch", "switch and return"}
    /\ \/ /\ asset = "failed"               \* it throws; the command reports that
          /\ Goes(t, IF t = "rpc" THEN "idle" ELSE "dead")
          /\ UNCHANGED target
       \/ /\ asset # "failed"
          /\ target' = [target EXCEPT ![t] = asset]
          /\ Goes(t, IF pc[t] = "switch" THEN "write" ELSE "write and return")
    /\ UNCHANGED <<stateVars, chainVars, noObjectsFor, fulfilled, envVars, said, todo, histVars>>

\* Fault: the attempts of one stage count for the next.
AttemptsKept(t, locked) == attempt
\* Once finished it returns early when it does not get cs_vNodes.
Attempts(t, locked) == IF target[t] = "governance" /\ ~locked THEN attempt ELSE 0

\* Both TRY_LOCKs of cs_vNodes may fail.
Marked(t, locked) ==
    [p \in Peers |->
        IF p \notin connected \/ ~locked THEN fulfilled[p]
        ELSE IF target[t] = "initial" THEN {}
        ELSE IF target[t] = "governance" THEN fulfilled[p] \cup {"full"} ELSE fulfilled[p]]
WriteAsset(t) ==
    /\ pc[t] \in {"write", "write and return"}
    /\ asset' = NextAsset[target[t]]
    /\ quiet' = IF target[t] \in {"sporks", "list", "payments"} THEN 0 ELSE quiet
    /\ \E locked \in BOOLEAN :
          /\ fulfilled' = Marked(t, locked)
          /\ attempt' = Attempts(t, locked)
    /\ skipped' = (skipped \/ t = "rpc" \/ asset # target[t])
    /\ IF t = "rpc" THEN Goes(t, "idle") /\ UNCHANGED due
       ELSE IF pc[t] = "write" THEN Goes(t, "copy") /\ UNCHANGED due ELSE Done
    /\ UNCHANGED <<sinceFailure, chainVars, noObjectsFor, connected, chain, listed, events,
                   target, said, todo, asked>>

\* The mnsync command.
Command ==
    /\ pc["rpc"] = "idle" /\ Disturbed
    /\ \/ Goes("rpc", "switch") /\ UNCHANGED <<stateVars, histVars>>
       \/ Reset /\ UNCHANGED pc
    /\ UNCHANGED <<chainVars, noObjectsFor, fulfilled, connected, chain, listed, due,
                   target, said, todo>>

-----------------------------------------------------------------------------
(* ProcessTick.                                                              *)

Begin ==
    /\ pc["pool"] = "idle" /\ due
    /\ \/ /\ asset = "finished" /\ listed
          /\ Done /\ UNCHANGED <<stateVars, histVars>>
       \/ /\ asset = "finished" /\ ~listed
          /\ Reset /\ Goes("pool", "ask") /\ UNCHANGED due
       \/ /\ asset = "failed"
          /\ IF sinceFailure > Cooldown THEN Reset ELSE UNCHANGED <<stateVars, histVars>>
          /\ Done
       \/ /\ asset \notin {"failed", "finished"}
          /\ Goes("pool", "ask") /\ UNCHANGED <<stateVars, histVars, due>>
    /\ UNCHANGED <<chainVars, noObjectsFor, fulfilled, connected, chain, listed, events,
                   target, said, todo>>

AsksChain ==
    /\ pc["pool"] \in {"ask", "ask again"}
    /\ \E answer \in BOOLEAN : IsBlockchainSynced(FALSE, answer) /\ said' = answer
    /\ Goes("pool", IF pc["pool"] = "ask" THEN "gate" ELSE "gate again")
    /\ UNCHANGED <<noObjectsFor, fulfilled, envVars, target, todo>>

\* Fault: it waits for the chain that is there.
WaitsAnyway == asset \in AfterSporks
WaitsForChain == ~said /\ asset \in AfterSporks
Gate ==
    /\ \/ /\ pc["pool"] = "gate" /\ WaitsForChain
          /\ quiet' = 0 /\ Done
       \/ /\ pc["pool"] = "gate" /\ ~WaitsForChain
          /\ Goes("pool", CASE asset = "initial" -> "switch" [] asset = "sporks" -> "ask again"
                            [] OTHER -> "copy")
          /\ UNCHANGED <<quiet, due>>
       \/ /\ pc["pool"] = "gate again"
          /\ Goes("pool", IF said THEN "switch" ELSE "copy")
          /\ UNCHANGED <<quiet, due>>
    /\ UNCHANGED <<asset, attempt, sinceFailure, chainVars, noObjectsFor, fulfilled, connected,
                   chain, listed, events, target, said, todo, histVars>>

CopyNodeVector ==
    /\ pc["pool"] = "copy"
    /\ todo' = connected
    /\ Goes("pool", "loop")
    /\ UNCHANGED <<stateVars, chainVars, noObjectsFor, fulfilled, envVars, target, said, histVars>>

AllAsked ==
    /\ pc["pool"] = "loop" /\ todo = {}
    /\ Done
    /\ UNCHANGED <<stateVars, chainVars, noObjectsFor, fulfilled, connected, chain, listed,
                   events, target, said, todo, histVars>>

\* One turn of the loop over the peers, up to the stages.
Turn(p) == pc["pool"] = "loop" /\ p \in todo
Ready(p) == Turn(p) /\ "full" \notin fulfilled[p] /\ "sporks" \in fulfilled[p]
SkipPeer(p) ==
    /\ Turn(p) /\ todo' = todo \ {p}
    /\ \/ /\ "full" \in fulfilled[p]
          /\ connected' = connected \ {p} /\ UNCHANGED fulfilled
       \/ /\ "full" \notin fulfilled[p] /\ "sporks" \notin fulfilled[p]
          /\ fulfilled' = [fulfilled EXCEPT ![p] = @ \cup {"sporks"}] /\ UNCHANGED connected
       \/ /\ Ready(p) /\ asset \notin Stages /\ UNCHANGED <<fulfilled, connected>>
    /\ UNCHANGED <<stateVars, chainVars, noObjectsFor, chain, listed, due, events, pc, target,
                   said, histVars>>

\* The stage has heard nothing for long enough, or the payments have enough data.
TimedOut(p) ==
    /\ Ready(p) /\ asset \in Stages
    /\ \/ quiet > Timeout
       \/ asset = "payments" /\ attempt > 1
    /\ Goes("pool", IF quiet > Timeout /\ attempt = 0 /\ asset # "governance"
                    THEN "fail" ELSE "switch and return")
    /\ UNCHANGED <<stateVars, chainVars, noObjectsFor, fulfilled, envVars, target, said, todo,
                   histVars>>
\* Fault: the return after Fail is missing.
FailAndGoOn == Goes("pool", "switch and return") /\ UNCHANGED due
FailAndReturn == Done
Fail ==
    /\ pc["pool"] = "fail"
    /\ asset' = "failed" /\ sinceFailure' = 0
    /\ FailAndReturn
    /\ UNCHANGED <<attempt, quiet, chainVars, noObjectsFor, fulfilled, connected, chain, listed,
                   events, target, said, todo, histVars>>

\* A peer is asked once for each stage.
Request(p) ==
    /\ Ready(p) /\ asset \in Stages /\ quiet <= Timeout /\ asset \notin fulfilled[p]
    /\ fulfilled' = [fulfilled EXCEPT ![p] = @ \cup {asset}]
    /\ attempt' = IF attempt = 2 THEN 2 ELSE attempt + 1
    /\ asked' = asked \cup {asset}
    /\ Done
    /\ UNCHANGED <<asset, quiet, sinceFailure, chainVars, noObjectsFor, connected, chain, listed,
                   events, target, said, todo, skipped>>

\* A peer that was asked already; in the governance stage it is asked for votes, and the
\* stage ends when nothing is left to ask, no peer sent much, and that for long enough.
AskedAlready(p) ==
    /\ Ready(p) /\ asset \in Stages /\ quiet <= Timeout /\ asset \in fulfilled[p]
    /\ \/ UNCHANGED noObjectsFor /\ todo' = todo \ {p} /\ UNCHANGED pc
       \/ /\ asset = "governance"
          /\ noObjectsFor' = IF noObjectsFor = Never THEN 0 ELSE noObjectsFor
          /\ todo' = todo \ {p} /\ UNCHANGED pc
       \/ /\ asset = "governance" /\ noObjectsFor > Timeout
          /\ noObjectsFor' = Never
          /\ Goes("pool", "switch and return") /\ UNCHANGED todo
    /\ UNCHANGED <<stateVars, chainVars, fulfilled, envVars, target, said, histVars>>

ProcessTick ==
    \/ Begin \/ AsksChain \/ Gate \/ ReadAsset("pool") \/ WriteAsset("pool")
    \/ CopyNodeVector \/ AllAsked \/ Fail
    \/ \E p \in Peers : SkipPeer(p) \/ TimedOut(p) \/ Request(p) \/ AskedAlready(p)
SwitchCommand == ReadAsset("rpc") \/ WriteAsset("rpc")

-----------------------------------------------------------------------------
(* The world: time, peers, the chain, and a machine that sleeps.             *)

Tick ==
    /\ pc["pool"] = "idle" /\ ~due /\ due' = TRUE
    /\ quiet' = Older(quiet, Timeout)
    /\ sinceFailure' = Older(sinceFailure, Cooldown)
    /\ sinceProcess' = IF sinceProcess = 0 THEN 1 ELSE sinceProcess
    /\ noObjectsFor' = IF noObjectsFor = Never THEN Never ELSE Older(noObjectsFor, Timeout)
    /\ UNCHANGED <<asset, attempt, fBlockchainSynced, fFirstBlockAccepted, fulfilled, connected,
                   chain, listed, events, threadVars, histVars>>

Sleep ==
    /\ Disturbed
    /\ quiet' = Timeout + 1 /\ sinceFailure' = Cooldown + 1 /\ sinceProcess' = Hour
    /\ noObjectsFor' = IF noObjectsFor = Never THEN Never ELSE Timeout + 1
    /\ fulfilled' = [p \in Peers |-> {}]
    /\ UNCHANGED <<asset, attempt, fBlockchainSynced, fFirstBlockAccepted, connected, chain,
                   listed, due, threadVars, histVars>>

Connect(p) ==
    /\ p \notin connected /\ connected' = connected \cup {p}
    /\ UNCHANGED <<stateVars, chainVars, noObjectsFor, fulfilled, chain, listed, due, events,
                   threadVars, histVars>>

Disturb ==
    /\ Disturbed
    /\ \/ \E p \in connected : connected' = connected \ {p} /\ UNCHANGED <<chain, listed>>
       \/ chain' \in {"behind", "recent", "agreed"} /\ UNCHANGED <<connected, listed>>
       \/ listed' = FALSE /\ UNCHANGED <<connected, chain>>
    /\ UNCHANGED <<stateVars, chainVars, noObjectsFor, fulfilled, due, threadVars, histVars>>

World ==
    \/ HandlerAsks \/ BlockAccepted \/ AddedItem \/ Command \/ Sleep \/ Disturb
    \/ \E p \in Peers : Connect(p) \/ \E r \in Requests : Expire(p, r)
Next == ProcessTick \/ SwitchCommand \/ World \/ Tick

\* The threads run, time passes, and a peer that was cut off comes back or another one in
\* its place.  What is fulfilled expires; that of the other requests changes nothing.
Decisive == {"list", "payments", "full"}
Fairness ==
    /\ WF_vars(ProcessTick) /\ WF_vars(SwitchCommand) /\ WF_vars(Tick)
    /\ \A p \in Peers : WF_vars(Connect(p)) /\ \A r \in Decisive : SF_vars(Expire(p, r))

Spec == Init /\ [][Next]_vars
FairSpec == Spec /\ Fairness

-----------------------------------------------------------------------------
StateOK ==
    /\ asset \in Assets /\ attempt \in 0 .. 2
    /\ quiet \in 0 .. Timeout + 1 /\ sinceFailure \in 0 .. Cooldown + 1
    /\ asked \subseteq Stages /\ skipped \in BOOLEAN
ChainOK ==
    /\ fBlockchainSynced \in BOOLEAN /\ fFirstBlockAccepted \in BOOLEAN
    /\ sinceProcess \in 0 .. Hour
PeersOK ==
    /\ noObjectsFor \in Never .. Timeout + 1
    /\ fulfilled \in [Peers -> SUBSET Requests]
    /\ connected \subseteq Peers /\ todo \subseteq Peers
WorldOK ==
    /\ chain \in {"behind", "recent", "agreed"} /\ listed \in BOOLEAN
    /\ due \in BOOLEAN /\ events \in 0 .. MaxEvents /\ said \in BOOLEAN
Places == {"idle", "ask", "gate", "ask again", "gate again", "switch", "switch and return",
           "write", "write and return", "copy", "loop", "fail", "dead"}
ThreadsOK ==
    /\ pc \in [Threads -> Places]
    /\ target \in [Threads -> Assets \ {"failed"}]
TypeOK == StateOK /\ ChainOK /\ PeersOK /\ WorldOK /\ ThreadsOK

\* SwitchToNextAsset throws from the failed state, and nothing catches that in the thread
\* of ProcessTick: whatever the other threads do to the state between two of its reads,
\* it is never called there in that state.
PoolNeverThrows == pc["pool"] # "dead"

\* The stages build on each other.  Unless the mnsync command or a reset got between the
\* read and the write of a switch, a stage was left only after a peer was asked for it.
AskedBeforeLeaving ==
    ~skipped => /\ asset \in {"payments", "governance", "finished"} => "list" \in asked
                /\ asset \in {"governance", "finished"} => "payments" \in asked

\* Whatever sleeps, resets, lost peers and missed locks come in the way: once the chain
\* stays agreed upon, the synchronisation finishes, after failures too.
FinishesAgain == <>[](chain = "agreed") => []<>(asset = "finished")

\* The comment at src/safenode-sync.cpp:476: nTimeNoObjectsLeft is reset to be able to use
\* the same condition on resync.
NothingLeftOver == asset = "initial" => noObjectsFor = Never
=============================================================================

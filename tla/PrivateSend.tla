----------------------------- MODULE PrivateSend -----------------------------
(***************************************************************************)
(* PrivateSend: CDarksendPool (src/darksend.cpp) on one safenode that      *)
(* collects the entries of a mixing transaction, and on the clients that   *)
(* want to mix there.  The same class is both, with one set of members and *)
(* no lock over them: the message thread and the pool thread of a node     *)
(* both write nState, nSessionID and vecEntries, and so does the thread of *)
(* the command that resets the pool of a client.                           *)
(*                                                                         *)
(* A handler is cut where it waits: for cs_main, for the wallet, for       *)
(* cs_vNodes before it relays.  The other threads run in between.  A timer *)
(* is over at any time: messages are as slow as they like.  A connection   *)
(* keeps the order of its messages, and loses them when it is closed.      *)
(*                                                                         *)
(* The peers of the safenode are clients that run this code.  A client has *)
(* one set of coins to mix and one collateral.  Denominations, amounts,    *)
(* what is charged, and statuses that only restart a timer are left out.   *)
(* A session number is random in the code and new here.                    *)
(***************************************************************************)
EXTENDS Naturals, FiniteSets, Sequences

CONSTANTS
    Clients,
    MaxUsers,           \* Params().PoolMaxTransactions()
    MaxTurns            \* bound on starts of clients, resets by users and lost connections

ASSUME CountAssumption == MaxUsers \in Nat \ {0} /\ MaxTurns \in Nat

VARIABLES
    mn,                 \* the pool of the safenode
    net, timer,         \* its message thread and its pool thread
    cl, handler, pool,  \* client -> its pool, its message thread and its pool thread
    resetting,          \* clients whose user has given the command that resets the pool
    crossed,            \* client -> what has run beside a handler of its message thread
    up,                 \* clients with a connection to the safenode
    toMn, toCl,         \* client -> messages under way
    mixed,              \* clients whose coins a committed transaction spends
    round,              \* client -> how many entries it has made
    sessions, turns     \* sessions so far, and what MaxTurns bounds

mnVars == <<mn, net, timer, sessions>>
threads == <<handler, pool, resetting, crossed>>
clVars == <<cl, threads, round>>
wires == <<up, toMn, toCl>>
vars == <<mnVars, clVars, wires, mixed, turns>>

-----------------------------------------------------------------------------
NoRound == 0
NoSession == 0
NoTx == {}

\* An entry is known by its owner, whose coins it spends, and by its round, which stands
\* for its outputs.  sig is the transaction its owner signed: the set of all outputs.
EntryId(e) == [by |-> e.by, round |-> e.round]

\* SetNull on the safenode.
NullMn == [nState |-> "IDLE", nSessionID |-> NoSession, vecSessionCollaterals |-> <<>>,
           vecEntries |-> {}, finalTransaction |-> NoTx]
\* Fault: the entries of a session outlive it.
KeepsEntries == [NullMn EXCEPT !.vecEntries = mn.vecEntries]
SetNullMn == NullMn

\* SetNull on a client; UnlockCoins is not part of it, and unlocks what is on the list.
SetNull(p) == [p EXCEPT !.nState = "IDLE", !.nSessionID = NoSession, !.submitted = FALSE,
                        !.entry = NoRound]
UnlockCoins(p) == [p EXCEPT !.locked = @ /\ ~p.listed, !.listed = FALSE]
\* Fault: what ends a session on a client leaves its coins locked.
OnlySetNull(p) == SetNull(p)
GiveUp(p) == SetNull(UnlockCoins(p))
Failed(p) == [GiveUp(p) EXCEPT !.nState = "ERROR"]

\* locked: the wallet keeps the coins; listed: they are in vecOutPointLocked.
NullClient == [nState |-> "IDLE", nSessionID |-> NoSession, submitted |-> FALSE,
               entry |-> NoRound, locked |-> FALSE, listed |-> FALSE, collateral |-> FALSE]
Idle == [at |-> "idle"]

Init ==
    /\ mn = NullMn /\ net = Idle /\ timer = "idle" /\ sessions = 0
    /\ cl = [c \in Clients |-> NullClient]
    /\ handler = [c \in Clients |-> Idle] /\ pool = [c \in Clients |-> "idle"]
    /\ resetting = {} /\ crossed = [c \in Clients |-> {}]
    /\ up = {} /\ toMn = [c \in Clients |-> <<>>] /\ toCl = [c \in Clients |-> <<>>]
    /\ mixed = {} /\ round = [c \in Clients |-> NoRound] /\ turns = 0

TakeTurn == turns < MaxTurns /\ turns' = turns + 1

-----------------------------------------------------------------------------
(* Messages.                                                                 *)

\* To one client, and to every peer: what is relayed reaches clients outside the session.
\* Fault: a message is queued for a peer that is gone.
PushAlways(wire, c, m) == [wire EXCEPT ![c] = Append(@, m)]
Push(wire, c, m) == IF c \in up THEN [wire EXCEPT ![c] = Append(@, m)] ELSE wire
Relay(wire, m) == [c \in Clients |-> IF c \in up THEN Append(wire[c], m) ELSE wire[c]]
Final(session, tx) == [type |-> "final", session |-> session, tx |-> tx]
Complete(session, success) ==
    [type |-> "complete", session |-> session, success |-> success]
\* A status carries the state and the session of the moment it is written.  Accepted, it
\* tells a client something in the state QUEUE only.
Rejected == [type |-> "rejected"]
Accepted(p) == [type |-> "accepted", session |-> p.nSessionID]
RelayAccepted(wire, p) == IF p.nState = "QUEUE" THEN Relay(wire, Accepted(p)) ELSE wire

-----------------------------------------------------------------------------
(* The safenode, its message thread.                                         *)

IsSessionReady == Len(mn.vecSessionCollaterals) >= MaxUsers

\* Where a handler still has its peer to answer.
Answering == {"create", "opened", "join", "joined", "entry", "added"}
Take(c, type) ==
    /\ net.at = "idle" /\ toMn[c] # <<>> /\ Head(toMn[c]).type = type
    /\ toMn' = [toMn EXCEPT ![c] = Tail(@)]
Reject(c) == toCl' = Push(toCl, c, Rejected)
Waits(at, c) == net' = [at |-> at, by |-> c, lost |-> FALSE]
\* The answer of a handler goes to the connection its message came from.
Answer(wire, m) == IF net.lost THEN wire ELSE Push(wire, net.by, m)
AnswerAccepted(p) == IF p.nState = "QUEUE" THEN Answer(toCl, Accepted(p)) ELSE toCl

\* DSACCEPT.  A full queue answers that it accepted.
Accept(c) ==
    /\ Take(c, "accept")
    /\ \/ /\ IsSessionReady
          /\ toCl' = IF mn.nState = "QUEUE" THEN Push(toCl, c, Accepted(mn)) ELSE toCl
          /\ UNCHANGED net
       \/ /\ ~IsSessionReady             \* not idle, its last queue too recent, not listed
          /\ Reject(c) /\ UNCHANGED net
       \/ /\ ~IsSessionReady
          /\ \/ mn.nSessionID = NoSession /\ mn.nState = "IDLE" /\ Waits("create", c)
             \/ mn.nSessionID # NoSession /\ Waits("join", c)
          /\ UNCHANGED toCl
    /\ UNCHANGED <<mn, timer, sessions, clVars, up, mixed, turns>>

\* CreateNewSession, once IsCollateralValid had cs_main.  The state was seen to be idle ...
CreateNewSession ==
    /\ net.at = "create"
    /\ \/ /\ mn' = [mn EXCEPT !.nState = "QUEUE", !.nSessionID = sessions + 1]
          /\ sessions' = sessions + 1 /\ net' = [net EXCEPT !.at = "opened"] /\ UNCHANGED toCl
       \/ toCl' = Answer(toCl, Rejected) /\ net' = Idle /\ UNCHANGED <<mn, sessions>>
    /\ UNCHANGED <<timer, clVars, up, toMn, mixed, turns>>
\* ... and the queue is relayed before the first user is put down.
AddFirstUser ==
    /\ net.at = "opened" /\ net' = [net EXCEPT !.at = "joined"]
    /\ mn' = [mn EXCEPT !.vecSessionCollaterals = Append(@, net.by)]
    /\ UNCHANGED <<timer, sessions, clVars, wires, mixed, turns>>

AddUserToExistingSession ==
    /\ net.at = "join"
    /\ \/ /\ mn.nState = "QUEUE"
          /\ mn' = [mn EXCEPT !.vecSessionCollaterals = Append(@, net.by)]
          /\ net' = [net EXCEPT !.at = "joined"] /\ UNCHANGED toCl
       \/ toCl' = Answer(toCl, Rejected) /\ net' = Idle /\ UNCHANGED mn
    /\ UNCHANGED <<timer, sessions, clVars, up, toMn, mixed, turns>>
PushStatus ==
    /\ net.at = "joined" /\ net' = Idle
    /\ toCl' = AnswerAccepted(mn)
    /\ UNCHANGED <<mn, timer, sessions, clVars, up, toMn, mixed, turns>>

\* DSVIN.  The message does not say which session it is for.
Entry(c) ==
    /\ Take(c, "entry")
    /\ IF IsSessionReady
       THEN /\ net' = [at |-> "entry", by |-> c, lost |-> FALSE, round |-> Head(toMn[c]).round]
            /\ UNCHANGED toCl
       ELSE Reject(c) /\ UNCHANGED net
    /\ UNCHANGED <<mn, timer, sessions, clVars, up, mixed, turns>>

NewEntry == [by |-> net.by, round |-> net.round, sig |-> NoTx]
IsFull(p) == Cardinality(p.vecEntries) >= MaxUsers
AlreadyHave == \E e \in mn.vecEntries : e.by = net.by
\* The transaction passed AcceptToMemoryPool: AddEntry, before the status of it.
AddEntry ==
    /\ net.at = "entry" /\ net.by \notin mixed
    /\ \/ /\ ~IsFull(mn) /\ ~AlreadyHave
          /\ mn' = [mn EXCEPT !.vecEntries = @ \cup {NewEntry}]
          /\ net' = [at |-> "added", by |-> net.by, lost |-> net.lost] /\ UNCHANGED toCl
       \/ /\ toCl' = Answer(toCl, Rejected) /\ mn' = SetNullMn  \* or its collateral is not valid
          /\ net' = Idle
    /\ UNCHANGED <<timer, sessions, clVars, up, toMn, mixed, turns>>
\* It did not: the session goes on.
RefuseEntry ==
    /\ net.at = "entry" /\ net' = Idle
    /\ toCl' = Answer(toCl, Rejected)
    /\ UNCHANGED <<mn, timer, sessions, clVars, up, toMn, mixed, turns>>

\* CheckPool of a safenode, with its pool p and told on the wires to the clients: a full
\* pool becomes the final transaction, which has to wait for cs_vNodes, and the signed one
\* is committed.  After an entry its status is left to be relayed.
IsSignaturesComplete(p) == \A e \in p.vecEntries : e.sig # NoTx
\* What the scripts of the final transaction ask for, and its coins.
Valid(p) ==
    /\ p.finalTransaction # NoTx
    /\ \A e \in p.vecEntries : e.sig = p.finalTransaction /\ e.by \notin mixed
Rest(entry) == IF entry THEN [at |-> "status"] ELSE Idle
CheckPoolMn(p, told, entry) ==
    LET tx == {EntryId(e) : e \in p.vecEntries} IN
    \/ /\ p.nState = "ACCEPTING_ENTRIES" /\ IsFull(p)           \* CreateFinalTransaction
       /\ mn' = [p EXCEPT !.finalTransaction = tx] /\ toCl' = told
       /\ net' = [at |-> "final", entry |-> entry, tx |-> tx]
       /\ UNCHANGED mixed
    \/ /\ p.nState = "SIGNING" /\ IsSignaturesComplete(p) /\ Valid(p)
       /\ mn' = p /\ toCl' = told
       /\ mixed' = mixed \cup {e.by : e \in p.vecEntries}
       /\ net' = [at |-> "commit", entry |-> entry]
    \/ /\ p.nState = "SIGNING" /\ IsSignaturesComplete(p)      \* not valid, or cs_main is taken
       /\ mn' = SetNullMn /\ toCl' = Relay(told, Complete(SetNullMn.nSessionID, FALSE))
       /\ net' = Rest(entry) /\ UNCHANGED mixed
    \/ /\ p.nState = "ACCEPTING_ENTRIES" => ~IsFull(p)
       /\ p.nState = "SIGNING" => ~IsSignaturesComplete(p)
       /\ mn' = p /\ toCl' = told
       /\ net' = Rest(entry) /\ UNCHANGED mixed

AnswerEntry ==
    /\ net.at = "added" /\ CheckPoolMn(mn, AnswerAccepted(mn), TRUE)
    /\ UNCHANGED <<timer, sessions, clVars, up, toMn, turns>>
\* The transaction is what it was; the session is read when it is relayed, and the state
\* changes after that.
RelayFinalTransaction ==
    /\ net.at = "final" /\ net' = Rest(net.entry)
    /\ toCl' = Relay(toCl, Final(mn.nSessionID, net.tx))
    /\ mn' = [mn EXCEPT !.nState = "SIGNING"]
    /\ UNCHANGED <<timer, sessions, clVars, up, toMn, mixed, turns>>
RelayStatus ==
    /\ net.at = "status" /\ net' = Idle
    /\ toCl' = RelayAccepted(toCl, mn)
    /\ UNCHANGED <<mn, timer, sessions, clVars, up, toMn, mixed, turns>>
RelayCompletedTransaction ==
    /\ net.at = "commit" /\ net' = [net EXCEPT !.at = "fees"]
    /\ toCl' = Relay(toCl, Complete(mn.nSessionID, TRUE))
    /\ UNCHANGED <<mn, timer, sessions, clVars, up, toMn, mixed, turns>>
ChargeRandomFees ==
    /\ net.at = "fees" /\ net' = Rest(net.entry)
    /\ mn' = SetNullMn
    /\ UNCHANGED <<timer, sessions, clVars, wires, mixed, turns>>

\* DSSIGNFINALTX.  AddScriptSig takes any signature for an input in the pool: VerifyScript
\* gets the script prevPubKey, which is not sent and is empty here.  A second one for an
\* input is refused, but only after it went into the final transaction.
Signable(c) == {e \in mn.vecEntries : e.by = c /\ e.sig = NoTx}
AddScriptSig(c, tx) ==
    [mn EXCEPT !.vecEntries = {IF e.by = c THEN [e EXCEPT !.sig = tx] ELSE e : e \in @}]
Signature(c) ==
    /\ Take(c, "sign")
    /\ LET p == AddScriptSig(c, Head(toMn[c]).tx) IN
       \/ /\ Signable(c) = {}
          /\ mn' = p /\ toCl' = Relay(toCl, Rejected)     \* RelayStatus, to all
          /\ UNCHANGED <<net, mixed>>
       \/ Signable(c) # {} /\ CheckPoolMn(p, toCl, FALSE)
    /\ UNCHANGED <<timer, sessions, clVars, up, turns>>

-----------------------------------------------------------------------------
(* The safenode, its pool thread.                                            *)

Offenders ==
    CASE mn.nState = "ACCEPTING_ENTRIES" ->
           {i \in DOMAIN mn.vecSessionCollaterals :
               \A e \in mn.vecEntries : e.by # mn.vecSessionCollaterals[i]}
      [] mn.nState = "SIGNING" -> {e \in mn.vecEntries : e.sig = NoTx}
      [] OTHER -> {}
\* ChargeFees has somebody to charge, and waits for cs_main.
Charges == Cardinality(Offenders) \in 1 .. MaxUsers - 1
\* A new block calls it too, in whatever thread connects the block.
CheckTimeout ==
    /\ mn.nState # "IDLE"
    /\ \/ timer = "idle" /\ Charges /\ timer' = "charging" /\ UNCHANGED mn
       \/ mn' = SetNullMn /\ UNCHANGED timer
    /\ UNCHANGED <<net, sessions, clVars, wires, mixed, turns>>
EndCharge ==
    /\ timer = "charging" /\ timer' = "idle"
    /\ mn' = SetNullMn
    /\ UNCHANGED <<net, sessions, clVars, wires, mixed, turns>>
\* The queue is relayed when there is cs_vNodes, and names no session.
CheckForCompleteQueue ==
    /\ timer = "idle" /\ mn.nState = "QUEUE" /\ IsSessionReady
    /\ mn' = [mn EXCEPT !.nState = "ACCEPTING_ENTRIES"]
    /\ timer' = "ready"
    /\ UNCHANGED <<net, sessions, clVars, wires, mixed, turns>>
RelayQueue ==
    /\ timer = "ready" /\ timer' = "idle"
    /\ toCl' = Relay(toCl, [type |-> "ready"])
    /\ UNCHANGED <<mn, net, sessions, clVars, up, toMn, mixed, turns>>

-----------------------------------------------------------------------------
(* A client, its message thread.  What does not come from the safenode it has  *)
(* submitted to is ignored.                                                    *)

\* A handler that waits, and what other threads do to the pool meanwhile.
Beside(c) ==
    (IF pool[c] \in {"timeout", "error"} THEN {"timeout"} ELSE {})
    \cup (IF c \in resetting THEN {"reset"} ELSE {})
Begin(c, h) ==
    /\ handler' = [handler EXCEPT ![c] = h]
    /\ crossed' = [crossed EXCEPT ![c] = @ \cup Beside(c)]
    /\ UNCHANGED <<pool, resetting>>
Continue(c, h) == handler' = [handler EXCEPT ![c] = h] /\ UNCHANGED <<pool, resetting, crossed>>
Cross(c, what) ==
    crossed' = IF handler[c] = Idle THEN crossed ELSE [crossed EXCEPT ![c] = @ \cup {what}]

\* The end of a session, when no handler waits: what it crossed is over with it, unless
\* coins are left locked.
Settle(c) ==
    crossed' = [crossed EXCEPT ![c] = IF handler'[c] = Idle /\ ~cl'[c].locked THEN {} ELSE @]

Hears(c, type) ==
    /\ handler[c] = Idle /\ toCl[c] # <<>> /\ Head(toCl[c]).type = type
    /\ toCl' = [toCl EXCEPT ![c] = Tail(@)]
    /\ UNCHANGED <<mnVars, round, up, toMn, mixed, turns>>
Busy(c) == cl[c].nState \notin {"IDLE", "ERROR"}
At(c, at) ==
    handler[c].at = at /\ UNCHANGED <<mnVars, up, toCl, mixed, turns>>

\* UnlockCoins waits for the wallet: a handler that ends the session, in IDLE or in ERROR.
EndSession(c) ==
    /\ \/ At(c, "quitting") /\ cl' = [cl EXCEPT ![c] = GiveUp(@)]
       \/ At(c, "failing") /\ cl' = [cl EXCEPT ![c] = Failed(@)]
    /\ handler' = [handler EXCEPT ![c] = Idle] /\ Settle(c)
    /\ UNCHANGED <<pool, resetting, round, toMn>>

\* DSQUEUE with fReady.  It is lost when the pool thread has cs_darksend.
HearReady(c) ==
    /\ Hears(c, "ready")
    /\ \/ cl[c].submitted /\ cl[c].nState = "QUEUE" /\ Begin(c, [at |-> "prepare"])
       \/ UNCHANGED threads
    /\ UNCHANGED cl

\* SubmitDenominate: PrepareDenominate locks the coins in the wallet ...
PrepareDenominate(c) ==
    /\ At(c, "prepare")
    /\ \/ /\ cl[c].entry = NoRound
          /\ cl' = [cl EXCEPT ![c].locked = TRUE] /\ Continue(c, [at |-> "prepared"])
       \/ UNCHANGED cl /\ Continue(c, Idle)              \* no coins, or an entry is pending
    /\ UNCHANGED <<round, toMn>>
\* ... which are put on the list by SendDenominate, unless there is no collateral ...
SendDenominate(c) ==
    /\ At(c, "prepared")
    /\ \/ ~cl[c].collateral /\ UNCHANGED cl /\ Continue(c, Idle)
       \/ /\ cl[c].collateral /\ cl[c].nSessionID = NoSession
          /\ cl' = [cl EXCEPT ![c].listed = TRUE] /\ Continue(c, [at |-> "quitting"])
       \/ /\ cl[c].collateral /\ cl[c].nSessionID # NoSession
          /\ cl' = [cl EXCEPT ![c].listed = TRUE, ![c].nState = "ACCEPTING_ENTRIES"]
          /\ Continue(c, [at |-> "check"])
    /\ UNCHANGED <<round, toMn>>
\* ... and the entry is kept and sent, when it was checked, which only tries for cs_main.
KeepEntry(c) ==
    /\ At(c, "check")
    /\ \/ UNCHANGED <<cl, round>> /\ Continue(c, [at |-> "quitting"])
       \/ /\ c \notin mixed
          /\ round' = [round EXCEPT ![c] = @ + 1] /\ cl' = [cl EXCEPT ![c].entry = round'[c]]
          /\ Continue(c, IF cl[c].submitted THEN [at |-> "relay", round |-> round'[c]] ELSE Idle)
    /\ UNCHANGED toMn
RelayIn(c) ==
    /\ At(c, "relay") /\ Continue(c, Idle)
    /\ toMn' = Push(toMn, c, [type |-> "entry", round |-> handler[c].round])
    /\ UNCHANGED <<cl, round>>

\* DSSTATUSUPDATE: CheckPoolStateUpdate.
HearRejected(c) ==
    /\ Hears(c, "rejected")
    /\ IF cl[c].submitted /\ Busy(c) THEN Begin(c, [at |-> "failing"]) ELSE UNCHANGED threads
    /\ UNCHANGED cl
HearAccepted(c) ==
    /\ Hears(c, "accepted")
    /\ cl' = [cl EXCEPT ![c].nSessionID =
                IF cl[c].submitted /\ cl[c].nState = "QUEUE" /\ @ = NoSession
                THEN Head(toCl[c]).session ELSE @]
    /\ UNCHANGED threads

\* DSFINALTX: SignFinalTransaction looks for its entry, and signs.  What it has signed goes
\* to the connection that brought the transaction.
Mine(c) == [by |-> c, round |-> cl[c].entry]
Heeds(c, m) == cl[c].submitted /\ cl[c].nSessionID = m.session
HearFinal(c) ==
    LET m == Head(toCl[c]) IN
    /\ Hears(c, "final")
    /\ \/ ~Heeds(c, m) /\ UNCHANGED threads
       \/ /\ Heeds(c, m) /\ cl[c].entry # NoRound /\ Mine(c) \in m.tx
          /\ Begin(c, [at |-> "sign", tx |-> m.tx, lost |-> FALSE])
       \/ /\ Heeds(c, m) /\ ~(cl[c].entry # NoRound /\ Mine(c) \in m.tx)
          /\ Begin(c, [at |-> "quitting"])                               \* refuses
    /\ UNCHANGED cl
PushSignature(c) ==
    /\ At(c, "sign") /\ Continue(c, Idle)
    /\ toMn' = IF handler[c].lost THEN toMn
               ELSE Push(toMn, c, [type |-> "sign", tx |-> handler[c].tx])
    /\ cl' = [cl EXCEPT ![c].nState = "SIGNING"]
    /\ UNCHANGED round

\* DSCOMPLETE: CompletedTransaction.
HearComplete(c) ==
    /\ Hears(c, "complete")
    /\ IF Heeds(c, Head(toCl[c])) THEN Begin(c, [at |-> "quitting"]) ELSE UNCHANGED threads
    /\ UNCHANGED cl

-----------------------------------------------------------------------------
(* A client, its pool thread and its user.  A new block has the timeout checked *)
(* too; it is taken for the pool thread, which is then not at work itself.      *)

PoolGoes(c, from, to) ==
    /\ pool[c] = from /\ pool' = [pool EXCEPT ![c] = to]
    /\ UNCHANGED <<mnVars, handler, resetting, round, toCl, mixed>>

\* DoAutomaticDenominating: what is left from the last session is ended first ...
DoAutomaticDenominating(c) ==
    /\ PoolGoes(c, "idle", "start")
    /\ cl[c].nState = "IDLE" /\ cl[c].entry = NoRound /\ cl[c].nSessionID = NoSession
    /\ c \notin mixed /\ TakeTurn
    /\ UNCHANGED <<cl, crossed, up, toMn>>
\* ... then there is a collateral and a connection to the safenode ...
ConnectNode(c) ==
    /\ PoolGoes(c, "start", "connected")
    /\ cl' = [cl EXCEPT ![c] = [GiveUp(@) EXCEPT !.submitted = TRUE, !.collateral = TRUE]]
    /\ up' = up \cup {c}
    /\ Settle(c)
    /\ UNCHANGED <<toMn, turns>>
\* ... and the client asks to join.
AskToJoin(c) ==
    /\ PoolGoes(c, "connected", "idle")
    /\ cl' = [cl EXCEPT ![c].nState = "QUEUE"]
    /\ toMn' = Push(toMn, c, [type |-> "accept"])
    /\ UNCHANGED <<crossed, up, turns>>

\* CheckTimeout of a client, and CheckPool for one that failed ten seconds ago.  Both wait
\* for the wallet before they end the session.
ClientTimeout(c) ==
    /\ Busy(c) /\ PoolGoes(c, "idle", "timeout") /\ Cross(c, "timeout")
    /\ UNCHANGED <<cl, up, toMn, turns>>
CheckPool(c) ==
    /\ cl[c].nState = "ERROR" /\ PoolGoes(c, "idle", "error") /\ Cross(c, "timeout")
    /\ UNCHANGED <<cl, up, toMn, turns>>
EndTimeout(c) ==
    /\ \/ PoolGoes(c, "timeout", "idle") /\ cl' = [cl EXCEPT ![c] = Failed(@)]
       \/ PoolGoes(c, "error", "idle") /\ cl' = [cl EXCEPT ![c] = GiveUp(@)]
    /\ Settle(c)
    /\ UNCHANGED <<up, toMn, turns>>

\* The command "privatesend reset" forgets the collateral and then waits for the wallet.
ResetPool(c) ==
    /\ TakeTurn /\ c \notin resetting
    /\ resetting' = resetting \cup {c} /\ Cross(c, "reset")
    /\ cl' = [cl EXCEPT ![c].collateral = FALSE]
    /\ UNCHANGED <<mnVars, handler, pool, round, wires, mixed>>
EndReset(c) ==
    /\ c \in resetting /\ resetting' = resetting \ {c}
    /\ cl' = [cl EXCEPT ![c] = GiveUp(@)]
    /\ UNCHANGED <<mnVars, handler, pool, round, wires, mixed, turns>>
    /\ Settle(c)

\* ProcessSafenodeConnections closes a connection that is not in use; one that is may fail.
Disconnect(c) ==
    /\ c \in up /\ up' = up \ {c}
    /\ \/ ~cl[c].submitted /\ UNCHANGED turns
       \/ cl[c].submitted /\ TakeTurn
    /\ toMn' = [toMn EXCEPT ![c] = <<>>] /\ toCl' = [toCl EXCEPT ![c] = <<>>]
    /\ net' = IF net.at \in Answering /\ net.by = c THEN [net EXCEPT !.lost = TRUE] ELSE net
    /\ handler' = IF handler[c].at = "sign" THEN [handler EXCEPT ![c].lost = TRUE] ELSE handler
    /\ UNCHANGED <<mn, timer, sessions, cl, pool, resetting, crossed, round, mixed>>

Next ==
    \/ \E c \in Clients :
          \/ Accept(c) \/ Entry(c) \/ Signature(c)
          \/ HearReady(c) \/ HearRejected(c) \/ HearAccepted(c) \/ HearFinal(c)
          \/ HearComplete(c) \/ EndSession(c)
          \/ PrepareDenominate(c) \/ SendDenominate(c) \/ KeepEntry(c) \/ RelayIn(c)
          \/ PushSignature(c)
          \/ DoAutomaticDenominating(c) \/ ConnectNode(c) \/ AskToJoin(c)
          \/ ClientTimeout(c) \/ CheckPool(c) \/ EndTimeout(c)
          \/ ResetPool(c) \/ EndReset(c) \/ Disconnect(c)
    \/ CreateNewSession \/ AddFirstUser \/ AddUserToExistingSession \/ PushStatus
    \/ AddEntry \/ RefuseEntry \/ AnswerEntry \/ RelayFinalTransaction \/ RelayStatus
    \/ RelayCompletedTransaction \/ ChargeRandomFees
    \/ CheckTimeout \/ EndCharge \/ CheckForCompleteQueue \/ RelayQueue

Spec == Init /\ [][Next]_vars

-----------------------------------------------------------------------------
States == {"IDLE", "QUEUE", "ACCEPTING_ENTRIES", "SIGNING", "ERROR"}
EntryIds == [by : Clients, round : Nat]
Entries == [by : Clients, round : Nat, sig : SUBSET EntryIds]
Pools == [nState : States, nSessionID : Nat, submitted : BOOLEAN, entry : Nat,
          locked : BOOLEAN, listed : BOOLEAN, collateral : BOOLEAN]
Handlings ==
    {Idle, [at |-> "status"]}
    \cup [at : Answering \ {"entry"}, by : Clients, lost : BOOLEAN]
    \cup [at : {"entry"}, by : Clients, lost : BOOLEAN, round : Nat]
    \cup [at : {"commit", "fees"}, entry : BOOLEAN]
    \cup [at : {"final"}, entry : BOOLEAN, tx : SUBSET EntryIds]
Handlers ==
    {Idle} \cup [at : {"prepare", "prepared", "check", "quitting", "failing"}]
    \cup [at : {"relay"}, round : Nat]
    \cup [at : {"sign"}, tx : SUBSET EntryIds, lost : BOOLEAN]
ToMn == [type : {"accept"}] \cup [type : {"entry"}, round : Nat]
        \cup [type : {"sign"}, tx : SUBSET EntryIds]
ToCl == [type : {"rejected", "ready"}]
        \cup [type : {"accepted"}, session : Nat]
        \cup [type : {"final"}, session : Nat, tx : SUBSET EntryIds]
        \cup [type : {"complete"}, session : Nat, success : BOOLEAN]
MnOK ==
    /\ mn \in [nState : States \ {"ERROR"}, nSessionID : 0 .. sessions,
              vecSessionCollaterals : Seq(Clients), vecEntries : SUBSET Entries,
              finalTransaction : SUBSET EntryIds]
    /\ net \in Handlings /\ timer \in {"idle", "charging", "ready"} /\ sessions \in Nat
ClOK ==
    /\ cl \in [Clients -> Pools] /\ handler \in [Clients -> Handlers]
    /\ pool \in [Clients -> {"idle", "start", "connected", "timeout", "error"}]
    /\ resetting \subseteq Clients /\ crossed \in [Clients -> SUBSET {"timeout", "reset"}]
    /\ round \in [Clients -> Nat]
WiresOK ==
    /\ up \subseteq Clients
    /\ toMn \in [Clients -> Seq(ToMn)] /\ toCl \in [Clients -> Seq(ToCl)]
    /\ \A c \in Clients : c \in up \/ toMn[c] = <<>>
TypeOK == MnOK /\ ClOK /\ WiresOK /\ mixed \subseteq Clients /\ turns \in 0 .. MaxTurns

\* The safenode puts whatever signature it gets for an input into the transaction: only
\* AcceptToMemoryPool would find one that was made for another session.  Among clients that
\* run this code none is: while it waits for signatures the transaction is the one of the
\* entries in the pool, as many as it needs, and what is in the pool is signed for it, though
\* sessions end while handlers wait and entries and signatures do not say what they are for.
\* If the session ends while the transaction is relayed, the pool waits for signatures with
\* nothing in it, and there is no session to get into.
SignaturesFit ==
    /\ mn.nState = "SIGNING" =>
          \/ /\ mn.finalTransaction = {EntryId(e) : e \in mn.vecEntries}
             /\ Cardinality(mn.vecEntries) = MaxUsers
          \/ mn = [NullMn EXCEPT !.nState = "SIGNING"]
    /\ \A e \in mn.vecEntries : e.sig # NoTx => e.sig = mn.finalTransaction

\* The coins of a client are locked as long as it may be asked to sign for them, so that
\* the wallet does not spend what was promised, and no longer ("Unlock coins after mixing
\* fails or succeeds", src/darksend.cpp:481); and an idle client can start again.  That is
\* so until another thread ends a session under a handler of the message thread, which then
\* goes on as if nothing was: it may leave coins locked in an idle pool, or free ones in
\* SIGNING.  A timeout does not lose coins even so, what is locked is on the list and the
\* next end of a session frees it; the command that resets the pool may.
Promising == {"ACCEPTING_ENTRIES", "SIGNING"}
LocksFollowPromises ==
    \A c \in Clients : handler[c] = Idle =>
        /\ "reset" \notin crossed[c] => (cl[c].locked => cl[c].listed)
        /\ crossed[c] = {} => /\ cl[c].locked <=> cl[c].nState \in Promising
                              /\ cl[c].nState = "IDLE" => cl[c].entry = NoRound

\* What a client sends is "kept by the Safenode until the transaction is either complete
\* or fails" (src/darksend.cpp:674).
NothingOutlivesSession == mn.nState = "IDLE" => mn.vecEntries = {}
=============================================================================

----------------------------- MODULE CheckQueue -----------------------------
(***************************************************************************)
(* CCheckQueue and CCheckQueueControl (checkqueue.h): the pool of script   *)
(* verification threads, the master thread that connects a block, one      *)
(* mutex, and the two condition variables condWorker and condMaster.       *)
(*                                                                         *)
(* Every critical section of Loop, from the point where the mutex is       *)
(* acquired to the point where it is released (end of the block or         *)
(* cond.wait), is one action.  The checks of a batch run outside the mutex *)
(* on thread-local data, so running them is folded into the critical       *)
(* section that reports their result.                                      *)
(*                                                                         *)
(* The queue is a set: its order decides nothing but which thread runs     *)
(* which check, and every choice is allowed here.                          *)
(***************************************************************************)
EXTENDS Integers, FiniteSets

CONSTANTS Workers,     \* the threads running ThreadScriptCheck
          Master,      \* the thread that connects blocks
          Checks,      \* the verifications one block can contain
          nBatchSize   \* the most checks a thread takes at once

ASSUME CheckQueueAssumption ==
  /\ IsFiniteSet(Workers)
  /\ IsFiniteSet(Checks)
  /\ Master \notin Workers
  /\ nBatchSize \in Nat \ {0}

VARIABLES
  queue,     \* checks no thread has taken yet
  nIdle, nTotal, nTodo, fAllOk,   \* the fields of CCheckQueue
  pc,        \* where each thread is, see Place
  batch,     \* vChecks of each thread
  fOk,       \* the local fOk of each thread
  open,      \* a CCheckQueueControl is alive
  added,     \* the checks passed to Add since it was constructed
  bad,       \* the checks of this block that evaluate to false
  verdict    \* what the last Wait returned

queueVars == <<queue, nIdle, nTotal, nTodo, fAllOk, pc, batch, fOk,
               open, added, bad, verdict>>

Threads == Workers \cup {Master}

\* "out": not in Loop; "enter": in Loop, about to lock for the first time;
\* "wait": blocked in cond.wait; "notified": woken, about to re-lock;
\* "run": working on its batch; "gone": left cond.wait by an interruption.
Place == {"out", "enter", "wait", "notified", "run", "gone"}

-----------------------------------------------------------------------------
Max2(a, b) == IF a >= b THEN a ELSE b
Min2(a, b) == IF a <= b THEN a ELSE b

\* How many checks a thread takes, given the counters it sees.
BatchSize(size, total, idle) ==
  Max2(1, Min2(nBatchSize, size \div (total + idle + 1)))

\* notify_one / notify_all on condWorker: some, or all, waiting workers.
Waiting(where) == {w \in Workers : where[w] = "wait"}
Woken(S) == [t \in Threads |-> IF t \in S THEN "notified" ELSE pc[t]]

\* Loop returns to its caller.  fQuit is never set, so only the master leaves.
\* Fault: the master leaves as soon as the queue is empty.
MayLeaveEarly(t, todo) == t = Master
MayLeave(t, todo) == t = Master /\ todo = 0

\* fAllOk &= fOk, where checks run only while fOk holds.
BatchOk(t) == fOk[t] /\ batch[t] \cap bad = {}
\* Fault: the last batch to report decides alone.
MergedLast(t) == BatchOk(t)
Merged(t) == fAllOk /\ BatchOk(t)

\* A worker that finishes the last outstanding check wakes the master.
\* Fault: it does not.
WakesMasterNever(t, todo) == FALSE
WakesMaster(t, todo) == todo = 0 /\ t # Master /\ pc[Master] = "wait"

\* nIdle-- after cond.wait.
\* Fault: the idle count is not taken back.
IdleKept == nIdle
IdleAfterWait == nIdle - 1

\* The rest of the critical section once the clean-up is done: where, total,
\* idle, todo and allOk are the values the clean-up left.
Leave(t, where, total, idle, todo, allOk) ==
  /\ queue = {}
  /\ MayLeave(t, todo)
  /\ pc' = [where EXCEPT ![t] = "out"]
  /\ nTotal' = total - 1
  /\ nIdle' = idle
  /\ nTodo' = todo
  /\ verdict' = allOk
  /\ fAllOk' = TRUE
  /\ batch' = [batch EXCEPT ![t] = {}]
  /\ open' = FALSE
  /\ added' = {}
  /\ UNCHANGED <<queue, fOk, bad>>

Sleep(t, where, total, idle, todo, allOk) ==
  /\ queue = {}
  /\ ~MayLeave(t, todo)
  /\ pc' = [where EXCEPT ![t] = "wait"]
  /\ nTotal' = total
  /\ nIdle' = idle + 1
  /\ nTodo' = todo
  /\ fAllOk' = allOk
  /\ batch' = [batch EXCEPT ![t] = {}]
  /\ UNCHANGED <<queue, fOk, open, added, bad, verdict>>

Take(t, where, total, idle, todo, allOk) ==
  /\ queue # {}
  /\ \E S \in SUBSET queue :
       /\ Cardinality(S) = BatchSize(Cardinality(queue), total, idle)
       /\ queue' = queue \ S
       /\ batch' = [batch EXCEPT ![t] = S]
  /\ pc' = [where EXCEPT ![t] = "run"]
  /\ nTotal' = total
  /\ nIdle' = idle
  /\ nTodo' = todo
  /\ fAllOk' = allOk
  /\ fOk' = [fOk EXCEPT ![t] = allOk]
  /\ UNCHANGED <<open, added, bad, verdict>>

Continue(t, where, total, idle, todo, allOk) ==
  \/ Leave(t, where, total, idle, todo, allOk)
  \/ Sleep(t, where, total, idle, todo, allOk)
  \/ Take(t, where, total, idle, todo, allOk)

-----------------------------------------------------------------------------
\* A worker thread is created and calls Thread().
StartWorker(w) ==
  /\ pc[w] = "out"
  /\ pc' = [pc EXCEPT ![w] = "enter"]
  /\ UNCHANGED <<queue, nIdle, nTotal, nTodo, fAllOk, batch, fOk,
                 open, added, bad, verdict>>

\* First iteration of Loop: nNow is 0, the thread counts itself.
Enter(t) ==
  /\ pc[t] = "enter"
  /\ Continue(t, pc, nTotal + 1, nIdle, nTodo, fAllOk)

\* cond.wait returns: the thread was notified, or the wake-up is spurious.
Wake(t) ==
  /\ pc[t] \in {"wait", "notified"}
  /\ Continue(t, pc, nTotal, IdleAfterWait, nTodo, fAllOk)

\* The batch is done: report it, wake the master after the last check.
Report(t) ==
  /\ pc[t] = "run"
  /\ LET todo  == nTodo - Cardinality(batch[t])
         where == IF WakesMaster(t, todo)
                    THEN [pc EXCEPT ![Master] = "notified"] ELSE pc
     IN  Continue(t, where, nTotal, nIdle, todo, Merged(t))

\* threadGroup.interrupt_all at shutdown: cond.wait throws out of Loop, after
\* nIdle++ and without the matching nIdle-- and nTotal--.
Interrupt(w) ==
  /\ pc[w] \in {"wait", "notified"}
  /\ pc' = [pc EXCEPT ![w] = "gone"]
  /\ UNCHANGED <<queue, nIdle, nTotal, nTodo, fAllOk, batch, fOk,
                 open, added, bad, verdict>>

-----------------------------------------------------------------------------
IsIdle == nTotal = nIdle /\ nTodo = 0 /\ fAllOk

\* ConnectBlock constructs a CCheckQueueControl on the queue; the block's
\* failing checks are whatever they are.
Construct ==
  /\ ~open
  /\ open' = TRUE
  /\ bad' \in SUBSET Checks
  /\ UNCHANGED <<queue, nIdle, nTotal, nTodo, fAllOk, pc, batch, fOk,
                 added, verdict>>

\* Add: the checks of one transaction.
Add(S) ==
  /\ open
  /\ pc[Master] = "out"
  /\ S # {}
  /\ queue' = queue \cup S
  /\ nTodo' = nTodo + Cardinality(S)
  /\ added' = added \cup S
  /\ \/ /\ Cardinality(S) = 1
        /\ Waiting(pc) # {}
        /\ \E w \in Waiting(pc) : pc' = Woken({w})
     \/ /\ Cardinality(S) = 1
        /\ Waiting(pc) = {}
        /\ UNCHANGED pc
     \/ /\ Cardinality(S) > 1
        /\ pc' = Woken(Waiting(pc))
  /\ UNCHANGED <<nIdle, nTotal, fAllOk, batch, fOk, open, bad, verdict>>

\* Wait, called by ConnectBlock or by the destructor on an early return.
CallWait ==
  /\ open
  /\ pc[Master] = "out"
  /\ pc' = [pc EXCEPT ![Master] = "enter"]
  /\ UNCHANGED <<queue, nIdle, nTotal, nTodo, fAllOk, batch, fOk,
                 open, added, bad, verdict>>

-----------------------------------------------------------------------------
QueueInit ==
  /\ queue = {}
  /\ nIdle = 0
  /\ nTotal = 0
  /\ nTodo = 0
  /\ fAllOk = TRUE
  /\ pc = [t \in Threads |-> "out"]
  /\ batch = [t \in Threads |-> {}]
  /\ fOk = [t \in Threads |-> TRUE]
  /\ open = FALSE
  /\ added = {}
  /\ bad \in SUBSET Checks
  /\ verdict = TRUE

QueueNext ==
  \/ \E w \in Workers : StartWorker(w) \/ Interrupt(w)
  \/ \E t \in Threads : Enter(t) \/ Wake(t) \/ Report(t)
  \/ Construct
  \/ \E S \in SUBSET (Checks \ added) : Add(S)
  \/ CallWait

\* A thread that holds or can take the mutex runs on: boost threads are
\* scheduled, scripts terminate and the mutex is never held for long.
\* Nothing forces a spurious wake-up, an interruption or a new block.
Fairness ==
  /\ \A t \in Threads : WF_queueVars(Enter(t))
  /\ \A t \in Threads : WF_queueVars(pc[t] = "notified" /\ Wake(t))
  /\ \A t \in Threads : WF_queueVars(Report(t))

QueueSpec == QueueInit /\ [][QueueNext]_queueVars
FairQueueSpec == QueueSpec /\ Fairness

-----------------------------------------------------------------------------
QueueTypeOK ==
  /\ queue \in SUBSET Checks
  /\ nIdle \in 0 .. Cardinality(Threads)
  /\ nTotal \in 0 .. Cardinality(Threads)
  /\ nTodo \in 0 .. Cardinality(Checks)
  /\ fAllOk \in BOOLEAN
  /\ pc \in [Threads -> Place]
  /\ batch \in [Threads -> SUBSET Checks]
  /\ fOk \in [Threads -> BOOLEAN]
  /\ open \in BOOLEAN
  /\ added \in SUBSET Checks
  /\ bad \in SUBSET Checks
  /\ verdict \in BOOLEAN

\* The assertion in CCheckQueueControl's constructor: whenever no controller
\* is alive the queue is idle, however the threads were interleaved, woken
\* without cause or interrupted before.
ConstructorAssertion == ~open => IsIdle

\* When the master has left Loop no thread holds a check of the block it
\* waited for: ConnectBlock destroys what the checks point to.
NoWorkAfterWait == ~open => queue = {} /\ \A t \in Threads : batch[t] = {}

\* Wait returns TRUE exactly when no check of the block fails.
Verifier == INSTANCE BatchVerifier
ImplementsVerifier == Verifier!Spec

-----------------------------------------------------------------------------
(* The inductive invariant: what the three counters count, who owns which  *)
(* check, and what fAllOk knows about the checks already reported.         *)
Inside == {t \in Threads : pc[t] \in {"wait", "notified", "run", "gone"}}
Parked == {t \in Threads : pc[t] \in {"wait", "notified", "gone"}}
Outstanding == queue \cup {c \in Checks : \E t \in Threads : c \in batch[t]}

Counted ==
  /\ nTotal = Cardinality(Inside)
  /\ nIdle = Cardinality(Parked)
  /\ nTodo = Cardinality(Outstanding)

Owned ==
  /\ Outstanding \subseteq added
  /\ \A t \in Threads : batch[t] \cap queue = {}
  /\ \A t, u \in Threads : t # u => batch[t] \cap batch[u] = {}
  /\ \A t \in Threads : pc[t] = "run" <=> batch[t] # {}

Controlled ==
  /\ pc[Master] # "gone"
  /\ ~open => pc[Master] = "out" /\ added = {} /\ fAllOk

Known ==
  /\ fAllOk => (added \ Outstanding) \cap bad = {}
  /\ ~fAllOk => added \cap bad # {}
  /\ \A t \in Threads : pc[t] = "run" /\ fAllOk => fOk[t]

QueueInv == QueueTypeOK /\ Counted /\ Owned /\ Controlled /\ Known

\* ConnectBlock always gets its answer: no wake-up of the master is lost.
WaitReturns == (pc[Master] # "out") ~> ~open
=============================================================================

-------------------------- MODULE PrivateSendProofs --------------------------
(***************************************************************************)
(* Theorems about PrivateSend, for any number of clients and users.        *)
(*                                                                         *)
(* Entries and signatures do not name their session.  What keeps them      *)
(* apart is that a connection keeps the order of its messages and that the *)
(* message thread of the safenode finishes one before it takes the next:   *)
(* the rounds of a client's entries only grow on their way into the pool,  *)
(* and a transaction that is to be signed, or comes signed, has no entry   *)
(* that is still to come.  So a late signature finds its own entry or none.*)
(***************************************************************************)
EXTENDS PrivateSend, FiniteSetTheorems, TLAPS

\* What is in a queue of messages: rounds of entries, transactions that are signed, and
\* transactions to sign.
EntriesIn(w) == {w[i].round : i \in {j \in DOMAIN w : w[j].type = "entry"}}
SignsIn(w) == {w[i].tx : i \in {j \in DOMAIN w : w[j].type = "sign"}}
FinalsIn(w) == {w[i].tx : i \in {j \in DOMAIN w : w[j].type = "final"}}

\* Entries arrive in the order of their rounds, and none before a signature that was sent
\* earlier.
InOrder(w) ==
    \A i, j \in DOMAIN w : i < j /\ w[i].type = "entry" =>
        /\ w[j].type = "entry" => w[i].round < w[j].round
        /\ w[j].type # "sign"

-----------------------------------------------------------------------------
(* Queues of messages.                                                         *)

LEMMA EmptyQueue ==
  /\ EntriesIn(<<>>) = {} /\ SignsIn(<<>>) = {} /\ FinalsIn(<<>>) = {}
  /\ InOrder(<<>>)
BY DEF EntriesIn, SignsIn, FinalsIn, InOrder

LEMMA QueueHead ==
  ASSUME NEW M, NEW w \in Seq(M), w # <<>>
  PROVE  /\ Head(w) \in M
         /\ Head(w).type = "entry" => Head(w).round \in EntriesIn(w)
         /\ Head(w).type = "sign" => Head(w).tx \in SignsIn(w)
         /\ Head(w).type = "final" => Head(w).tx \in FinalsIn(w)
<1>1. 1 \in DOMAIN w /\ Head(w) = w[1]
  OBVIOUS
<1> QED BY <1>1 DEF EntriesIn, SignsIn, FinalsIn

LEMMA QueueTail ==
  ASSUME NEW M, NEW w \in Seq(M), w # <<>>
  PROVE  /\ Tail(w) \in Seq(M)
         /\ EntriesIn(Tail(w)) \subseteq EntriesIn(w)
         /\ SignsIn(Tail(w)) \subseteq SignsIn(w)
         /\ FinalsIn(Tail(w)) \subseteq FinalsIn(w)
         /\ InOrder(w) => InOrder(Tail(w))
<1>1. /\ Tail(w) \in Seq(M) /\ DOMAIN w = 1 .. Len(w) /\ Len(w) \in Nat
      /\ DOMAIN Tail(w) = 1 .. Len(w) - 1
  OBVIOUS
<1>2. \A i \in DOMAIN Tail(w) : i \in Nat /\ i + 1 \in DOMAIN w /\ Tail(w)[i] = w[i + 1]
  BY <1>1
<1> DEFINE v == Tail(w)
<1>3. \A i \in DOMAIN v : i \in Nat /\ i + 1 \in DOMAIN w /\ v[i] = w[i + 1]
  BY <1>2
<1>4. Tail(w) = v
  OBVIOUS
<1> HIDE DEF v
<1>5. /\ EntriesIn(v) \subseteq EntriesIn(w)
      /\ SignsIn(v) \subseteq SignsIn(w)
      /\ FinalsIn(v) \subseteq FinalsIn(w)
  BY <1>3 DEF EntriesIn, SignsIn, FinalsIn
<1>6. InOrder(w) => InOrder(v)
  BY <1>3 DEF InOrder
<1> QED BY <1>1, <1>4, <1>5, <1>6

\* Behind an entry there are later entries only, and no signatures.
LEMMA EntryAtHead ==
  ASSUME NEW M, NEW w \in Seq(M), w # <<>>, InOrder(w), Head(w).type = "entry"
  PROVE  /\ SignsIn(Tail(w)) = {}
         /\ \A r \in EntriesIn(Tail(w)) : Head(w).round < r
<1>1. /\ Head(w) = w[1] /\ 1 \in DOMAIN w
      /\ \A i \in DOMAIN Tail(w) : /\ i + 1 \in DOMAIN w /\ Tail(w)[i] = w[i + 1]
                                   /\ 1 < i + 1
  OBVIOUS
<1> DEFINE v == Tail(w)
           h == Head(w)
<1>2. /\ h = w[1] /\ h.type = "entry"
      /\ \A i \in DOMAIN v : /\ i + 1 \in DOMAIN w /\ v[i] = w[i + 1] /\ 1 < i + 1
  BY <1>1
<1>3. Tail(w) = v /\ Head(w) = h
  OBVIOUS
<1> HIDE DEF v, h
<1>4. \A i \in DOMAIN v : /\ v[i].type = "entry" => h.round < v[i].round
                          /\ v[i].type # "sign"
  BY <1>1, <1>2 DEF InOrder
<1> QED BY <1>3, <1>4 DEF SignsIn, EntriesIn

LEMMA QueueAppend ==
  ASSUME NEW M, NEW w \in Seq(M), NEW m \in M
  PROVE  /\ Append(w, m) \in Seq(M)
         /\ EntriesIn(Append(w, m)) =
              IF m.type = "entry" THEN EntriesIn(w) \cup {m.round} ELSE EntriesIn(w)
         /\ SignsIn(Append(w, m)) =
              IF m.type = "sign" THEN SignsIn(w) \cup {m.tx} ELSE SignsIn(w)
         /\ FinalsIn(Append(w, m)) =
              IF m.type = "final" THEN FinalsIn(w) \cup {m.tx} ELSE FinalsIn(w)
         /\ (/\ InOrder(w)
             /\ m.type = "sign" => EntriesIn(w) = {}
             /\ m.type = "entry" => \A r \in EntriesIn(w) : r < m.round)
            => InOrder(Append(w, m))
<1> DEFINE v == Append(w, m)
           n == Len(w) + 1
<1>1. /\ v \in Seq(M) /\ DOMAIN v = DOMAIN w \cup {n} /\ v[n] = m
      /\ \A i \in DOMAIN w : v[i] = w[i] /\ i < n /\ i \in Nat
      /\ n \in Nat
  OBVIOUS
<1>2. Append(w, m) = v
  OBVIOUS
<1> HIDE DEF v, n
<1>3. EntriesIn(v) = IF m.type = "entry" THEN EntriesIn(w) \cup {m.round} ELSE EntriesIn(w)
  BY <1>1 DEF EntriesIn
<1>4. SignsIn(v) = IF m.type = "sign" THEN SignsIn(w) \cup {m.tx} ELSE SignsIn(w)
  BY <1>1 DEF SignsIn
<1>5. FinalsIn(v) = IF m.type = "final" THEN FinalsIn(w) \cup {m.tx} ELSE FinalsIn(w)
  BY <1>1 DEF FinalsIn
<1>6. ASSUME InOrder(w),
             m.type = "sign" => EntriesIn(w) = {},
             m.type = "entry" => \A r \in EntriesIn(w) : r < m.round
      PROVE  InOrder(v)
  <2> SUFFICES ASSUME NEW i \in DOMAIN v, NEW j \in DOMAIN v, i < j, v[i].type = "entry"
               PROVE  /\ v[j].type = "entry" => v[i].round < v[j].round
                      /\ v[j].type # "sign"
    BY DEF InOrder
  <2>1. i \in DOMAIN w /\ w[i].type = "entry" /\ w[i].round \in EntriesIn(w)
    BY <1>1 DEF EntriesIn
  <2>2. CASE j \in DOMAIN w
    BY <1>1, <1>6, <2>1, <2>2 DEF InOrder
  <2>3. CASE j = n
    BY <1>1, <1>6, <2>1, <2>3
  <2> QED BY <1>1, <2>2, <2>3
<1> QED BY <1>1, <1>2, <1>3, <1>4, <1>5, <1>6

-----------------------------------------------------------------------------
(* The invariant.                                                              *)

\* The rounds of a client's entries: taken but not yet on the wire, sent, being handled by
\* the safenode, in its pool.
Coming(c) == IF handler[c].at = "relay" THEN {handler[c].round} ELSE {}
Sent(c) == EntriesIn(toMn[c])
Handled(c) == IF net.at = "entry" /\ net.by = c THEN {net.round} ELSE {}
Pooled(c) == {e.round : e \in {x \in mn.vecEntries : x.by = c}}
\* The transactions that are about to be signed, to be sent, or come signed, and the rounds
\* of a client in them.
Made == IF net.at = "final" THEN {net.tx} ELSE {}
Signing(c) == IF handler[c].at = "sign" THEN {handler[c].tx} ELSE {}
Out == Made \cup UNION {FinalsIn(toCl[c]) \cup Signing(c) \cup SignsIn(toMn[c]) : c \in Clients}
Listed(c) == {i.round : i \in {j \in UNION Out : j.by = c}}

\* The pool of the safenode alone: one entry per client, and a final transaction of just
\* these entries from the moment it is made until the session is over.  A session that ends
\* while the transaction is relayed leaves an empty pool in SIGNING, which nobody joins.
Ids(p) == {EntryId(e) : e \in p.vecEntries}
FullPool == mn.finalTransaction = Ids(mn) /\ Cardinality(mn.vecEntries) = MaxUsers
PoolOK ==
    /\ IsFiniteSet(mn.vecEntries) /\ Cardinality(mn.vecEntries) <= MaxUsers
    /\ \A d, e \in mn.vecEntries : d.by = e.by => d = e
    /\ net.at = "create" => mn.nState = "IDLE"
    /\ net.at \in {"opened", "added"} => mn.nState # "SIGNING"
    /\ mn.nState # "SIGNING" /\ net.at # "final" => mn.finalTransaction = NoTx
    /\ net.at = "final" =>
          mn = NullMn \/ (mn.nState = "ACCEPTING_ENTRIES" /\ net.tx = Ids(mn) /\ FullPool)
    /\ mn.nState = "SIGNING" =>
          FullPool \/ (mn = [NullMn EXCEPT !.nState = "SIGNING"] /\ net.at # "entry")

Queued == \A c \in Clients : InOrder(toMn[c])

\* The entries of a client get ever higher rounds on their way into the pool, and a
\* transaction under way has none that is still to come.
Numbered ==
    \A c \in Clients :
        /\ \A r \in Pooled(c) \cup Handled(c) \cup Sent(c) \cup Coming(c) \cup Listed(c) :
              r \in Nat /\ r <= round[c]
        /\ \A p \in Pooled(c), q \in Handled(c) \cup Sent(c) \cup Coming(c) : p < q
        /\ \A h \in Handled(c), s \in Sent(c) \cup Coming(c) : h < s
        /\ \A s \in Sent(c), n \in Coming(c) : s < n
        /\ \A r \in Listed(c) :
              /\ \A q \in Handled(c) \cup Sent(c) \cup Coming(c) : r < q
              /\ \A p \in Pooled(c) : r <= p

\* A signature is made, and arrives, before any later entry of its client is looked at.
Answers(c, T) == \E i \in T : i.by = c /\ \A p \in Pooled(c) : p <= i.round
Answered ==
    \A c \in Clients :
        /\ \A T \in Signing(c) : Answers(c, T) /\ Handled(c) = {} /\ Sent(c) = {}
        /\ \A T \in SignsIn(toMn[c]) : Answers(c, T) /\ Handled(c) = {}

\* No entry in the pool is in a transaction under way but the one that is being signed.
OnlyThese ==
    \A T \in Out : \A e \in mn.vecEntries : EntryId(e) \in T => mn.finalTransaction = T
SigsFit == \A e \in mn.vecEntries : e.sig # NoTx => e.sig = mn.finalTransaction

\* A client alone, with its pool p, its message thread at at and its pool thread at q, r
\* when it is reset, x what has crossed its handler, and n its last round.
Working == {"prepare", "prepared", "check", "relay", "sign"}
Steady(p, at, q, r) ==
    /\ at \in Working => q = "idle" /\ ~r
    /\ at = "idle" =>
          /\ p.locked <=> p.nState \in Promising
          /\ p.listed <=> p.locked
          /\ p.entry # NoRound => p.nState \in Promising
          /\ q \in {"start", "connected"} => p.nState \in {"IDLE", "ERROR"}
    /\ at = "prepare" => p.nState = "QUEUE" /\ ~p.locked /\ ~p.listed /\ p.entry = NoRound
    /\ at = "prepared" => p.nState = "QUEUE" /\ p.locked /\ ~p.listed /\ p.entry = NoRound
    /\ at = "check" =>
          p.nState = "ACCEPTING_ENTRIES" /\ p.locked /\ p.listed /\ p.entry = NoRound
    /\ at = "relay" => p.nState = "ACCEPTING_ENTRIES" /\ p.locked /\ p.listed
    /\ at = "sign" => p.nState \in Promising /\ p.locked /\ p.listed
ClientFits(p, at, q, r, x, n) ==
    /\ p.entry # NoRound => p.entry = n
    /\ p.submitted => p.collateral \/ r
    /\ at \in {"prepare", "prepared"} => p.collateral \/ "reset" \in x
    /\ "reset" \notin x /\ at # "prepared" => (p.locked => p.listed)
    /\ x = {} => Steady(p, at, q, r)
ClientsOK ==
    \A c \in Clients :
        ClientFits(cl[c], handler[c].at, pool[c], c \in resetting, crossed[c], round[c])

-----------------------------------------------------------------------------
(* Types.                                                                      *)

MnType == [nState : States \ {"ERROR"}, nSessionID : 0 .. sessions,
           vecSessionCollaterals : Seq(Clients), vecEntries : SUBSET Entries,
           finalTransaction : SUBSET EntryIds]

LEMMA MnTypes ==
  /\ MnOK <=> /\ mn \in MnType /\ net \in Handlings
              /\ timer \in {"idle", "charging", "ready"} /\ sessions \in Nat
  /\ TypeOK => MnOK /\ ClOK /\ WiresOK
BY DEF MnOK, MnType, TypeOK

LEMMA PushTypes ==
  ASSUME NEW M, NEW wire \in [Clients -> Seq(M)], NEW c \in Clients, NEW m \in M
  PROVE  /\ Push(wire, c, m) \in [Clients -> Seq(M)]
         /\ \A d \in Clients : /\ Push(wire, c, m)[d] \in {wire[d], Append(wire[d], m)}
                               /\ d # c \/ c \notin up => Push(wire, c, m)[d] = wire[d]
<1>1. Append(wire[c], m) \in Seq(M)
  OBVIOUS
<1> QED BY <1>1 DEF Push

LEMMA RelayTypes ==
  ASSUME NEW M, NEW wire \in [Clients -> Seq(M)], NEW m \in M
  PROVE  /\ Relay(wire, m) \in [Clients -> Seq(M)]
         /\ \A d \in Clients : Relay(wire, m)[d] \in {wire[d], Append(wire[d], m)}
<1>1. \A d \in Clients : Append(wire[d], m) \in Seq(M)
  OBVIOUS
<1> QED BY <1>1 DEF Relay

\* What is put on the wires to the clients without a transaction in it.
Told(before, after) ==
    /\ after \in [Clients -> Seq(ToCl)]
    /\ \A c \in Clients : FinalsIn(after[c]) \subseteq FinalsIn(before[c])

LEMMA AppendTold ==
  ASSUME NEW wire \in [Clients -> Seq(ToCl)], NEW m \in ToCl, m.type # "final",
         NEW after \in [Clients -> Seq(ToCl)],
         \A d \in Clients : after[d] \in {wire[d], Append(wire[d], m)}
  PROVE  Told(wire, after)
<1>1. ASSUME NEW d \in Clients PROVE FinalsIn(Append(wire[d], m)) = FinalsIn(wire[d])
  <2>1. wire[d] \in Seq(ToCl)
    OBVIOUS
  <2> QED BY <2>1, QueueAppend
<1> QED BY <1>1 DEF Told

LEMMA PushTold ==
  ASSUME NEW wire \in [Clients -> Seq(ToCl)], NEW c \in Clients,
         NEW m \in ToCl, m.type # "final"
  PROVE  Told(wire, Push(wire, c, m))
<1> DEFINE after == Push(wire, c, m)
<1>1. /\ after \in [Clients -> Seq(ToCl)]
      /\ \A d \in Clients : after[d] \in {wire[d], Append(wire[d], m)}
  BY PushTypes
<1> HIDE DEF after
<1>2. Told(wire, after)
  BY <1>1, AppendTold
<1> QED BY <1>2 DEF after

LEMMA RelayTold ==
  ASSUME NEW wire \in [Clients -> Seq(ToCl)], NEW m \in ToCl, m.type # "final"
  PROVE  Told(wire, Relay(wire, m))
<1> DEFINE after == Relay(wire, m)
<1>1. /\ after \in [Clients -> Seq(ToCl)]
      /\ \A d \in Clients : after[d] \in {wire[d], Append(wire[d], m)}
  BY RelayTypes
<1> HIDE DEF after
<1>2. Told(wire, after)
  BY <1>1, AppendTold
<1> QED BY <1>2 DEF after

LEMMA ToldSame ==
  ASSUME NEW wire \in [Clients -> Seq(ToCl)]
  PROVE  Told(wire, wire)
BY DEF Told

LEMMA ToldTwice ==
  ASSUME NEW a, NEW b, NEW d, Told(a, b), Told(b, d)
  PROVE  Told(a, d)
BY DEF Told

LEMMA MessageTypes ==
  /\ Rejected \in ToCl /\ Rejected.type # "final"
  /\ [type |-> "ready"] \in ToCl /\ [type |-> "ready"].type # "final"
  /\ \A n \in Nat, b \in BOOLEAN :
        Complete(n, b) \in ToCl /\ Complete(n, b).type # "final"
  /\ \A p : p.nSessionID \in Nat => Accepted(p) \in ToCl /\ Accepted(p).type # "final"
  /\ \A n \in Nat : \A T \in SUBSET EntryIds :
        Final(n, T) \in ToCl /\ Final(n, T).type = "final" /\ Final(n, T).tx = T
  /\ [type |-> "accept"] \in ToMn
  /\ \A r \in Nat : [type |-> "entry", round |-> r] \in ToMn
  /\ \A T \in SUBSET EntryIds : [type |-> "sign", tx |-> T] \in ToMn
BY DEF Rejected, Complete, Accepted, Final, ToCl, ToMn

\* The messages the safenode and the clients get are of the kinds they handle.
LEMMA ToMnFields ==
  ASSUME NEW m \in ToMn
  PROVE  /\ m.type = "entry" => m.round \in Nat
         /\ m.type = "sign" => m.tx \in SUBSET EntryIds
         /\ m.type \in {"accept", "entry", "sign"}
BY DEF ToMn
LEMMA ToClFields ==
  ASSUME NEW m \in ToCl
  PROVE  /\ m.type = "accepted" => m.session \in Nat
         /\ m.type = "final" => m.session \in Nat /\ m.tx \in SUBSET EntryIds
BY DEF ToCl

\* Which shape net and the handler of a client have where.
LEMMA NetFields ==
  ASSUME net \in Handlings
  PROVE  /\ net.at \in Answering => net.by \in Clients /\ net.lost \in BOOLEAN
         /\ net.at = "entry" => net.round \in Nat
         /\ net.at \in {"commit", "fees", "final"} => net.entry \in BOOLEAN
         /\ net.at = "final" => net.tx \in SUBSET EntryIds
BY DEF Handlings, Answering, Idle
LEMMA HandlerFields ==
  ASSUME NEW h \in Handlers
  PROVE  /\ h.at = "relay" => h.round \in Nat
         /\ h.at = "sign" => h.tx \in SUBSET EntryIds /\ h.lost \in BOOLEAN
         /\ h.at = "idle" <=> h = Idle
         /\ h.at \in Working \cup {"idle", "quitting", "failing"}
BY DEF Handlers, Idle, Working

LEMMA HandlingTypes ==
  /\ Idle \in Handlings /\ Idle \in Handlers /\ Idle.at = "idle"
  /\ \A at \in Answering \ {"entry"}, c \in Clients, b \in BOOLEAN :
        [at |-> at, by |-> c, lost |-> b] \in Handlings
  /\ \A c \in Clients, b \in BOOLEAN, r \in Nat :
        [at |-> "entry", by |-> c, lost |-> b, round |-> r] \in Handlings
  /\ \A b \in BOOLEAN : /\ Rest(b) \in Handlings /\ Rest(b).at \in {"idle", "status"}
                        /\ [at |-> "commit", entry |-> b] \in Handlings
                        /\ [at |-> "fees", entry |-> b] \in Handlings
  /\ \A b \in BOOLEAN, T \in SUBSET EntryIds :
        [at |-> "final", entry |-> b, tx |-> T] \in Handlings
<1>1. /\ Idle \in Handlings /\ Idle \in Handlers /\ Idle.at = "idle"
      /\ \A b \in BOOLEAN : Rest(b) \in Handlings /\ Rest(b).at \in {"idle", "status"}
  BY DEF Idle, Handlings, Handlers, Rest
<1>2. /\ \A at \in Answering \ {"entry"}, c \in Clients, b \in BOOLEAN :
            [at |-> at, by |-> c, lost |-> b] \in Handlings
      /\ \A c \in Clients, b \in BOOLEAN, r \in Nat :
            [at |-> "entry", by |-> c, lost |-> b, round |-> r] \in Handlings
  BY DEF Handlings
<1>3. /\ \A b \in BOOLEAN : /\ [at |-> "commit", entry |-> b] \in Handlings
                            /\ [at |-> "fees", entry |-> b] \in Handlings
      /\ \A b \in BOOLEAN, T \in SUBSET EntryIds :
            [at |-> "final", entry |-> b, tx |-> T] \in Handlings
  BY DEF Handlings
<1> QED BY <1>1, <1>2, <1>3

LEMMA NullTypes ==
  /\ SetNullMn = NullMn
  /\ NullMn.nState = "IDLE" /\ NullMn.nSessionID = NoSession
  /\ NullMn.vecEntries = {} /\ NullMn.finalTransaction = NoTx
  /\ sessions \in Nat => NullMn \in MnType
<1>1. <<>> \in Seq(Clients)
  OBVIOUS
<1> QED BY <1>1 DEF MnType, SetNullMn, NullMn, NoSession, NoTx, States

\* What a handler of the safenode gets is typed, and so is what is left.
LEMMA TakeTypes ==
  ASSUME TypeOK, NEW c \in Clients, NEW type, Take(c, type)
  PROVE  /\ net.at = "idle" /\ toMn[c] # <<>> /\ c \in up
         /\ Head(toMn[c]) \in ToMn /\ Head(toMn[c]).type = type
         /\ toMn' = [toMn EXCEPT ![c] = Tail(@)]
         /\ toMn' \in [Clients -> Seq(ToMn)]
         /\ \A d \in Clients : d \in up \/ toMn'[d] = <<>>
<1>1. toMn \in [Clients -> Seq(ToMn)] /\ \A d \in Clients : d \in up \/ toMn[d] = <<>>
  BY DEF TypeOK, WiresOK
<1>2. /\ toMn[c] # <<>> /\ toMn' = [toMn EXCEPT ![c] = Tail(@)] /\ net.at = "idle"
      /\ Head(toMn[c]).type = type
  BY DEF Take
<1>3. Head(toMn[c]) \in ToMn /\ Tail(toMn[c]) \in Seq(ToMn)
  BY <1>1, <1>2
<1> QED BY <1>1, <1>2, <1>3

LEMMA HearsTypes ==
  ASSUME TypeOK, NEW c \in Clients, NEW type, Hears(c, type)
  PROVE  /\ handler[c] = Idle /\ toCl[c] # <<>>
         /\ Head(toCl[c]) \in ToCl /\ Head(toCl[c]).type = type
         /\ Told(toCl, toCl')
         /\ UNCHANGED <<mnVars, round, up, toMn, mixed, turns>>
<1>1. toCl \in [Clients -> Seq(ToCl)]
  BY DEF TypeOK, WiresOK
<1>2. /\ toCl[c] # <<>> /\ toCl' = [toCl EXCEPT ![c] = Tail(@)]
      /\ Head(toCl[c]).type = type /\ handler[c] = Idle
      /\ UNCHANGED <<mnVars, round, up, toMn, mixed, turns>>
  BY DEF Hears
<1>3. Head(toCl[c]) \in ToCl /\ Tail(toCl[c]) \in Seq(ToCl)
  BY <1>1, <1>2
<1>4. FinalsIn(Tail(toCl[c])) \subseteq FinalsIn(toCl[c])
  BY <1>1, <1>2, QueueTail
<1> DEFINE tail == Tail(toCl[c])
<1>5. /\ tail \in Seq(ToCl) /\ FinalsIn(tail) \subseteq FinalsIn(toCl[c])
      /\ toCl' = [toCl EXCEPT ![c] = tail]
  BY <1>2, <1>3, <1>4
<1> HIDE DEF tail
<1>6. Told(toCl, toCl')
  BY <1>1, <1>5 DEF Told
<1> QED BY <1>2, <1>3, <1>6

\* The answers of a handler go to one client or to none.
LEMMA AnswerTold ==
  ASSUME TypeOK, net.at \in Answering, NEW m \in ToCl, m.type # "final"
  PROVE  Told(toCl, Answer(toCl, m))
<1>1. toCl \in [Clients -> Seq(ToCl)] /\ net.by \in Clients
  BY NetFields DEF TypeOK, MnOK, WiresOK
<1>2. CASE net.lost
  BY <1>1, <1>2, ToldSame DEF Answer
<1>3. CASE ~net.lost
  BY <1>1, <1>3, PushTold DEF Answer
<1> QED BY <1>2, <1>3

LEMMA AnswerAcceptedTold ==
  ASSUME TypeOK, net.at \in Answering, NEW p, p.nSessionID \in Nat
  PROVE  Told(toCl, AnswerAccepted(p))
<1>1. Told(toCl, Answer(toCl, Accepted(p)))
  BY AnswerTold, MessageTypes
<1>2. Told(toCl, toCl)
  BY ToldSame DEF TypeOK, WiresOK
<1> QED BY <1>1, <1>2 DEF AnswerAccepted

LEMMA AddScriptSigTypes ==
  ASSUME mn \in MnType, NEW c \in Clients, NEW T \in SUBSET EntryIds
  PROVE  /\ AddScriptSig(c, T) \in MnType
         /\ AddScriptSig(c, T) = [mn EXCEPT !.vecEntries = AddScriptSig(c, T).vecEntries]
         /\ AddScriptSig(c, T).vecEntries =
              {IF e.by = c THEN [e EXCEPT !.sig = T] ELSE e : e \in mn.vecEntries}
<1>1. \A e \in mn.vecEntries : (IF e.by = c THEN [e EXCEPT !.sig = T] ELSE e) \in Entries
  BY DEF MnType, Entries
<1> DEFINE signed == {IF e.by = c THEN [e EXCEPT !.sig = T] ELSE e : e \in mn.vecEntries}
<1>2. signed \in SUBSET Entries /\ AddScriptSig(c, T) = [mn EXCEPT !.vecEntries = signed]
  BY <1>1 DEF AddScriptSig
<1> HIDE DEF signed
<1>3. AddScriptSig(c, T) \in MnType /\ AddScriptSig(c, T).vecEntries = signed
  BY <1>2 DEF MnType
<1> QED BY <1>2, <1>3 DEF signed

-----------------------------------------------------------------------------
(* What most actions leave alone.                                              *)

Order == Queued /\ Numbered /\ Answered /\ OnlyThese /\ SigsFit
Inv == TypeOK /\ PoolOK /\ Order /\ ClientsOK

\* A queue that lost messages, or got one that is neither entry nor signature.
Kept(before, after) ==
    /\ EntriesIn(after) \subseteq EntriesIn(before)
    /\ SignsIn(after) \subseteq SignsIn(before)
    /\ InOrder(before) => InOrder(after)

\* Nothing is sent, made or counted.
Quiet ==
    /\ \A c \in Clients : /\ Kept(toMn[c], toMn'[c])
                          /\ Handled(c)' \subseteq Handled(c)
                          /\ Pooled(c)' \subseteq Pooled(c)
                          /\ Coming(c)' \subseteq Coming(c)
                          /\ Signing(c)' \subseteq Signing(c)
    /\ Out' \subseteq Out
    /\ round' = round

\* The pool is emptied, or it keeps its entries and its final transaction.
PoolKept ==
    \/ mn'.vecEntries = {}
    \/ mn'.vecEntries = mn.vecEntries /\ mn'.finalTransaction = mn.finalTransaction

LEMMA KeptSame == \A w : Kept(w, w) /\ Kept(w, <<>>)
BY EmptyQueue DEF Kept
LEMMA KeptTail ==
  ASSUME NEW M, NEW w \in Seq(M), w # <<>>
  PROVE  Kept(w, Tail(w))
BY QueueTail DEF Kept

LEMMA QuietKeeps ==
  ASSUME Quiet, Queued, Numbered, Answered
  PROVE  Queued' /\ Numbered' /\ Answered'
<1>1. ASSUME NEW c \in Clients
      PROVE  /\ Sent(c)' \subseteq Sent(c) /\ Handled(c)' \subseteq Handled(c)
             /\ Pooled(c)' \subseteq Pooled(c) /\ Coming(c)' \subseteq Coming(c)
             /\ Signing(c)' \subseteq Signing(c)
             /\ SignsIn(toMn[c])' \subseteq SignsIn(toMn[c])
             /\ InOrder(toMn[c]) => InOrder(toMn[c])'
             /\ round'[c] = round[c]
  BY DEF Quiet, Sent, Kept
<1>2. \A c \in Clients : Listed(c)' \subseteq Listed(c)
  BY DEF Quiet, Listed
<1>3. Queued'
  BY <1>1 DEF Queued
<1>4. Numbered'
  <2> SUFFICES ASSUME NEW c \in Clients
               PROVE  /\ \A r \in (Pooled(c) \cup Handled(c) \cup Sent(c) \cup Coming(c)
                                    \cup Listed(c))' : r \in Nat /\ r <= round'[c]
                      /\ \A p \in Pooled(c)', q \in (Handled(c) \cup Sent(c) \cup Coming(c))' :
                            p < q
                      /\ \A h \in Handled(c)', s \in (Sent(c) \cup Coming(c))' : h < s
                      /\ \A s \in Sent(c)', n \in Coming(c)' : s < n
                      /\ \A r \in Listed(c)' :
                            /\ \A q \in (Handled(c) \cup Sent(c) \cup Coming(c))' : r < q
                            /\ \A p \in Pooled(c)' : r <= p
    BY DEF Numbered
  <2>1. /\ Sent(c)' \subseteq Sent(c) /\ Handled(c)' \subseteq Handled(c)
        /\ Pooled(c)' \subseteq Pooled(c) /\ Coming(c)' \subseteq Coming(c)
        /\ Listed(c)' \subseteq Listed(c) /\ round'[c] = round[c]
    BY <1>1, <1>2
  <2> QED BY <2>1 DEF Numbered
<1>5. Answered'
  <2>1. \A c \in Clients : \A T : Answers(c, T) => Answers(c, T)'
    BY <1>1 DEF Answers
  <2> QED BY <1>1, <2>1 DEF Answered
<1> QED BY <1>3, <1>4, <1>5

LEMMA KeptPool ==
  ASSUME PoolKept, Out' \subseteq Out, OnlyThese, SigsFit
  PROVE  OnlyThese' /\ SigsFit'
<1>1. CASE mn'.vecEntries = {}
  BY <1>1 DEF OnlyThese, SigsFit
<1>2. CASE mn'.vecEntries = mn.vecEntries /\ mn'.finalTransaction = mn.finalTransaction
  BY <1>2 DEF OnlyThese, SigsFit
<1> QED BY <1>1, <1>2 DEF PoolKept

LEMMA OrderKept ==
  ASSUME Order, Quiet, PoolKept
  PROVE  Order'
BY QuietKeeps, KeptPool DEF Order, Quiet

\* Transactions under way come only from those that were under way.
LEMMA OutShrinks ==
  ASSUME Told(toCl, toCl'), Made' \subseteq Made,
         \A c \in Clients :
            /\ Signing(c)' \subseteq Signing(c)
            /\ SignsIn(toMn'[c]) \subseteq SignsIn(toMn[c]) \cup Signing(c)
  PROVE  Out' \subseteq Out
BY DEF Out, Told

\* How an action of the safenode is quiet.
LEMMA SafenodeQuiet ==
  ASSUME \A c \in Clients : Kept(toMn[c], toMn'[c]),
         Out' \subseteq Out,
         PoolKept, net' = net \/ net'.at # "entry",
         UNCHANGED clVars
  PROVE  Quiet
<1>1. mn'.vecEntries \subseteq mn.vecEntries
  BY DEF PoolKept
<1>2. \A c \in Clients : Pooled(c)' \subseteq Pooled(c)
  BY <1>1 DEF Pooled
<1>3. \A c \in Clients : Handled(c)' \subseteq Handled(c)
  BY DEF Handled
<1>4. \A c \in Clients : Coming(c)' = Coming(c) /\ Signing(c)' = Signing(c)
  BY DEF Coming, Signing, clVars, threads
<1> QED BY <1>2, <1>3, <1>4 DEF Quiet, clVars

\* What an action of the safenode takes from the wires.
Takes == toMn' = toMn \/ \E c \in Clients : \E type : Take(c, type)

LEMMA TakesKept ==
  ASSUME TypeOK, Takes
  PROVE  /\ toMn' \in [Clients -> Seq(ToMn)]
         /\ \A d \in Clients : d \in up \/ toMn'[d] = <<>>
         /\ \A d \in Clients : Kept(toMn[d], toMn'[d])
<1>1. toMn \in [Clients -> Seq(ToMn)]
  BY DEF TypeOK, WiresOK
<1>2. CASE toMn' = toMn
  BY <1>2, KeptSame DEF TypeOK, WiresOK
<1>3. ASSUME NEW c \in Clients, NEW type, Take(c, type)
      PROVE  /\ toMn' \in [Clients -> Seq(ToMn)]
             /\ \A d \in Clients : d \in up \/ toMn'[d] = <<>>
             /\ \A d \in Clients : Kept(toMn[d], toMn'[d])
  <2>1. /\ toMn' = [toMn EXCEPT ![c] = Tail(@)] /\ toMn[c] # <<>>
        /\ toMn' \in [Clients -> Seq(ToMn)]
        /\ \A d \in Clients : d \in up \/ toMn'[d] = <<>>
    BY <1>3, TakeTypes
  <2>2. \A d \in Clients : Kept(toMn[d], toMn'[d])
    <3>1. Kept(toMn[c], Tail(toMn[c]))
      BY <1>1, <2>1, KeptTail
    <3>2. \A d \in Clients : toMn'[d] = IF d = c THEN Tail(toMn[c]) ELSE toMn[d]
      BY <1>1, <2>1
    <3> QED BY <3>1, <3>2, KeptSame
  <2> QED BY <2>1, <2>2
<1> QED BY <1>2, <1>3 DEF Takes

\* An action of the safenode that is quiet.
LEMMA SafenodeOut ==
  ASSUME Inv, MnOK', PoolOK', PoolKept, Takes,
         toCl' \in [Clients -> Seq(ToCl)], Out' \subseteq Out,
         net' = net \/ net'.at # "entry",
         mixed' \subseteq Clients,
         UNCHANGED <<clVars, up, turns>>
  PROVE  Inv'
<1>1. TypeOK /\ Order /\ ClientsOK
  BY DEF Inv
<1>2. /\ toMn' \in [Clients -> Seq(ToMn)]
      /\ \A d \in Clients : d \in up \/ toMn'[d] = <<>>
      /\ \A d \in Clients : Kept(toMn[d], toMn'[d])
  BY <1>1, TakesKept
<1>3. TypeOK'
  <2>1. ClOK' /\ WiresOK'
    BY <1>1, <1>2 DEF TypeOK, ClOK, WiresOK, clVars, threads
  <2> QED BY <1>1, <2>1 DEF TypeOK
<1>4. Quiet
  BY <1>2, SafenodeQuiet
<1>5. Order'
  BY <1>1, <1>4, OrderKept
<1>6. ClientsOK'
  BY <1>1 DEF ClientsOK, clVars, threads
<1> QED BY <1>3, <1>5, <1>6 DEF Inv

LEMMA SafenodeHolds ==
  ASSUME Inv, MnOK', PoolOK', PoolKept, Takes,
         Told(toCl, toCl'),
         net' = net \/ net'.at \notin {"entry", "final"},
         mixed' \subseteq Clients,
         UNCHANGED <<clVars, up, turns>>
  PROVE  Inv'
<1>1. Out' \subseteq Out
  <2>1. Made' \subseteq Made
    BY DEF Made
  <2>2. \A c \in Clients : Signing(c)' = Signing(c)
    BY DEF Signing, clVars, threads
  <2>3. \A c \in Clients : SignsIn(toMn'[c]) \subseteq SignsIn(toMn[c])
    BY TakesKept DEF Kept, Inv
  <2> QED BY <2>1, <2>2, <2>3, OutShrinks
<1> QED BY <1>1, SafenodeOut DEF Told

\* SetNull on the safenode.
LEMMA SetNullKeeps ==
  ASSUME TypeOK, mn' = SetNullMn, sessions' = sessions,
         timer' \in {"idle", "charging", "ready"}, net' \in Handlings
  PROVE  MnOK' /\ PoolOK' /\ PoolKept
<1>1. /\ mn' = NullMn /\ mn'.nState = "IDLE" /\ mn'.vecEntries = {}
      /\ mn'.finalTransaction = NoTx /\ NullMn \in MnType
  BY NullTypes DEF TypeOK, MnOK
<1>2. MnOK'
  BY <1>1, MnTypes DEF TypeOK, MnOK, MnType
<1>3. IsFiniteSet({}) /\ Cardinality({}) <= MaxUsers
  BY FS_EmptySet, CountAssumption
<1>4. PoolOK'
  BY <1>1, <1>3 DEF PoolOK
<1> QED BY <1>1, <1>2, <1>4 DEF PoolKept

\* The pool when its members do not change: a handler goes on.
LEMMA SamePool ==
  ASSUME TypeOK, PoolOK, mn' = mn, sessions' = sessions,
         timer' \in {"idle", "charging", "ready"},
         net' \in Handlings,
         \/ net' = net
         \/ net.at # "final" /\ net'.at \notin {"create", "opened", "added", "entry", "final"}
  PROVE  MnOK' /\ PoolOK' /\ PoolKept
<1>1. MnOK'
  BY DEF TypeOK, MnOK
<1>2. PoolOK'
  BY DEF PoolOK, FullPool, Ids
<1> QED BY <1>1, <1>2 DEF PoolKept

\* The pool of a queue, when neither its entries nor its final transaction change.
LEMMA QueuePool ==
  ASSUME TypeOK, PoolOK, mn' \in MnType', timer' \in {"idle", "charging", "ready"},
         sessions' \in Nat, net' \in Handlings,
         mn.nState # "SIGNING", mn'.nState # "SIGNING", net.at # "final" \/ net' = net,
         net.at = "final" => mn.nState \notin {"IDLE", "ACCEPTING_ENTRIES"},
         net'.at \notin {"create", "final"},
         mn'.vecEntries = mn.vecEntries, mn'.finalTransaction = mn.finalTransaction
  PROVE  MnOK' /\ PoolOK' /\ PoolKept
<1>1. MnOK'
  BY DEF MnOK, MnType
<1>2. PoolOK'
  BY DEF PoolOK
<1> QED BY <1>1, <1>2 DEF PoolKept


-----------------------------------------------------------------------------
(* The safenode: what adds no entry and signs none.                            *)

LEMMA AcceptStep ==
  ASSUME Inv, NEW c \in Clients, Accept(c)
  PROVE  Inv'
<1>0. TypeOK /\ PoolOK /\ MnOK
  BY MnTypes DEF Inv
<1>1. Take(c, "accept") /\ UNCHANGED <<mn, timer, sessions, clVars, up, mixed, turns>>
  BY DEF Accept
<1>2. net.at = "idle"
  BY <1>0, <1>1, TakeTypes
<1>3. /\ net' \in Handlings
      /\ net' = net \/ net'.at = "join" \/ (net'.at = "create" /\ mn.nState = "IDLE")
  <2>1. \A at \in {"create", "join"} :
           [at |-> at, by |-> c, lost |-> FALSE] \in Handlings
    BY HandlingTypes DEF Answering
  <2>2. net \in Handlings
    BY <1>0 DEF MnOK
  <2>3. CASE UNCHANGED net
    BY <2>2, <2>3
  <2>4. CASE mn.nState = "IDLE" /\ Waits("create", c)
    BY <2>1, <2>4 DEF Waits
  <2>5. CASE Waits("join", c)
    BY <2>1, <2>5 DEF Waits
  <2> QED BY <2>3, <2>4, <2>5 DEF Accept
<1>4. Told(toCl, toCl')
  <2>1. toCl \in [Clients -> Seq(ToCl)] /\ mn.nSessionID \in Nat
    BY <1>0 DEF TypeOK, MnOK, WiresOK
  <2>2. /\ Told(toCl, toCl) /\ Told(toCl, Push(toCl, c, Rejected))
        /\ Told(toCl, Push(toCl, c, Accepted(mn)))
    BY <2>1, ToldSame, PushTold, MessageTypes
  <2> QED BY <2>2 DEF Accept, Reject
<1>5. MnOK'
  BY <1>0, <1>1, <1>3 DEF MnOK
<1>6. PoolOK' /\ PoolKept
  BY <1>0, <1>1, <1>2, <1>3 DEF PoolOK, PoolKept, FullPool, Ids
<1>7. Takes /\ mixed' \subseteq Clients
  BY <1>0, <1>1 DEF Takes, TypeOK
<1> QED BY <1>1, <1>2, <1>3, <1>4, <1>5, <1>6, <1>7, SafenodeHolds

LEMMA CreateNewSessionStep ==
  ASSUME Inv, CreateNewSession
  PROVE  Inv'
<1>0. TypeOK /\ PoolOK /\ MnOK /\ mn \in MnType /\ sessions \in Nat
  BY MnTypes DEF Inv
<1>1. /\ net.at = "create" /\ mn.nState = "IDLE"
      /\ UNCHANGED <<timer, clVars, up, toMn, mixed, turns>>
      /\ net.by \in Clients /\ net.lost \in BOOLEAN /\ net \in Handlings
      /\ timer' \in {"idle", "charging", "ready"}
  BY <1>0, NetFields DEF CreateNewSession, PoolOK, MnOK, Answering
<1>2. Takes /\ mixed' \subseteq Clients
  BY <1>0, <1>1 DEF Takes, TypeOK
<1>3. CASE /\ mn' = [mn EXCEPT !.nState = "QUEUE", !.nSessionID = sessions + 1]
           /\ sessions' = sessions + 1 /\ net' = [net EXCEPT !.at = "opened"] /\ UNCHANGED toCl
  <2>1. /\ mn' \in MnType' /\ mn'.nState = "QUEUE"
        /\ mn'.vecEntries = mn.vecEntries /\ mn'.finalTransaction = mn.finalTransaction
    <3>1. sessions + 1 \in 0 .. sessions' /\ "QUEUE" \in States \ {"ERROR"}
      BY <1>0, <1>3 DEF States
    <3> QED BY <1>0, <1>3, <3>1 DEF MnType
  <2>2. net' \in Handlings /\ net'.at = "opened"
    BY <1>1, <1>3 DEF Handlings, Answering, Idle
  <2>3. MnOK' /\ PoolOK' /\ PoolKept
    <3>1. sessions' \in Nat
      BY <1>0, <1>3
    <3> QED BY <1>0, <1>1, <2>1, <2>2, <3>1, QueuePool
  <2>4. Told(toCl, toCl')
    BY <1>0, <1>3, ToldSame DEF TypeOK, WiresOK
  <2> QED BY <1>1, <1>2, <2>2, <2>3, <2>4, SafenodeHolds
<1>4. CASE toCl' = Answer(toCl, Rejected) /\ net' = Idle /\ UNCHANGED <<mn, sessions>>
  <2>1. Told(toCl, toCl')
    BY <1>0, <1>1, <1>4, AnswerTold, MessageTypes DEF Answering
  <2>2. net' \in Handlings /\ net'.at = "idle"
    BY <1>4, HandlingTypes
  <2>3. MnOK' /\ PoolOK' /\ PoolKept
    BY <1>0, <1>1, <1>4, <2>2, SamePool
  <2> QED BY <1>1, <1>2, <2>1, <2>2, <2>3, SafenodeHolds
<1> QED BY <1>3, <1>4 DEF CreateNewSession

\* A user is put down, in the queue or after it.
LEMMA JoinedStep ==
  ASSUME Inv, AddFirstUser \/ AddUserToExistingSession
  PROVE  Inv'
<1>0. TypeOK /\ PoolOK /\ MnOK /\ mn \in MnType /\ sessions \in Nat
  BY MnTypes DEF Inv
<1>1. /\ net.at \in {"opened", "join"}
      /\ UNCHANGED <<timer, sessions, clVars, up, toMn, mixed, turns>>
      /\ net.by \in Clients /\ net.lost \in BOOLEAN /\ net \in Handlings
      /\ timer' \in {"idle", "charging", "ready"}
  BY <1>0, NetFields DEF AddFirstUser, AddUserToExistingSession, MnOK, Answering, wires
<1>2. Takes /\ mixed' \subseteq Clients
  BY <1>0, <1>1 DEF Takes, TypeOK
<1>3. CASE /\ mn' = [mn EXCEPT !.vecSessionCollaterals = Append(@, net.by)]
           /\ net' = [net EXCEPT !.at = "joined"] /\ toCl' = toCl
           /\ mn.nState # "SIGNING"
  <2>1. Append(mn.vecSessionCollaterals, net.by) \in Seq(Clients)
    BY <1>0, <1>1 DEF MnType
  <2>2. /\ mn' \in MnType' /\ mn'.nState = mn.nState
        /\ mn'.vecEntries = mn.vecEntries /\ mn'.finalTransaction = mn.finalTransaction
    BY <1>0, <1>1, <1>3, <2>1 DEF MnType
  <2>3. net' \in Handlings /\ net'.at = "joined"
    BY <1>1, <1>3 DEF Handlings, Answering, Idle
  <2>4. MnOK' /\ PoolOK' /\ PoolKept
    <3>1. sessions' \in Nat
      BY <1>0, <1>1
    <3> QED BY <1>0, <1>1, <1>3, <2>2, <2>3, <3>1, QueuePool
  <2>5. Told(toCl, toCl')
    BY <1>0, <1>3, ToldSame DEF TypeOK, WiresOK
  <2> QED BY <1>1, <1>2, <2>3, <2>4, <2>5, SafenodeHolds
<1>4. CASE toCl' = Answer(toCl, Rejected) /\ net' = Idle /\ UNCHANGED mn
  <2>1. Told(toCl, toCl')
    BY <1>0, <1>1, <1>4, AnswerTold, MessageTypes DEF Answering
  <2>2. net' \in Handlings /\ net'.at = "idle"
    BY <1>4, HandlingTypes
  <2>3. MnOK' /\ PoolOK' /\ PoolKept
    BY <1>0, <1>1, <1>4, <2>2, SamePool
  <2> QED BY <1>1, <1>2, <2>1, <2>2, <2>3, SafenodeHolds
<1>5. AddFirstUser => <1>3!1
  BY <1>0 DEF AddFirstUser, PoolOK, wires
<1>6. AddUserToExistingSession => <1>3!1 \/ <1>4!1
  BY DEF AddUserToExistingSession
<1> QED BY <1>3, <1>4, <1>5, <1>6

\* A handler goes on, and leaves the pool as it is.
LEMMA HandlerStep ==
  ASSUME Inv, PushStatus \/ RefuseEntry \/ RelayStatus \/ RelayCompletedTransaction \/ RelayQueue
  PROVE  Inv'
<1>0. TypeOK /\ PoolOK /\ MnOK /\ mn.nSessionID \in Nat /\ toCl \in [Clients -> Seq(ToCl)]
  BY MnTypes DEF Inv, MnOK, TypeOK, WiresOK
<1>1. /\ UNCHANGED <<mn, sessions, clVars, up, toMn, mixed, turns>>
      /\ timer' \in {"idle", "charging", "ready"}
      /\ Takes /\ mixed' \subseteq Clients
  BY <1>0 DEF PushStatus, RefuseEntry, RelayStatus, RelayCompletedTransaction, RelayQueue,
              Takes, TypeOK, MnOK
<1>2. CASE PushStatus \/ RefuseEntry
  <2>1. /\ net.at \in {"joined", "entry"} /\ net' = Idle
        /\ toCl' \in {AnswerAccepted(mn), Answer(toCl, Rejected)}
    BY <1>2 DEF PushStatus, RefuseEntry
  <2>2. net' \in Handlings /\ net'.at = "idle" /\ net.at \in Answering
    BY <2>1, HandlingTypes DEF Answering
  <2>3. Told(toCl, toCl')
    BY <1>0, <2>1, <2>2, AnswerTold, AnswerAcceptedTold, MessageTypes
  <2>4. MnOK' /\ PoolOK' /\ PoolKept
    BY <1>0, <1>1, <2>1, <2>2, SamePool
  <2> QED BY <1>1, <2>2, <2>3, <2>4, SafenodeHolds
<1>3. CASE RelayStatus \/ RelayCompletedTransaction
  <2>1. /\ net.at \in {"status", "commit"}
        /\ net' = Idle \/ (net.at = "commit" /\ net' = [net EXCEPT !.at = "fees"])
        /\ toCl' \in {toCl, Relay(toCl, Accepted(mn)), Relay(toCl, Complete(mn.nSessionID, TRUE))}
    BY <1>3 DEF RelayStatus, RelayCompletedTransaction, RelayAccepted
  <2>2. net' \in Handlings /\ net'.at \in {"idle", "fees"}
    <3>1. CASE net' = Idle
      BY <3>1, HandlingTypes
    <3>2. CASE net.at = "commit" /\ net' = [net EXCEPT !.at = "fees"]
      <4>1. net \in [at : {"commit"}, entry : BOOLEAN]
        BY <1>0, <3>2 DEF MnOK, Handlings, Idle, Answering
      <4>2. net' \in [at : {"fees"}, entry : BOOLEAN]
        BY <3>2, <4>1
      <4> QED BY <4>2 DEF Handlings
    <3> QED BY <2>1, <3>1, <3>2
  <2>3. Told(toCl, toCl')
    <3>1. /\ Accepted(mn) \in ToCl /\ Accepted(mn).type # "final"
          /\ Complete(mn.nSessionID, TRUE) \in ToCl
          /\ Complete(mn.nSessionID, TRUE).type # "final"
      BY <1>0, MessageTypes
    <3>2. /\ Told(toCl, toCl) /\ Told(toCl, Relay(toCl, Accepted(mn)))
          /\ Told(toCl, Relay(toCl, Complete(mn.nSessionID, TRUE)))
      BY <1>0, <3>1, ToldSame, RelayTold
    <3> QED BY <2>1, <3>2
  <2>4. MnOK' /\ PoolOK' /\ PoolKept
    BY <1>0, <1>1, <2>1, <2>2, SamePool
  <2> QED BY <1>1, <2>2, <2>3, <2>4, SafenodeHolds
<1>4. CASE RelayQueue
  <2>1. net' = net /\ toCl' = Relay(toCl, [type |-> "ready"]) /\ net' \in Handlings
    BY <1>0, <1>4 DEF RelayQueue, MnOK
  <2>2. Told(toCl, toCl')
    BY <1>0, <2>1, RelayTold, MessageTypes
  <2>3. MnOK' /\ PoolOK' /\ PoolKept
    BY <1>0, <1>1, <2>1, SamePool
  <2> QED BY <1>1, <2>1, <2>2, <2>3, SafenodeHolds
<1> QED BY <1>2, <1>3, <1>4

\* The session ends, at any time.
LEMMA SessionEndStep ==
  ASSUME Inv, ChargeRandomFees \/ CheckTimeout \/ EndCharge
  PROVE  Inv'
<1>0. TypeOK /\ PoolOK /\ MnOK
  BY MnTypes DEF Inv
<1>1. /\ UNCHANGED <<sessions, clVars, up, toMn, toCl, mixed, turns>>
      /\ timer' \in {"idle", "charging", "ready"}
      /\ net' = net \/ (net.at = "fees" /\ net' = Rest(net.entry))
      /\ mn' = SetNullMn \/ (mn' = mn /\ net' = net)
  BY <1>0 DEF ChargeRandomFees, CheckTimeout, EndCharge, wires, MnOK
<1>2. net' \in Handlings /\ (net' = net \/ net'.at \in {"idle", "status"})
  BY <1>0, <1>1, NetFields, HandlingTypes DEF MnOK
<1>3. MnOK' /\ PoolOK' /\ PoolKept
  BY <1>0, <1>1, <1>2, SetNullKeeps, SamePool
<1>4. Told(toCl, toCl') /\ Takes /\ mixed' \subseteq Clients
  BY <1>0, <1>1, ToldSame DEF TypeOK, WiresOK, Takes
<1> QED BY <1>1, <1>2, <1>3, <1>4, SafenodeHolds

LEMMA CheckForCompleteQueueStep ==
  ASSUME Inv, CheckForCompleteQueue
  PROVE  Inv'
<1>0. TypeOK /\ PoolOK /\ MnOK /\ mn \in MnType /\ sessions \in Nat /\ net \in Handlings
  BY MnTypes DEF Inv
<1>1. /\ mn.nState = "QUEUE" /\ mn' = [mn EXCEPT !.nState = "ACCEPTING_ENTRIES"]
      /\ timer' = "ready"
      /\ UNCHANGED <<net, sessions, clVars, wires, mixed, turns>>
  BY DEF CheckForCompleteQueue
<1>2. /\ mn' \in MnType' /\ mn'.nState = "ACCEPTING_ENTRIES"
      /\ mn'.vecEntries = mn.vecEntries /\ mn'.finalTransaction = mn.finalTransaction
  BY <1>0, <1>1 DEF MnType, States
<1>3. net.at \notin {"create", "final"}
  BY <1>0, <1>1, NullTypes DEF PoolOK
<1>4. MnOK' /\ PoolOK' /\ PoolKept
  BY <1>0, <1>1, <1>2, <1>3, QueuePool
<1>5. Told(toCl, toCl') /\ Takes /\ mixed' \subseteq Clients /\ UNCHANGED up
  BY <1>0, <1>1, ToldSame DEF TypeOK, WiresOK, Takes, wires
<1> QED BY <1>1, <1>4, <1>5, SafenodeHolds

\* A transaction that was made is relayed: it was under way before.
LEMMA RelayFinal ==
  ASSUME NEW wire \in [Clients -> Seq(ToCl)], NEW m \in ToCl, m.type = "final"
  PROVE  /\ Relay(wire, m) \in [Clients -> Seq(ToCl)]
         /\ \A d \in Clients : FinalsIn(Relay(wire, m)[d]) \subseteq FinalsIn(wire[d]) \cup {m.tx}
<1>1. ASSUME NEW d \in Clients
      PROVE  FinalsIn(Append(wire[d], m)) = FinalsIn(wire[d]) \cup {m.tx}
  <2>1. wire[d] \in Seq(ToCl)
    OBVIOUS
  <2> QED BY <2>1, QueueAppend
<1> DEFINE after == Relay(wire, m)
<1>2. /\ after \in [Clients -> Seq(ToCl)]
      /\ \A d \in Clients : after[d] \in {wire[d], Append(wire[d], m)}
  BY RelayTypes
<1> HIDE DEF after
<1>3. \A d \in Clients : FinalsIn(after[d]) \subseteq FinalsIn(wire[d]) \cup {m.tx}
  BY <1>1, <1>2
<1> QED BY <1>2, <1>3 DEF after

LEMMA RelayFinalTransactionStep ==
  ASSUME Inv, RelayFinalTransaction
  PROVE  Inv'
<1>0. /\ TypeOK /\ PoolOK /\ MnOK /\ mn \in MnType /\ sessions \in Nat /\ net \in Handlings
      /\ mn.nSessionID \in Nat /\ toCl \in [Clients -> Seq(ToCl)]
  BY MnTypes DEF Inv, MnOK, TypeOK, WiresOK
<1>1. /\ net.at = "final" /\ net' = Rest(net.entry)
      /\ toCl' = Relay(toCl, Final(mn.nSessionID, net.tx))
      /\ mn' = [mn EXCEPT !.nState = "SIGNING"]
      /\ UNCHANGED <<timer, sessions, clVars, up, toMn, mixed, turns>>
      /\ net.tx \in SUBSET EntryIds /\ net.entry \in BOOLEAN
  BY <1>0, NetFields DEF RelayFinalTransaction
<1>2. net' \in Handlings /\ net'.at \in {"idle", "status"}
  BY <1>1, HandlingTypes
<1>3. /\ mn' \in MnType /\ mn'.nState = "SIGNING"
      /\ mn'.vecEntries = mn.vecEntries /\ mn'.finalTransaction = mn.finalTransaction
  BY <1>0, <1>1 DEF MnType, States
<1>4. MnOK'
  BY <1>0, <1>1, <1>2, <1>3 DEF MnOK, MnType
<1>5. PoolOK' /\ PoolKept
  <2>1. CASE mn = NullMn
    <3>1. mn' = [NullMn EXCEPT !.nState = "SIGNING"]
      BY <1>1, <2>1
    <3> QED BY <1>0, <1>2, <1>3, <2>1, <3>1, NullTypes DEF PoolOK, PoolKept
  <2>2. CASE FullPool
    <3>1. FullPool'
      BY <1>3, <2>2 DEF FullPool, Ids
    <3> QED BY <1>0, <1>2, <1>3, <3>1 DEF PoolOK, PoolKept
  <2> QED BY <1>0, <1>1, <2>1, <2>2 DEF PoolOK
<1>6. /\ toCl' \in [Clients -> Seq(ToCl)]
      /\ \A d \in Clients : FinalsIn(toCl'[d]) \subseteq FinalsIn(toCl[d]) \cup {net.tx}
  <2> DEFINE m == Final(mn.nSessionID, net.tx)
  <2>1. m \in ToCl /\ m.type = "final" /\ m.tx = net.tx /\ toCl' = Relay(toCl, m)
    BY <1>0, <1>1, MessageTypes
  <2> HIDE DEF m
  <2> QED BY <1>0, <2>1, RelayFinal
<1>7. Out' \subseteq Out
  <2>1. Made = {net.tx} /\ Made' = {}
    BY <1>1, <1>2 DEF Made
  <2>2. \A d \in Clients : Signing(d)' = Signing(d) /\ SignsIn(toMn[d])' = SignsIn(toMn[d])
    BY <1>1 DEF Signing, clVars, threads
  <2> QED BY <1>6, <2>1, <2>2 DEF Out
<1>8. Takes /\ mixed' \subseteq Clients
  BY <1>0, <1>1 DEF TypeOK, Takes
<1> QED BY <1>1, <1>2, <1>4, <1>5, <1>6, <1>7, <1>8, SafenodeOut

-----------------------------------------------------------------------------
(* Signatures.                                                                 *)

\* A signature changes no entry but its own, and that only in the signature.
LEMMA SignedEntries ==
  ASSUME mn \in MnType, PoolOK, NEW c \in Clients, NEW T \in SUBSET EntryIds,
         NEW p, p = AddScriptSig(c, T)
  PROVE  /\ \A x \in p.vecEntries : \E e \in mn.vecEntries :
               e.by = x.by /\ x.sig = IF e.by = c THEN T ELSE e.sig
         /\ \A x, y \in p.vecEntries : x.by = y.by => x = y
         /\ Ids(p) = Ids(mn)
         /\ IsFiniteSet(p.vecEntries)
         /\ Cardinality(p.vecEntries) = Cardinality(mn.vecEntries)
<1> DEFINE old == mn.vecEntries
           Signed(e) == IF e.by = c THEN [e EXCEPT !.sig = T] ELSE e
           new == {Signed(e) : e \in old}
           f == [e \in old |-> Signed(e)]
<1>1. p.vecEntries = new
  BY AddScriptSigTypes
<1>2. old \in SUBSET Entries
  BY DEF MnType
<1>3. \A e \in old : /\ EntryId(Signed(e)) = EntryId(e)
                     /\ Signed(e).by = e.by
                     /\ Signed(e).sig = IF e.by = c THEN T ELSE e.sig
  BY <1>2 DEF Entries, EntryId
<1>4. \A d, e \in old : d.by = e.by => d = e
  BY DEF PoolOK
<1>5. IsFiniteSet(old)
  BY DEF PoolOK
<1> HIDE DEF old, Signed
<1>6. f \in Surjection(old, new)
  BY DEF Surjection
<1>7. \A d, e \in old : f[d] = f[e] => d = e
  BY <1>3, <1>4
<1>8. f \in Injection(old, new)
  BY <1>7 DEF Injection, IsInjective
<1>9. IsFiniteSet(new) /\ Cardinality(new) = Cardinality(old)
  <2> HIDE DEF f, new
  <2> QED BY <1>5, <1>6, <1>8, FS_Surjection
<1>10. \A x \in new : \E e \in old :
               e.by = x.by /\ x.sig = IF e.by = c THEN T ELSE e.sig
  BY <1>3
<1>11. \A x, y \in new : x.by = y.by => x = y
  BY <1>3, <1>4
<1>12. {EntryId(x) : x \in new} = {EntryId(e) : e \in old}
  BY <1>3
<1> QED BY <1>1, <1>9, <1>10, <1>11, <1>12 DEF old, Ids

\* A signature that arrives for an entry in the pool is for the transaction that is being
\* signed: the client of the entry has submitted no later one, and of no other transaction
\* under way is the entry a part.
LEMMA SignatureFits ==
  ASSUME Inv, NEW c \in Clients, toMn[c] # <<>>, Head(toMn[c]).type = "sign",
         NEW e \in mn.vecEntries, e.by = c
  PROVE  mn.finalTransaction = Head(toMn[c]).tx
<1> DEFINE T == Head(toMn[c]).tx
<1>0. /\ toMn[c] \in Seq(ToMn) /\ Numbered /\ Answered /\ OnlyThese
      /\ e \in Entries
  BY MnTypes DEF Inv, Order, TypeOK, WiresOK, MnOK
<1>1. T \in SignsIn(toMn[c]) /\ T \in SUBSET EntryIds
  BY <1>0, QueueHead, ToMnFields
<1> HIDE DEF T
<1>2. T \in Out
  BY <1>1 DEF Out
<1>3. PICK i \in T : i.by = c /\ \A p \in Pooled(c) : p <= i.round
  BY <1>0, <1>1 DEF Answered, Answers
<1>4. i.round \in Listed(c) /\ e.round \in Pooled(c)
  BY <1>2, <1>3 DEF Listed, Pooled
<1>5. i.round <= e.round /\ e.round <= i.round /\ i.round \in Nat /\ e.round \in Nat
  BY <1>0, <1>3, <1>4 DEF Numbered
<1>6. i \in EntryIds
  BY <1>1, <1>3
<1>7. EntryId(e) = i
  <2>1. e.round = i.round
    BY <1>5
  <2> QED BY <1>3, <1>6, <2>1 DEF EntryId, EntryIds
<1>8. mn.finalTransaction = T
  BY <1>0, <1>2, <1>3, <1>7 DEF OnlyThese
<1> QED BY <1>8 DEF T

\* The pool with other signatures, each for its final transaction.
Resigned(p) ==
    /\ p \in MnType /\ p = [mn EXCEPT !.vecEntries = p.vecEntries]
    /\ Ids(p) = Ids(mn) /\ IsFiniteSet(p.vecEntries)
    /\ Cardinality(p.vecEntries) = Cardinality(mn.vecEntries)
    /\ \A x, y \in p.vecEntries : x.by = y.by => x = y
    /\ \A e \in p.vecEntries : e.sig # NoTx => e.sig = mn.finalTransaction

LEMMA ResignedFields ==
  ASSUME TypeOK, PoolOK, NEW p, Resigned(p)
  PROVE  /\ p.nState = mn.nState /\ p.nSessionID = mn.nSessionID
         /\ p.nSessionID \in Nat
         /\ p.finalTransaction = mn.finalTransaction
         /\ \A e \in p.vecEntries : e.by \in Clients /\ EntryId(e) \in EntryIds
         /\ mn = [NullMn EXCEPT !.nState = "SIGNING"] => p = mn
<1> DEFINE x == p.vecEntries
<1>1. mn \in MnType /\ p = [mn EXCEPT !.vecEntries = x] /\ x \subseteq Entries /\ p \in MnType
  BY MnTypes DEF Resigned, MnType
<1> HIDE DEF x
<1>2. /\ p.nState = mn.nState /\ p.nSessionID = mn.nSessionID
      /\ p.finalTransaction = mn.finalTransaction
      /\ x = mn.vecEntries => p = mn
  BY <1>1 DEF MnType
<1>3. p.nSessionID \in Nat
  BY <1>1 DEF MnType
<1>4. \A e \in x : e.by \in Clients /\ EntryId(e) \in EntryIds
  BY <1>1 DEF Entries, EntryIds, EntryId
<1>5. ASSUME mn = [NullMn EXCEPT !.nState = "SIGNING"] PROVE p = mn
  <2>1. mn.vecEntries = {}
    BY <1>5 DEF NullMn
  <2>2. x = {}
    BY <2>1 DEF Resigned, Ids, x
  <2> QED BY <1>2, <2>1, <2>2
<1> QED BY <1>2, <1>3, <1>4, <1>5 DEF x

RoundsOf(S, c) == {e.round : e \in {x \in S : x.by = c}}

LEMMA RoundsOfIds ==
  ASSUME NEW S, NEW c
  PROVE  RoundsOf(S, c) = RoundsOf({EntryId(e) : e \in S}, c)
<1> DEFINE Id(e) == EntryId(e)
<1>1. \A e : Id(e).by = e.by /\ Id(e).round = e.round
  BY DEF EntryId
<1> HIDE DEF Id
<1>2. ASSUME NEW e \in S, e.by = c
      PROVE  e.round \in {i.round : i \in {j \in {Id(x) : x \in S} : j.by = c}}
  <2>1. Id(e) \in {j \in {Id(x) : x \in S} : j.by = c} /\ Id(e).round = e.round
    BY <1>1, <1>2
  <2> QED BY <2>1
<1>3. ASSUME NEW e \in S, Id(e).by = c
      PROVE  Id(e).round \in {x.round : x \in {y \in S : y.by = c}}
  <2>1. e \in {y \in S : y.by = c} /\ Id(e).round = e.round
    BY <1>1, <1>3
  <2> QED BY <2>1
<1>4. {e.round : e \in {x \in S : x.by = c}}
        = {i.round : i \in {j \in {Id(e) : e \in S} : j.by = c}}
  BY <1>2, <1>3
<1> QED BY <1>4 DEF Id, RoundsOf

\* The rounds keep their order when the entries of the pool are made a transaction.
LEMMA EntriesKept ==
  ASSUME Inv, NEW p, Resigned(p), mn'.vecEntries = p.vecEntries,
         Takes, net'.at # "entry", UNCHANGED clVars,
         Out' \subseteq Out \cup {Ids(mn)}
  PROVE  Queued' /\ Numbered' /\ Answered'
<1>0. TypeOK /\ PoolOK /\ Queued /\ Numbered /\ Answered
  BY DEF Inv, Order
<1>1. \A d \in Clients : Kept(toMn[d], toMn'[d])
  BY <1>0, TakesKept
<1>2. Queued'
  BY <1>0, <1>1 DEF Queued, Kept
<1>3. ASSUME NEW c \in Clients
      PROVE  /\ Sent(c)' \subseteq Sent(c) /\ Handled(c)' = {} /\ Coming(c)' = Coming(c)
             /\ Signing(c)' = Signing(c) /\ SignsIn(toMn'[c]) \subseteq SignsIn(toMn[c])
             /\ Pooled(c)' = Pooled(c) /\ round'[c] = round[c]
             /\ Listed(c)' \subseteq Listed(c) \cup Pooled(c)
             /\ \A a, b \in Pooled(c) : a = b
  <2>1. /\ Sent(c)' \subseteq Sent(c) /\ Handled(c)' = {} /\ Coming(c)' = Coming(c)
        /\ Signing(c)' = Signing(c) /\ SignsIn(toMn'[c]) \subseteq SignsIn(toMn[c])
        /\ round'[c] = round[c]
    BY <1>1 DEF Kept, Sent, Handled, Coming, Signing, clVars, threads
  <2>2. Pooled(c) = RoundsOf(Ids(mn), c)
    <3>1. Pooled(c) = RoundsOf(mn.vecEntries, c)
      BY DEF Pooled, RoundsOf
    <3> QED BY <3>1, RoundsOfIds DEF Ids
  <2>3. Pooled(c)' = RoundsOf(Ids(p), c)
    <3>1. Pooled(c)' = RoundsOf(p.vecEntries, c)
      BY DEF Pooled, RoundsOf
    <3> QED BY <3>1, RoundsOfIds DEF Ids
  <2>4. Pooled(c)' = Pooled(c)
    BY <2>2, <2>3 DEF Resigned
  <2>5. Listed(c)' \subseteq Listed(c) \cup Pooled(c)
    BY <2>2 DEF Listed, RoundsOf
  <2>6. \A a, b \in Pooled(c) : a = b
    BY <1>0 DEF Pooled, PoolOK
  <2> QED BY <2>1, <2>4, <2>5, <2>6
<1>4. Numbered'
  <2> SUFFICES ASSUME NEW c \in Clients
               PROVE  /\ \A r \in (Pooled(c) \cup Handled(c) \cup Sent(c) \cup Coming(c)
                                    \cup Listed(c))' : r \in Nat /\ r <= round'[c]
                      /\ \A a \in Pooled(c)', q \in (Handled(c) \cup Sent(c) \cup Coming(c))' :
                            a < q
                      /\ \A h \in Handled(c)', s \in (Sent(c) \cup Coming(c))' : h < s
                      /\ \A s \in Sent(c)', n \in Coming(c)' : s < n
                      /\ \A r \in Listed(c)' :
                            /\ \A q \in (Handled(c) \cup Sent(c) \cup Coming(c))' : r < q
                            /\ \A a \in Pooled(c)' : r <= a
    BY DEF Numbered
  <2>1. /\ Sent(c)' \subseteq Sent(c) /\ Handled(c)' = {} /\ Coming(c)' = Coming(c)
        /\ Pooled(c)' = Pooled(c) /\ round'[c] = round[c]
        /\ Listed(c)' \subseteq Listed(c) \cup Pooled(c)
        /\ \A a, b \in Pooled(c) : a = b
    BY <1>3
  <2>2. /\ \A r \in Pooled(c) \cup Handled(c) \cup Sent(c) \cup Coming(c) \cup Listed(c) :
              r \in Nat /\ r <= round[c]
        /\ \A a \in Pooled(c), q \in Handled(c) \cup Sent(c) \cup Coming(c) : a < q
        /\ \A s \in Sent(c), n \in Coming(c) : s < n
        /\ \A r \in Listed(c) :
              /\ \A q \in Handled(c) \cup Sent(c) \cup Coming(c) : r < q
              /\ \A a \in Pooled(c) : r <= a
    BY <1>0 DEF Numbered
  <2>3. \A r \in Pooled(c) : r \in Nat /\ r <= r
    BY <2>2
  <2>4. \A r \in Listed(c)' : \A a \in Pooled(c)' : r <= a
    BY <2>1, <2>2, <2>3
  <2>5. \A r \in Listed(c)' : \A q \in (Handled(c) \cup Sent(c) \cup Coming(c))' : r < q
    BY <2>1, <2>2
  <2> QED BY <2>1, <2>2, <2>4, <2>5
<1>5. Answered'
  <2>1. \A c \in Clients : \A T : Answers(c, T) => Answers(c, T)'
    BY <1>3 DEF Answers
  <2> QED BY <1>0, <1>3, <2>1 DEF Answered
<1> QED BY <1>2, <1>4, <1>5

\* What is the same when the pool has other signatures.
LEMMA ResignedTypes ==
  ASSUME Inv, MnOK', Takes, toCl' \in [Clients -> Seq(ToCl)], mixed' \subseteq Clients,
         UNCHANGED <<clVars, up, turns>>
  PROVE  TypeOK' /\ ClientsOK'
<1>1. TypeOK /\ ClientsOK
  BY DEF Inv
<1>2. /\ toMn' \in [Clients -> Seq(ToMn)]
      /\ \A d \in Clients : d \in up \/ toMn'[d] = <<>>
  BY <1>1, TakesKept
<1>3. ClOK' /\ WiresOK'
  BY <1>1, <1>2 DEF TypeOK, ClOK, WiresOK, clVars, threads
<1>4. ClientsOK'
  BY <1>1 DEF ClientsOK, clVars, threads
<1> QED BY <1>1, <1>3, <1>4 DEF TypeOK

LEMMA ResignedHolds ==
  ASSUME Inv, NEW p, Resigned(p), mn' = p, net.at \in {"idle", "added"},
         net' \in Handlings, net'.at \in {"idle", "status", "commit"},
         Takes, Told(toCl, toCl'), mixed' \subseteq Clients,
         UNCHANGED <<timer, sessions, clVars, up, turns>>
  PROVE  Inv'
<1>0. TypeOK /\ PoolOK /\ MnOK /\ Order
  BY MnTypes DEF Inv
<1>1. /\ p.nState = mn.nState /\ p.finalTransaction = mn.finalTransaction
      /\ mn = [NullMn EXCEPT !.nState = "SIGNING"] => p = mn
  BY <1>0, ResignedFields
<1>2. MnOK'
  BY <1>0 DEF MnOK, Resigned, MnType
<1>3. PoolOK'
  <2>1. FullPool => FullPool'
    BY <1>1 DEF FullPool, Resigned
  <2> QED BY <1>0, <1>1, <2>1 DEF PoolOK, Resigned
<1>4. TypeOK' /\ ClientsOK'
  BY <1>2, ResignedTypes DEF Told
<1>5. Out' \subseteq Out
  <2>1. Made' \subseteq Made
    BY DEF Made
  <2>2. \A c \in Clients : Signing(c)' = Signing(c)
    BY DEF Signing, clVars, threads
  <2>3. \A c \in Clients : SignsIn(toMn'[c]) \subseteq SignsIn(toMn[c])
    BY <1>0, TakesKept DEF Kept
  <2> QED BY <2>1, <2>2, <2>3, OutShrinks
<1>6. Queued' /\ Numbered' /\ Answered'
  BY <1>5, EntriesKept
<1>7. OnlyThese'
  <2>1. \A e \in mn'.vecEntries : \E d \in mn.vecEntries : EntryId(d) = EntryId(e)
    BY DEF Resigned, Ids
  <2> QED BY <1>0, <1>1, <1>5, <2>1 DEF Order, OnlyThese
<1>8. SigsFit'
  BY <1>1 DEF SigsFit, Resigned
<1> QED BY <1>3, <1>4, <1>6, <1>7, <1>8 DEF Inv, Order

\* The entries of a full pool are made a transaction: none of them is in another one.
LEMMA FinalHolds ==
  ASSUME Inv, NEW p, Resigned(p), net.at \in {"idle", "added"},
         p.nState = "ACCEPTING_ENTRIES", IsFull(p),
         mn' = [p EXCEPT !.finalTransaction = Ids(p)],
         NEW entry \in BOOLEAN, net' = [at |-> "final", entry |-> entry, tx |-> Ids(p)],
         Takes, Told(toCl, toCl'), mixed' = mixed,
         UNCHANGED <<timer, sessions, clVars, up, turns>>
  PROVE  Inv'
<1>0. TypeOK /\ PoolOK /\ MnOK /\ Order /\ mn \in MnType
  BY MnTypes DEF Inv
<1> DEFINE tx == Ids(p)
<1>1. /\ p.nState = mn.nState /\ p.finalTransaction = mn.finalTransaction
      /\ tx \in SUBSET EntryIds /\ tx = Ids(mn) /\ p \in MnType
      /\ mn' = [p EXCEPT !.finalTransaction = tx]
  BY <1>0, ResignedFields DEF Resigned, Ids
<1>2. mn.finalTransaction = NoTx
  BY <1>0, <1>1 DEF PoolOK
<1>a. Ids(p) = tx
  OBVIOUS
<1> HIDE DEF tx
<1>3. /\ mn' \in MnType /\ mn'.nState = "ACCEPTING_ENTRIES"
      /\ mn'.vecEntries = p.vecEntries /\ mn'.finalTransaction = tx
  BY <1>1 DEF MnType
<1>4. /\ net' \in Handlings /\ net'.at = "final" /\ net'.tx = tx
  BY <1>1, <1>a, HandlingTypes
<1>5. MnOK'
  BY <1>0, <1>3, <1>4 DEF MnOK, MnType
<1>6. PoolOK'
  <2>1. Ids(mn') = tx
    BY <1>3, <1>a DEF Ids
  <2>2. Cardinality(p.vecEntries) = MaxUsers
    <3>1. Cardinality(p.vecEntries) \in Nat
      BY FS_CardinalityType DEF Resigned
    <3>2. Cardinality(p.vecEntries) <= MaxUsers /\ Cardinality(p.vecEntries) >= MaxUsers
      BY <1>0 DEF PoolOK, Resigned, IsFull
    <3> QED BY <3>1, <3>2, CountAssumption
  <2>3. FullPool'
    BY <1>3, <2>1, <2>2 DEF FullPool
  <2> QED BY <1>0, <1>3, <1>4, <2>1, <2>3 DEF PoolOK, Resigned
<1>7. TypeOK' /\ ClientsOK'
  BY <1>0, <1>5, ResignedTypes DEF Told, TypeOK
<1>8. Out' \subseteq Out \cup {tx}
  <2>1. Made' = {tx}
    BY <1>4 DEF Made
  <2>2. \A c \in Clients : Signing(c)' = Signing(c)
    BY DEF Signing, clVars, threads
  <2>3. \A c \in Clients : SignsIn(toMn'[c]) \subseteq SignsIn(toMn[c])
    BY <1>0, TakesKept DEF Kept
  <2>4. \A c \in Clients : FinalsIn(toCl'[c]) \subseteq FinalsIn(toCl[c])
    BY DEF Told
  <2> QED BY <2>1, <2>2, <2>3, <2>4 DEF Out
<1>9. Queued' /\ Numbered' /\ Answered'
  BY <1>1, <1>3, <1>4, <1>8, EntriesKept
<1>10. OnlyThese'
  <2>1. ASSUME NEW T \in Out, NEW e \in p.vecEntries PROVE EntryId(e) \notin T
    <3>1. PICK d \in mn.vecEntries : EntryId(d) = EntryId(e)
      BY DEF Resigned, Ids
    <3> QED BY <1>0, <1>2, <3>1 DEF Order, OnlyThese, NoTx
  <2> QED BY <1>3, <1>8, <2>1 DEF OnlyThese
<1>11. SigsFit'
  BY <1>2, <1>3 DEF SigsFit, Resigned
<1> QED BY <1>6, <1>7, <1>9, <1>10, <1>11 DEF Inv, Order

LEMMA CheckPoolStep ==
  ASSUME Inv, NEW p, Resigned(p), NEW told, Told(toCl, told), NEW entry \in BOOLEAN,
         CheckPoolMn(p, told, entry), net.at \in {"idle", "added"},
         Takes, UNCHANGED <<timer, sessions, clVars, up, turns>>
  PROVE  Inv'
<1>0. /\ TypeOK /\ PoolOK /\ MnOK /\ Order /\ sessions \in Nat /\ mixed \subseteq Clients
      /\ told \in [Clients -> Seq(ToCl)]
      /\ timer' \in {"idle", "charging", "ready"}
  BY MnTypes DEF Inv, MnOK, TypeOK, Told
<1>1. \A e \in p.vecEntries : e.by \in Clients
  BY <1>0, ResignedFields
<1>2. CASE /\ p.nState = "ACCEPTING_ENTRIES" /\ IsFull(p)
           /\ mn' = [p EXCEPT !.finalTransaction = Ids(p)] /\ toCl' = told
           /\ net' = [at |-> "final", entry |-> entry, tx |-> Ids(p)]
           /\ UNCHANGED mixed
  BY <1>2, FinalHolds
<1>3. CASE /\ mn' = p /\ toCl' = told
           /\ mixed' = mixed \cup {e.by : e \in p.vecEntries}
           /\ net' = [at |-> "commit", entry |-> entry]
  <2>1. net' \in Handlings /\ net'.at = "commit"
    BY <1>3, HandlingTypes
  <2>2. mixed' \subseteq Clients
    BY <1>0, <1>1, <1>3
  <2> QED BY <1>3, <2>1, <2>2, ResignedHolds
<1>4. CASE /\ mn' = SetNullMn /\ toCl' = Relay(told, Complete(SetNullMn.nSessionID, FALSE))
           /\ net' = Rest(entry) /\ UNCHANGED mixed
  <2>1. net' \in Handlings /\ net'.at \in {"idle", "status"}
    BY <1>4, HandlingTypes
  <2>2. MnOK' /\ PoolOK' /\ PoolKept
    BY <1>0, <1>4, <2>1, SetNullKeeps
  <2>3. Told(toCl, toCl')
    <3> DEFINE m == Complete(SetNullMn.nSessionID, FALSE)
    <3>1. m \in ToCl /\ m.type # "final"
      <4>1. SetNullMn.nSessionID \in Nat
        BY NullTypes DEF NoSession
      <4> QED BY <4>1, MessageTypes
    <3> HIDE DEF m
    <3>2. Told(told, Relay(told, m))
      BY <1>0, <3>1, RelayTold
    <3> QED BY <1>4, <3>2, ToldTwice DEF m
  <2> QED BY <1>0, <1>4, <2>1, <2>2, <2>3, SafenodeHolds
<1>5. CASE mn' = p /\ toCl' = told /\ net' = Rest(entry) /\ UNCHANGED mixed
  <2>1. net' \in Handlings /\ net'.at \in {"idle", "status"}
    BY <1>5, HandlingTypes
  <2> QED BY <1>0, <1>5, <2>1, ResignedHolds
<1> QED BY <1>2, <1>3, <1>4, <1>5 DEF CheckPoolMn, Ids

LEMMA SignatureStep ==
  ASSUME Inv, NEW c \in Clients, Signature(c)
  PROVE  Inv'
<1> DEFINE T == Head(toMn[c]).tx
           p == AddScriptSig(c, T)
<1>0. /\ TypeOK /\ PoolOK /\ MnOK /\ Order /\ mn \in MnType /\ mixed \subseteq Clients
      /\ toCl \in [Clients -> Seq(ToCl)] /\ net \in Handlings
  BY MnTypes DEF Inv, TypeOK, WiresOK, MnOK
<1>1. Take(c, "sign") /\ UNCHANGED <<timer, sessions, clVars, up, turns>>
  BY DEF Signature
<1>2. /\ net.at = "idle" /\ toMn[c] # <<>> /\ Head(toMn[c]).type = "sign"
      /\ T \in SUBSET EntryIds /\ Takes
  BY <1>0, <1>1, TakeTypes, ToMnFields DEF Takes
<1>3. \A e \in mn.vecEntries : e.by = c => mn.finalTransaction = T
  BY <1>2, SignatureFits
<1>4. Resigned(p)
  <2>1. p \in MnType /\ p = [mn EXCEPT !.vecEntries = p.vecEntries]
    BY <1>0, <1>2, AddScriptSigTypes
  <2>2. /\ \A x \in p.vecEntries : \E e \in mn.vecEntries :
              e.by = x.by /\ x.sig = IF e.by = c THEN T ELSE e.sig
        /\ \A x, y \in p.vecEntries : x.by = y.by => x = y
        /\ Ids(p) = Ids(mn) /\ IsFiniteSet(p.vecEntries)
        /\ Cardinality(p.vecEntries) = Cardinality(mn.vecEntries)
    BY <1>0, <1>2, SignedEntries
  <2> HIDE DEF p, T
  <2>3. \A e \in p.vecEntries : e.sig # NoTx => e.sig = mn.finalTransaction
    BY <1>0, <1>3, <2>2 DEF Order, SigsFit
  <2> QED BY <2>1, <2>2, <2>3 DEF Resigned
<1>5. \/ mn' = p /\ toCl' = Relay(toCl, Rejected) /\ UNCHANGED <<net, mixed>>
      \/ CheckPoolMn(p, toCl, FALSE)
  BY DEF Signature
<1> HIDE DEF p, T
<1>6. CASE mn' = p /\ toCl' = Relay(toCl, Rejected) /\ UNCHANGED <<net, mixed>>
  <2>1. Told(toCl, toCl')
    BY <1>0, <1>6, RelayTold, MessageTypes
  <2> QED BY <1>0, <1>1, <1>2, <1>4, <1>6, <2>1, ResignedHolds
<1>7. CASE CheckPoolMn(p, toCl, FALSE)
  <2>1. Told(toCl, toCl)
    BY <1>0, ToldSame
  <2> QED BY <1>1, <1>2, <1>4, <1>7, <2>1, CheckPoolStep
<1> QED BY <1>5, <1>6, <1>7

LEMMA AnswerEntryStep ==
  ASSUME Inv, AnswerEntry
  PROVE  Inv'
<1>0. TypeOK /\ PoolOK /\ MnOK /\ Order /\ mn \in MnType
  BY MnTypes DEF Inv
<1>1. /\ net.at = "added" /\ CheckPoolMn(mn, AnswerAccepted(mn), TRUE)
      /\ UNCHANGED <<timer, sessions, clVars, up, turns>> /\ Takes
  BY DEF AnswerEntry, Takes
<1>2. Told(toCl, AnswerAccepted(mn))
  BY <1>0, <1>1, AnswerAcceptedTold DEF Answering, MnOK
<1>3. Resigned(mn)
  BY <1>0 DEF Resigned, PoolOK, Order, SigsFit, MnType
<1> QED BY <1>1, <1>2, <1>3, CheckPoolStep

-----------------------------------------------------------------------------
(* Entries.                                                                    *)

\* An entry is received: it is being handled, before any later one and any signature of
\* its client.
LEMMA EntryStep ==
  ASSUME Inv, NEW c \in Clients, Entry(c)
  PROVE  Inv'
<1>0. /\ TypeOK /\ PoolOK /\ MnOK /\ Order /\ ClientsOK
      /\ toCl \in [Clients -> Seq(ToCl)] /\ toMn \in [Clients -> Seq(ToMn)]
  BY MnTypes DEF Inv, TypeOK, WiresOK
<1>1. /\ Take(c, "entry") /\ UNCHANGED <<mn, timer, sessions, clVars, up, mixed, turns>>
      /\ Takes
  BY DEF Entry, Takes
<1>2. /\ net.at = "idle" /\ toMn[c] # <<>> /\ Head(toMn[c]).type = "entry"
      /\ Head(toMn[c]).round \in Nat
      /\ toMn' = [toMn EXCEPT ![c] = Tail(@)] /\ toMn' \in [Clients -> Seq(ToMn)]
      /\ \A d \in Clients : d \in up \/ toMn'[d] = <<>>
  BY <1>0, <1>1, TakeTypes, ToMnFields
<1>3. CASE Reject(c) /\ UNCHANGED net
  <2>1. Told(toCl, toCl')
    BY <1>0, <1>3, PushTold, MessageTypes DEF Reject
  <2>2. MnOK' /\ PoolOK' /\ PoolKept
    BY <1>0, <1>1, <1>3, SamePool DEF MnOK
  <2>3. mixed' \subseteq Clients
    BY <1>0, <1>1 DEF TypeOK
  <2> QED BY <1>1, <1>2, <1>3, <2>1, <2>2, <2>3, SafenodeHolds
<1>4. CASE /\ net' = [at |-> "entry", by |-> c, lost |-> FALSE, round |-> Head(toMn[c]).round]
           /\ UNCHANGED toCl /\ IsSessionReady
  <2> DEFINE h == Head(toMn[c]).round
  <2>1. /\ net' \in Handlings /\ net'.at = "entry" /\ net'.by = c /\ net'.round = h
        /\ h \in Nat
    BY <1>2, <1>4, HandlingTypes
  <2>2. /\ SignsIn(toMn'[c]) = {} /\ InOrder(toMn'[c])
        /\ \A s \in EntriesIn(toMn'[c]) : h < s
        /\ EntriesIn(toMn'[c]) \subseteq EntriesIn(toMn[c]) /\ h \in EntriesIn(toMn[c])
    <3>1. toMn[c] \in Seq(ToMn) /\ InOrder(toMn[c]) /\ toMn'[c] = Tail(toMn[c])
      BY <1>0, <1>2 DEF Order, Queued
    <3>2. h \in EntriesIn(toMn[c])
      BY <1>2, <3>1, QueueHead
    <3>3. EntriesIn(Tail(toMn[c])) \subseteq EntriesIn(toMn[c]) /\ InOrder(Tail(toMn[c]))
      BY <1>2, <3>1, QueueTail
    <3>4. /\ SignsIn(Tail(toMn[c])) = {}
          /\ \A s \in EntriesIn(Tail(toMn[c])) : h < s
      BY <1>2, <3>1, EntryAtHead
    <3> HIDE DEF h
    <3> QED BY <3>1, <3>2, <3>3, <3>4
  <2> HIDE DEF h
  <2>3. \A d \in Clients : d # c => toMn'[d] = toMn[d]
    BY <1>0, <1>2
  <2>4. MnOK' /\ TypeOK'
    <3>1. MnOK'
      BY <1>0, <1>1, <2>1 DEF MnOK
    <3>2. ClOK' /\ WiresOK'
      BY <1>0, <1>1, <1>2, <1>4 DEF TypeOK, ClOK, WiresOK, clVars, threads
    <3> QED BY <1>0, <1>1, <3>1, <3>2 DEF TypeOK
  <2>5. PoolOK'
    <3>1. mn # [NullMn EXCEPT !.nState = "SIGNING"]
      <4>1. Len(<<>>) = 0 /\ ~(0 >= MaxUsers)
        BY CountAssumption
      <4>2. [NullMn EXCEPT !.nState = "SIGNING"].vecSessionCollaterals = <<>>
        BY DEF NullMn
      <4> QED BY <1>4, <4>1, <4>2 DEF IsSessionReady
    <3> QED BY <1>0, <1>1, <1>2, <2>1, <3>1 DEF PoolOK, FullPool, Ids
  <2>6. Queued'
    BY <1>0, <2>2, <2>3 DEF Order, Queued
  <2>7. /\ Out' \subseteq Out
        /\ \A d \in Clients : Listed(d)' \subseteq Listed(d)
    <3>1. Told(toCl, toCl') /\ Made' \subseteq Made
      BY <1>0, <1>4, <2>1, ToldSame DEF Made
    <3>2. \A d \in Clients : /\ Signing(d)' = Signing(d)
                             /\ SignsIn(toMn'[d]) \subseteq SignsIn(toMn[d])
      BY <1>1, <2>2, <2>3 DEF Signing, clVars, threads
    <3>3. Out' \subseteq Out
      BY <3>1, <3>2, OutShrinks
    <3> QED BY <3>3 DEF Listed
  <2>8. ASSUME NEW d \in Clients
        PROVE  /\ Handled(d) = {} /\ Pooled(d)' = Pooled(d) /\ round'[d] = round[d]
               /\ Coming(d)' = Coming(d) /\ Signing(d)' = Signing(d)
               /\ Handled(d)' = IF d = c THEN {h} ELSE {}
               /\ Sent(d)' \subseteq Sent(d)
               /\ d = c => h \in Sent(d) /\ \A s \in Sent(d)' : h < s
    <3>1. /\ Handled(d) = {} /\ Pooled(d)' = Pooled(d) /\ round'[d] = round[d]
          /\ Coming(d)' = Coming(d) /\ Signing(d)' = Signing(d)
          /\ Handled(d)' = IF d = c THEN {h} ELSE {}
      BY <1>1, <1>2, <2>1 DEF Handled, Pooled, Coming, Signing, clVars, threads
    <3>2. /\ Sent(d)' \subseteq Sent(d)
          /\ d = c => h \in Sent(d) /\ \A s \in Sent(d)' : h < s
      BY <2>2, <2>3 DEF Sent
    <3> QED BY <3>1, <3>2
  <2>9. Numbered'
    <3> SUFFICES ASSUME NEW d \in Clients
                 PROVE  /\ \A r \in (Pooled(d) \cup Handled(d) \cup Sent(d) \cup Coming(d)
                                      \cup Listed(d))' : r \in Nat /\ r <= round'[d]
                        /\ \A p \in Pooled(d)', q \in (Handled(d) \cup Sent(d) \cup Coming(d))' :
                              p < q
                        /\ \A i \in Handled(d)', s \in (Sent(d) \cup Coming(d))' : i < s
                        /\ \A s \in Sent(d)', n \in Coming(d)' : s < n
                        /\ \A r \in Listed(d)' :
                              /\ \A q \in (Handled(d) \cup Sent(d) \cup Coming(d))' : r < q
                              /\ \A p \in Pooled(d)' : r <= p
      BY DEF Numbered
    <3>1. /\ Handled(d)' \subseteq Sent(d) /\ Sent(d)' \subseteq Sent(d)
          /\ Coming(d)' = Coming(d)
          /\ Pooled(d)' = Pooled(d) /\ Listed(d)' \subseteq Listed(d)
          /\ round'[d] = round[d]
          /\ \A i \in Handled(d)', s \in Sent(d)' : i < s
      BY <2>7, <2>8
    <3>2. /\ \A r \in Pooled(d) \cup Handled(d) \cup Sent(d) \cup Coming(d) \cup Listed(d) :
                r \in Nat /\ r <= round[d]
          /\ \A p \in Pooled(d), q \in Handled(d) \cup Sent(d) \cup Coming(d) : p < q
          /\ \A s \in Sent(d), n \in Coming(d) : s < n
          /\ \A r \in Listed(d) :
                /\ \A q \in Handled(d) \cup Sent(d) \cup Coming(d) : r < q
                /\ \A p \in Pooled(d) : r <= p
      BY <1>0 DEF Order, Numbered
    <3> QED BY <3>1, <3>2
  <2>10. Answered'
    <3>1. \A d \in Clients : \A T : Answers(d, T) => Answers(d, T)'
      BY <2>8 DEF Answers
    <3> QED BY <1>0, <2>2, <2>3, <2>8, <3>1 DEF Order, Answered
  <2>11. OnlyThese' /\ SigsFit'
    BY <1>0, <1>1, <2>7 DEF Order, OnlyThese, SigsFit
  <2>12. ClientsOK'
    BY <1>0, <1>1 DEF ClientsOK, clVars, threads
  <2> QED BY <2>4, <2>5, <2>6, <2>9, <2>10, <2>11, <2>12 DEF Inv, Order
<1> QED BY <1>3, <1>4 DEF Entry

\* The pool with one entry more.
LEMMA AddedEntry ==
  ASSUME TypeOK, PoolOK, net.at = "entry", ~IsFull(mn), ~AlreadyHave,
         mn' = [mn EXCEPT !.vecEntries = @ \cup {NewEntry}]
  PROVE  /\ mn' \in MnType
         /\ mn'.vecEntries = mn.vecEntries \cup {NewEntry}
         /\ mn'.nState = mn.nState /\ mn'.finalTransaction = mn.finalTransaction
         /\ NewEntry \in Entries /\ NewEntry.sig = NoTx
         /\ NewEntry.by = net.by /\ NewEntry.round = net.round
         /\ EntryId(NewEntry) = [by |-> net.by, round |-> net.round]
         /\ \A d, e \in mn'.vecEntries : d.by = e.by => d = e
         /\ IsFiniteSet(mn'.vecEntries)
         /\ Cardinality(mn'.vecEntries) <= MaxUsers
         /\ mn.nState # "SIGNING"
<1>1. net.by \in Clients /\ net.round \in Nat /\ mn \in MnType
  BY NetFields, MnTypes DEF TypeOK, MnOK, Answering
<1>2. /\ NewEntry \in Entries /\ NewEntry.sig = NoTx
      /\ NewEntry.by = net.by /\ NewEntry.round = net.round
      /\ EntryId(NewEntry) = [by |-> net.by, round |-> net.round]
  BY <1>1 DEF NewEntry, Entries, NoTx, EntryId
<1> DEFINE new == mn.vecEntries \cup {NewEntry}
<1>3. /\ new \in SUBSET Entries
      /\ \A d, e \in new : d.by = e.by => d = e
  BY <1>1, <1>2 DEF MnType, PoolOK, AlreadyHave
<1>4. IsFiniteSet(mn.vecEntries) /\ Cardinality(mn.vecEntries) \in Nat
  BY FS_CardinalityType DEF PoolOK
<1>5. /\ IsFiniteSet(new)
      /\ Cardinality(new) \in {Cardinality(mn.vecEntries), Cardinality(mn.vecEntries) + 1}
  BY <1>4, FS_AddElement
<1>6. Cardinality(mn.vecEntries) < MaxUsers /\ MaxUsers \in Nat
  BY <1>4, CountAssumption DEF IsFull
<1>7. mn.nState # "SIGNING"
  BY <1>4, <1>6 DEF PoolOK, FullPool
<1> HIDE DEF new
<1>8. Cardinality(new) <= MaxUsers
  BY <1>4, <1>5, <1>6
<1>9. mn' = [mn EXCEPT !.vecEntries = new]
  BY DEF new
<1>10. /\ mn' \in MnType /\ mn'.vecEntries = new
       /\ mn'.nState = mn.nState /\ mn'.finalTransaction = mn.finalTransaction
  BY <1>1, <1>3, <1>9 DEF MnType
<1> QED BY <1>2, <1>3, <1>5, <1>7, <1>8, <1>10 DEF new

\* An entry goes into the pool: no transaction under way has it.
LEMMA AddEntryStep ==
  ASSUME Inv, AddEntry
  PROVE  Inv'
<1> DEFINE c == net.by
           h == net.round
<1>0. /\ TypeOK /\ PoolOK /\ MnOK /\ Order /\ ClientsOK /\ sessions \in Nat
      /\ toCl \in [Clients -> Seq(ToCl)]
  BY MnTypes DEF Inv, TypeOK, WiresOK, MnOK
<1>1. /\ net.at = "entry" /\ UNCHANGED <<timer, sessions, clVars, up, toMn, mixed, turns>>
      /\ c \in Clients /\ h \in Nat /\ net.lost \in BOOLEAN
      /\ timer' \in {"idle", "charging", "ready"} /\ mixed' \subseteq Clients /\ Takes
  BY <1>0, NetFields DEF AddEntry, MnOK, TypeOK, Takes, Answering
<1>2. CASE toCl' = Answer(toCl, Rejected) /\ mn' = SetNullMn /\ net' = Idle
  <2>1. Told(toCl, toCl')
    BY <1>0, <1>1, <1>2, AnswerTold, MessageTypes DEF Answering
  <2>2. net' \in Handlings /\ net'.at = "idle"
    BY <1>2, HandlingTypes
  <2>3. MnOK' /\ PoolOK' /\ PoolKept
    BY <1>0, <1>1, <1>2, <2>2, SetNullKeeps
  <2> QED BY <1>1, <2>1, <2>2, <2>3, SafenodeHolds
<1>3. CASE /\ ~IsFull(mn) /\ ~AlreadyHave
           /\ mn' = [mn EXCEPT !.vecEntries = @ \cup {NewEntry}]
           /\ net' = [at |-> "added", by |-> c, lost |-> net.lost] /\ UNCHANGED toCl
  <2>1. /\ mn' \in MnType
        /\ mn'.vecEntries = mn.vecEntries \cup {NewEntry}
        /\ mn'.nState = mn.nState /\ mn'.finalTransaction = mn.finalTransaction
        /\ NewEntry \in Entries /\ NewEntry.sig = NoTx
        /\ NewEntry.by = c /\ NewEntry.round = h
        /\ EntryId(NewEntry) = [by |-> c, round |-> h]
        /\ \A d, e \in mn'.vecEntries : d.by = e.by => d = e
        /\ IsFiniteSet(mn'.vecEntries)
        /\ Cardinality(mn'.vecEntries) <= MaxUsers
        /\ mn.nState # "SIGNING"
    BY <1>0, <1>1, <1>3, AddedEntry
  <2>2. net' \in Handlings /\ net'.at = "added"
    BY <1>1, <1>3, HandlingTypes DEF Answering
  <2>3. MnOK' /\ TypeOK'
    <3>1. MnOK'
      BY <1>0, <1>1, <2>1, <2>2 DEF MnOK, MnType
    <3>2. ClOK' /\ WiresOK'
      BY <1>0, <1>1, <1>3 DEF TypeOK, ClOK, WiresOK, clVars, threads
    <3> QED BY <1>0, <1>1, <3>1, <3>2 DEF TypeOK
  <2>4. PoolOK'
    BY <1>0, <1>1, <2>1, <2>2 DEF PoolOK
  <2> HIDE DEF c, h
  <2>5. Queued'
    BY <1>0, <1>1 DEF Order, Queued
  <2>6. Out' = Out /\ \A d \in Clients : Listed(d)' = Listed(d)
    <3>1. Made' = Made /\ \A d \in Clients : Signing(d)' = Signing(d)
      BY <1>1, <2>2 DEF Made, Signing, clVars, threads
    <3>2. Out' = Out
      BY <1>1, <1>3, <3>1 DEF Out
    <3> QED BY <3>2 DEF Listed
  <2>7. ASSUME NEW d \in Clients
        PROVE  /\ Handled(d)' = {} /\ Sent(d)' = Sent(d) /\ Coming(d)' = Coming(d)
               /\ Signing(d)' = Signing(d) /\ round'[d] = round[d]
               /\ Handled(d) = IF d = c THEN {h} ELSE {}
               /\ Pooled(d)' = Pooled(d) \cup Handled(d)
    <3>1. /\ Handled(d)' = {} /\ Sent(d)' = Sent(d) /\ Coming(d)' = Coming(d)
          /\ Signing(d)' = Signing(d) /\ round'[d] = round[d]
      BY <1>1, <2>2 DEF Handled, Sent, Coming, Signing, clVars, threads
    <3>2. Handled(d) = IF d = c THEN {h} ELSE {}
      BY <1>1 DEF Handled, c, h
    <3>3. Pooled(d)' = Pooled(d) \cup Handled(d)
      BY <2>1, <3>2 DEF Pooled
    <3> QED BY <3>1, <3>2, <3>3
  <2>8. Numbered'
    <3> SUFFICES ASSUME NEW d \in Clients
                 PROVE  /\ \A r \in (Pooled(d) \cup Handled(d) \cup Sent(d) \cup Coming(d)
                                      \cup Listed(d))' : r \in Nat /\ r <= round'[d]
                        /\ \A p \in Pooled(d)', q \in (Handled(d) \cup Sent(d) \cup Coming(d))' :
                              p < q
                        /\ \A i \in Handled(d)', s \in (Sent(d) \cup Coming(d))' : i < s
                        /\ \A s \in Sent(d)', n \in Coming(d)' : s < n
                        /\ \A r \in Listed(d)' :
                              /\ \A q \in (Handled(d) \cup Sent(d) \cup Coming(d))' : r < q
                              /\ \A p \in Pooled(d)' : r <= p
      BY DEF Numbered
    <3>1. /\ \A r \in Pooled(d) \cup Handled(d) \cup Sent(d) \cup Coming(d) \cup Listed(d) :
                r \in Nat /\ r <= round[d]
          /\ \A p \in Pooled(d), q \in Handled(d) \cup Sent(d) \cup Coming(d) : p < q
          /\ \A i \in Handled(d), s \in Sent(d) \cup Coming(d) : i < s
          /\ \A s \in Sent(d), n \in Coming(d) : s < n
          /\ \A r \in Listed(d) :
                /\ \A q \in Handled(d) \cup Sent(d) \cup Coming(d) : r < q
                /\ \A p \in Pooled(d) : r <= p
      BY <1>0 DEF Order, Numbered
    <3>2. \A r \in Listed(d), i \in Handled(d) : r <= i
      BY <3>1
    <3>3. \A r \in Listed(d) : \A p \in Pooled(d) \cup Handled(d) : r <= p
      BY <3>1, <3>2
    <3> QED BY <2>6, <2>7, <3>1, <3>3
  <2>9. Answered'
    <3>1. ASSUME NEW d \in Clients, NEW T \in Signing(d) \cup SignsIn(toMn[d])
          PROVE  Answers(d, T)'
      <4>1. Answers(d, T) /\ Handled(d) = {}
        BY <1>0, <3>1 DEF Order, Answered
      <4>2. Pooled(d)' = Pooled(d)
        BY <2>7, <4>1
      <4> QED BY <4>1, <4>2 DEF Answers
    <3> QED BY <1>0, <1>1, <2>7, <3>1 DEF Order, Answered
  <2>10. \A T \in Out : EntryId(NewEntry) \notin T
    <3> SUFFICES ASSUME NEW T \in Out, EntryId(NewEntry) \in T PROVE FALSE
      OBVIOUS
    <3>1. h \in Handled(c)
      BY <1>1, <2>7
    <3>2. h \in Listed(c)
      <4>1. EntryId(NewEntry).by = c /\ EntryId(NewEntry).round = h
        BY <2>1
      <4> QED BY <4>1 DEF Listed
    <3>3. h < h
      BY <1>0, <1>1, <3>1, <3>2 DEF Order, Numbered
    <3> QED BY <1>1, <3>3
  <2>11. OnlyThese' /\ SigsFit'
    BY <1>0, <2>1, <2>6, <2>10 DEF Order, OnlyThese, SigsFit
  <2>12. ClientsOK'
    BY <1>0, <1>1 DEF ClientsOK, clVars, threads
  <2> QED BY <2>3, <2>4, <2>5, <2>8, <2>9, <2>11, <2>12 DEF Inv, Order
<1> QED BY <1>2, <1>3 DEF AddEntry

-----------------------------------------------------------------------------
(* The clients.                                                                *)

PoolAts == {"idle", "start", "connected", "timeout", "error"}
Crossings == {"timeout", "reset"}

\* What Inv says of one client.
LEMMA OneClient ==
  ASSUME Inv, NEW c \in Clients
  PROVE  /\ TypeOK /\ MnOK /\ ClOK /\ WiresOK /\ ClientsOK
         /\ cl[c] \in Pools /\ handler[c] \in Handlers /\ pool[c] \in PoolAts
         /\ crossed[c] \in SUBSET Crossings /\ round[c] \in Nat
         /\ cl = [cl EXCEPT ![c] = cl[c]] /\ handler = [handler EXCEPT ![c] = handler[c]]
         /\ pool = [pool EXCEPT ![c] = pool[c]]
         /\ crossed = [crossed EXCEPT ![c] = crossed[c]]
         /\ round = [round EXCEPT ![c] = round[c]]
         /\ handler[c].at = "idle" <=> handler[c] = Idle
         /\ ClientFits(cl[c], handler[c].at, pool[c], c \in resetting, crossed[c], round[c])
<1>1. TypeOK /\ MnOK /\ ClOK /\ WiresOK /\ ClientsOK
  BY DEF Inv, TypeOK
<1>2. handler[c] \in Handlers
  BY <1>1 DEF ClOK
<1>3. handler[c].at = "idle" <=> handler[c] = Idle
  BY <1>2, HandlerFields
<1>4. /\ cl[c] \in Pools /\ handler[c] \in Handlers /\ pool[c] \in PoolAts
      /\ crossed[c] \in SUBSET Crossings /\ round[c] \in Nat
      /\ cl = [cl EXCEPT ![c] = cl[c]] /\ handler = [handler EXCEPT ![c] = handler[c]]
      /\ pool = [pool EXCEPT ![c] = pool[c]]
      /\ crossed = [crossed EXCEPT ![c] = crossed[c]]
      /\ round = [round EXCEPT ![c] = round[c]]
  BY <1>1 DEF ClOK, PoolAts, Crossings
<1>5. ClientFits(cl[c], handler[c].at, pool[c], c \in resetting, crossed[c], round[c])
  BY <1>1 DEF ClientsOK
<1> QED BY <1>1, <1>3, <1>4, <1>5

\* One client becomes pool p, with its threads at h and q and x crossed; the others stay.
Becomes(c, p, h, q, x) ==
    /\ cl' = [cl EXCEPT ![c] = p] /\ handler' = [handler EXCEPT ![c] = h]
    /\ pool' = [pool EXCEPT ![c] = q] /\ crossed' = [crossed EXCEPT ![c] = x]
    /\ p \in Pools /\ h \in Handlers /\ q \in PoolAts /\ x \in SUBSET Crossings

LEMMA ClientBecomes ==
  ASSUME Inv, NEW c \in Clients, NEW p, NEW h, NEW q, NEW x, Becomes(c, p, h, q, x),
         resetting' \subseteq Clients,
         \A d \in Clients : d # c => (d \in resetting' <=> d \in resetting),
         NEW n \in Nat, round' = [round EXCEPT ![c] = n],
         ClientFits(p, h.at, q, c \in resetting', x, n)
  PROVE  /\ ClOK' /\ ClientsOK' /\ handler'[c] = h
         /\ \A d \in Clients : d # c => handler'[d] = handler[d]
<1>1. ClOK /\ ClientsOK
  BY DEF Inv, TypeOK
<1>2. ClOK'
  BY <1>1 DEF ClOK, Becomes, PoolAts, Crossings
<1>3. ASSUME NEW d \in Clients, d # c
      PROVE  /\ ClientFits(cl'[d], handler'[d].at, pool'[d], d \in resetting', crossed'[d],
                           round'[d])
             /\ handler'[d] = handler[d]
  <2>1. /\ cl'[d] = cl[d] /\ handler'[d] = handler[d] /\ pool'[d] = pool[d]
        /\ crossed'[d] = crossed[d] /\ round'[d] = round[d]
        /\ d \in resetting' <=> d \in resetting
    BY <1>1, <1>3 DEF ClOK, Becomes
  <2>2. ClientFits(cl[d], handler[d].at, pool[d], d \in resetting, crossed[d], round[d])
    BY <1>1 DEF ClientsOK
  <2>3. (d \in resetting') = (d \in resetting)
    BY <2>1
  <2> QED BY <2>1, <2>2, <2>3
<1>4. /\ cl'[c] = p /\ handler'[c] = h /\ pool'[c] = q /\ crossed'[c] = x /\ round'[c] = n
  BY <1>1 DEF ClOK, Becomes
<1>5. ClientsOK'
  BY <1>3, <1>4 DEF ClientsOK
<1> QED BY <1>2, <1>3, <1>4, <1>5

\* The actions of a client are quiet unless it sends an entry or a signature.
LEMMA ClientHolds ==
  ASSUME Inv, NEW c \in Clients, ClOK', ClientsOK',
         handler'[c].at \notin {"relay", "sign"} \/ handler'[c] = handler[c],
         \A d \in Clients : d # c => handler'[d] = handler[d],
         round' = round, UNCHANGED <<mnVars, mixed>>,
         toMn' \in [Clients -> Seq(ToMn)], up' \subseteq Clients,
         \A d \in Clients : (d \in up' \/ toMn'[d] = <<>>) /\ Kept(toMn[d], toMn'[d]),
         Told(toCl, toCl'), turns' \in 0 .. MaxTurns
  PROVE  Inv'
<1>1. TypeOK /\ MnOK /\ PoolOK /\ Order
  BY DEF Inv, TypeOK
<1>2. TypeOK'
  BY <1>1 DEF TypeOK, MnOK, WiresOK, Told, mnVars
<1>3. PoolOK' /\ PoolKept
  BY <1>1 DEF PoolOK, FullPool, Ids, PoolKept, mnVars
<1>4. \A d \in Clients : /\ Coming(d)' \subseteq Coming(d) /\ Signing(d)' \subseteq Signing(d)
                         /\ Handled(d)' = Handled(d) /\ Pooled(d)' = Pooled(d)
  BY DEF Coming, Signing, Handled, Pooled, mnVars
<1>5. Out' \subseteq Out
  <2>1. Made' = Made
    BY DEF Made, mnVars
  <2> QED BY <1>4, <2>1, OutShrinks DEF Kept
<1>6. Quiet
  BY <1>4, <1>5 DEF Quiet
<1> QED BY <1>1, <1>2, <1>3, <1>6, OrderKept DEF Inv

\* Both together, when nothing is sent.
LEMMA ClientKeeps ==
  ASSUME Inv, NEW c \in Clients, NEW p, NEW h, NEW q, NEW x, Becomes(c, p, h, q, x),
         resetting' \subseteq Clients,
         \A d \in Clients : d # c => (d \in resetting' <=> d \in resetting),
         round' = round,
         ClientFits(p, h.at, q, c \in resetting', x, round[c]),
         h.at \notin {"relay", "sign"} \/ h = handler[c],
         UNCHANGED <<mnVars, mixed, toMn>>, up \subseteq up', up' \subseteq Clients,
         Told(toCl, toCl'), turns' \in 0 .. MaxTurns
  PROVE  Inv'
<1>1. WiresOK /\ round[c] \in Nat /\ round = [round EXCEPT ![c] = round[c]]
  BY OneClient
<1>2. /\ ClOK' /\ ClientsOK' /\ handler'[c] = h
      /\ \A d \in Clients : d # c => handler'[d] = handler[d]
  BY <1>1, ClientBecomes
<1>3. /\ toMn' \in [Clients -> Seq(ToMn)]
      /\ \A d \in Clients : (d \in up' \/ toMn'[d] = <<>>) /\ Kept(toMn[d], toMn'[d])
  BY <1>1, KeptSame DEF WiresOK
<1> QED BY <1>2, <1>3, ClientHolds

\* What a client heard has it wait, or do nothing.
LEMMA Hearing ==
  ASSUME Inv, NEW c \in Clients, NEW type, Hears(c, type)
  PROVE  /\ handler[c] = Idle /\ handler[c].at = "idle" /\ Told(toCl, toCl')
         /\ up' = up /\ turns' \in 0 .. MaxTurns /\ up' \subseteq Clients
         /\ UNCHANGED <<mnVars, mixed, toMn, round>>
         /\ Head(toCl[c]) \in ToCl /\ Head(toCl[c]).type = type
<1>1. TypeOK
  BY DEF Inv
<1>2. /\ handler[c] = Idle /\ Told(toCl, toCl')
      /\ UNCHANGED <<mnVars, round, up, toMn, mixed, turns>>
      /\ Head(toCl[c]) \in ToCl /\ Head(toCl[c]).type = type
  BY <1>1, HearsTypes
<1> QED BY <1>1, <1>2, HandlingTypes DEF TypeOK, WiresOK

LEMMA BesideTypes ==
  ASSUME Inv, NEW c \in Clients
  PROVE  /\ crossed[c] \cup Beside(c) \in SUBSET Crossings
         /\ c \in resetting => "reset" \in Beside(c)
         /\ pool[c] \in {"timeout", "error"} => "timeout" \in Beside(c)
BY OneClient DEF Beside, Crossings

\* A handler that waits to end the session fits, whatever it crosses.
LEMMA EndingStep ==
  ASSUME Inv, NEW c \in Clients, NEW type, Hears(c, type), cl' = cl,
         \/ UNCHANGED threads
         \/ \E at \in {"quitting", "failing"} : Begin(c, [at |-> at])
  PROVE  Inv'
<1> DEFINE x == crossed[c] \cup Beside(c)
<1>1. /\ handler[c] = Idle /\ handler[c].at = "idle" /\ Told(toCl, toCl')
      /\ up' = up /\ turns' \in 0 .. MaxTurns /\ up' \subseteq Clients
      /\ UNCHANGED <<mnVars, mixed, toMn, round>>
  BY Hearing
<1>2. /\ cl[c] \in Pools /\ handler[c] \in Handlers /\ pool[c] \in PoolAts
      /\ crossed[c] \in SUBSET Crossings /\ resetting \subseteq Clients
      /\ cl = [cl EXCEPT ![c] = cl[c]] /\ handler = [handler EXCEPT ![c] = handler[c]]
      /\ pool = [pool EXCEPT ![c] = pool[c]]
      /\ crossed = [crossed EXCEPT ![c] = crossed[c]]
      /\ ClientFits(cl[c], handler[c].at, pool[c], c \in resetting, crossed[c], round[c])
  BY OneClient DEF ClOK
<1>3. CASE UNCHANGED threads
  <2>1. Becomes(c, cl[c], handler[c], pool[c], crossed[c]) /\ resetting' = resetting
    BY <1>2, <1>3 DEF Becomes, threads
  <2>2. ClientFits(cl[c], handler[c].at, pool[c], c \in resetting', crossed[c], round[c])
    BY <1>2, <2>1
  <2> QED BY <1>1, <1>2, <2>1, <2>2, ClientKeeps
<1>4. ASSUME NEW at \in {"quitting", "failing"}, Begin(c, [at |-> at]) PROVE Inv'
  <2>1. x \in SUBSET Crossings
    BY BesideTypes
  <2>2. [at |-> at] \in Handlers /\ [at |-> at].at = at
    BY DEF Handlers
  <2>3. Becomes(c, cl[c], [at |-> at], pool[c], x) /\ resetting' = resetting
    BY <1>2, <1>4, <2>1, <2>2 DEF Becomes, Begin
  <2> HIDE DEF x
  <2>4. ClientFits(cl[c], at, pool[c], c \in resetting', x, round[c])
    <3>1. crossed[c] \subseteq x
      BY DEF x
    <3>2. at \notin Working \cup {"idle", "prepare", "prepared", "check", "relay", "sign"}
      BY DEF Working
    <3> QED BY <1>1, <1>2, <2>3, <3>1, <3>2 DEF ClientFits, Steady
  <2> QED BY <1>1, <1>2, <2>2, <2>3, <2>4, ClientKeeps
<1> QED BY <1>3, <1>4

LEMMA HearEndingStep ==
  ASSUME Inv, NEW c \in Clients, HearRejected(c) \/ HearComplete(c)
  PROVE  Inv'
BY EndingStep DEF HearRejected, HearComplete

LEMMA HearReadyStep ==
  ASSUME Inv, NEW c \in Clients, HearReady(c)
  PROVE  Inv'
<1> DEFINE x == crossed[c] \cup Beside(c)
<1>1. Hears(c, "ready") /\ cl' = cl
  BY DEF HearReady
<1>2. CASE UNCHANGED threads
  BY <1>1, <1>2, EndingStep
<1>3. CASE cl[c].submitted /\ cl[c].nState = "QUEUE" /\ Begin(c, [at |-> "prepare"])
  <2>1. /\ handler[c] = Idle /\ handler[c].at = "idle" /\ Told(toCl, toCl')
        /\ up' = up /\ turns' \in 0 .. MaxTurns /\ up' \subseteq Clients
        /\ UNCHANGED <<mnVars, mixed, toMn, round>>
    BY <1>1, Hearing
  <2>2. /\ cl[c] \in Pools /\ pool[c] \in PoolAts /\ resetting \subseteq Clients
        /\ cl = [cl EXCEPT ![c] = cl[c]] /\ pool = [pool EXCEPT ![c] = pool[c]]
        /\ ClientFits(cl[c], "idle", pool[c], c \in resetting, crossed[c], round[c])
    BY <2>1, OneClient DEF ClOK
  <2>3. /\ x \in SUBSET Crossings /\ crossed[c] \subseteq x
        /\ c \in resetting => "reset" \in x
        /\ pool[c] \in {"timeout", "error"} => "timeout" \in x
    BY BesideTypes
  <2>4. [at |-> "prepare"] \in Handlers
    BY DEF Handlers
  <2>5. Becomes(c, cl[c], [at |-> "prepare"], pool[c], x) /\ resetting' = resetting
    BY <1>1, <1>3, <2>2, <2>3, <2>4 DEF Becomes, Begin
  <2> HIDE DEF x
  <2>6. ClientFits(cl[c], "prepare", pool[c], c \in resetting', x, round[c])
    <3>2. ASSUME x = {} PROVE Steady(cl[c], "prepare", pool[c], c \in resetting')
      <4>1. Steady(cl[c], "idle", pool[c], c \in resetting)
        BY <2>2, <2>3, <3>2 DEF ClientFits
      <4>2. pool[c] = "idle" /\ c \notin resetting'
        BY <1>3, <2>2, <2>3, <2>5, <3>2, <4>1 DEF Steady, PoolAts
      <4> QED BY <1>3, <4>1, <4>2 DEF Steady, Promising
    <3>3. cl[c].collateral \/ "reset" \in x
      BY <1>3, <2>2, <2>3 DEF ClientFits
    <3> QED BY <2>2, <2>3, <2>5, <3>2, <3>3 DEF ClientFits
  <2> QED BY <2>1, <2>2, <2>4, <2>5, <2>6, ClientKeeps
<1> QED BY <1>1, <1>2, <1>3 DEF HearReady

\* The ends of a session on a client: what is locked and on the list is unlocked.
LEMMA ClientEnds ==
  ASSUME NEW p \in Pools
  PROVE  /\ GiveUp(p) \in Pools /\ GiveUp(p).nState = "IDLE"
         /\ GiveUp(p).submitted = FALSE /\ GiveUp(p).entry = NoRound
         /\ GiveUp(p).locked = (p.locked /\ ~p.listed) /\ GiveUp(p).listed = FALSE
         /\ GiveUp(p).collateral = p.collateral
         /\ Failed(p) = [GiveUp(p) EXCEPT !.nState = "ERROR"]
<1> DEFINE u == UnlockCoins(p)
<1>1. /\ u \in Pools /\ u.locked = (p.locked /\ ~p.listed) /\ u.listed = FALSE
      /\ u.collateral = p.collateral
  BY DEF UnlockCoins, Pools
<1>2. GiveUp(p) = [u EXCEPT !.nState = "IDLE", !.nSessionID = NoSession, !.submitted = FALSE,
                            !.entry = NoRound]
  BY DEF GiveUp, SetNull
<1>3. "IDLE" \in States /\ NoSession \in Nat /\ NoRound \in Nat
  BY DEF States, NoSession, NoRound
<1> HIDE DEF u
<1>4. /\ GiveUp(p) \in Pools /\ GiveUp(p).nState = "IDLE"
      /\ GiveUp(p).submitted = FALSE /\ GiveUp(p).entry = NoRound
      /\ GiveUp(p).locked = u.locked /\ GiveUp(p).listed = u.listed
      /\ GiveUp(p).collateral = u.collateral
  BY <1>1, <1>2, <1>3 DEF Pools
<1> QED BY <1>1, <1>4 DEF Failed

\* A pool whose session is over.
Over(p, after) ==
    /\ after \in Pools /\ after.nState \in {"IDLE", "ERROR"} /\ after.entry = NoRound
    /\ after.submitted => after.collateral
    /\ after.locked = (p.locked /\ ~p.listed) /\ after.listed = FALSE
    /\ p.collateral => after.collateral

LEMMA EndsOver ==
  ASSUME NEW p \in Pools
  PROVE  /\ Over(p, GiveUp(p)) /\ Over(p, Failed(p))
         /\ Over(p, [GiveUp(p) EXCEPT !.submitted = TRUE, !.collateral = TRUE])
<1> DEFINE g == GiveUp(p)
<1>1. /\ g \in Pools /\ g.nState = "IDLE" /\ g.submitted = FALSE /\ g.entry = NoRound
      /\ g.locked = (p.locked /\ ~p.listed) /\ g.listed = FALSE
      /\ g.collateral = p.collateral /\ Failed(p) = [g EXCEPT !.nState = "ERROR"]
  BY ClientEnds
<1> HIDE DEF g
<1>2. Over(p, g)
  BY <1>1 DEF Over
<1>3. Over(p, Failed(p))
  BY <1>1 DEF Over, Pools, States
<1>4. Over(p, [g EXCEPT !.submitted = TRUE, !.collateral = TRUE])
  BY <1>1 DEF Over, Pools
<1> QED BY <1>2, <1>3, <1>4 DEF g

\* It fits: a handler that waits has been crossed, or ends a session itself, and an idle
\* one has nothing left to cross, unless coins were lost.
LEMMA OverFits ==
  ASSUME NEW p, NEW after, Over(p, after), NEW at, NEW to, NEW q, NEW r, NEW x, NEW n,
         NEW s, NEW t, NEW y,
         ClientFits(p, at, q, r, x, n),
         \/ at \in {"idle", "quitting", "failing"} /\ to = "idle"
         \/ at # "idle" /\ to = at,
         to \in Working => r \/ q # "idle",
         y = IF to = "idle" /\ ~after.locked THEN {} ELSE x
  PROVE  ClientFits(after, to, s, t, y, n)
<1>1. /\ after.nState \notin Promising /\ after.nState \in {"IDLE", "ERROR"}
      /\ after.entry = NoRound /\ ~after.listed /\ (after.locked <=> p.locked /\ ~p.listed)
      /\ after.submitted => after.collateral
      /\ p.collateral => after.collateral
  BY DEF Over, Promising
<1>2. to \in Working => x # {}
  BY DEF ClientFits, Steady, Working
<1>3. "reset" \notin x /\ to # "prepared" => ~after.locked
  BY <1>1 DEF ClientFits
<1>4. to # "idle" => y = x /\ at = to
  OBVIOUS
<1>5. ASSUME y = {} PROVE Steady(after, to, s, t)
  <2>1. to \notin Working
    BY <1>2, <1>4, <1>5 DEF Working
  <2>2. to # "prepare" /\ to # "prepared" /\ to # "check" /\ to # "relay" /\ to # "sign"
    BY <2>1 DEF Working
  <2>3. to = "idle" => ~after.locked
    BY <1>3, <1>5
  <2> QED BY <1>1, <2>1, <2>2, <2>3 DEF Steady
<1>6. to \in {"prepare", "prepared"} => after.collateral \/ "reset" \in y
  BY <1>1, <1>4 DEF ClientFits
<1>7. "reset" \notin y /\ to # "prepared" => (after.locked => after.listed)
  BY <1>3
<1> QED BY <1>1, <1>5, <1>6, <1>7 DEF ClientFits

\* An end of a session, in the handler or beside it, as a step of the client.
LEMMA OverStep ==
  ASSUME Inv, NEW c \in Clients, NEW p, Over(cl[c], p),
         NEW h \in Handlers, NEW q \in PoolAts,
         cl' = [cl EXCEPT ![c] = p], handler' = [handler EXCEPT ![c] = h],
         pool' = [pool EXCEPT ![c] = q], Settle(c),
         \/ handler[c].at \in {"idle", "quitting", "failing"} /\ h = Idle
         \/ handler[c].at # "idle" /\ h = handler[c],
         h.at \in Working => c \in resetting \/ pool[c] # "idle",
         resetting' \subseteq resetting,
         \A d \in Clients : d # c => (d \in resetting' <=> d \in resetting),
         UNCHANGED <<mnVars, round, toMn, toCl, mixed, turns>>,
         up \subseteq up', up' \subseteq Clients
  PROVE  Inv'
<1> DEFINE x == IF h.at = "idle" /\ ~p.locked THEN {} ELSE crossed[c]
<1>1. /\ cl[c] \in Pools /\ handler[c] \in Handlers
      /\ crossed[c] \in SUBSET Crossings /\ resetting \subseteq Clients
      /\ ClientFits(cl[c], handler[c].at, pool[c], c \in resetting, crossed[c], round[c])
      /\ TypeOK /\ ClOK /\ WiresOK
  BY OneClient DEF ClOK
<1>2. cl'[c] = p /\ handler'[c] = h
  BY <1>1 DEF ClOK
<1>3. h.at = "idle" <=> h = Idle
  BY HandlerFields
<1>4. crossed' = [crossed EXCEPT ![c] = x]
  BY <1>2, <1>3 DEF Settle
<1>5. Becomes(c, p, h, q, x) /\ resetting' \subseteq Clients
  <2>1. p \in Pools
    BY DEF Over
  <2> QED BY <1>1, <1>4, <2>1 DEF Becomes
<1>6. ClientFits(p, h.at, q, c \in resetting', x, round[c])
  <2>1. \/ handler[c].at \in {"idle", "quitting", "failing"} /\ h.at = "idle"
        \/ handler[c].at # "idle" /\ h.at = handler[c].at
    BY <1>3
  <2> DEFINE was == c \in resetting
             is == c \in resetting'
             at == handler[c].at
             to == h.at
  <2>2. ClientFits(cl[c], at, pool[c], was, crossed[c], round[c])
    BY <1>1
  <2>3. \/ at \in {"idle", "quitting", "failing"} /\ to = "idle"
        \/ at # "idle" /\ to = at
    BY <2>1
  <2>4. to \in Working => was \/ pool[c] # "idle"
    OBVIOUS
  <2>5. x = IF to = "idle" /\ ~p.locked THEN {} ELSE crossed[c]
    OBVIOUS
  <2> HIDE DEF was, is, at, to, x
  <2>6. ClientFits(p, to, q, is, x, round[c])
    BY <2>2, <2>3, <2>4, <2>5, OverFits
  <2> QED BY <2>6 DEF is, to
<1> HIDE DEF x
<1>7. Told(toCl, toCl') /\ turns' \in 0 .. MaxTurns
  BY <1>1, ToldSame DEF TypeOK, WiresOK
<1>8. h.at \notin {"relay", "sign"} \/ h = handler[c]
  BY <1>3
<1> QED BY <1>5, <1>6, <1>7, <1>8, ClientKeeps

LEMMA EndSessionStep ==
  ASSUME Inv, NEW c \in Clients, EndSession(c)
  PROVE  Inv'
<1>1. /\ cl[c] \in Pools /\ pool[c] \in PoolAts /\ pool = [pool EXCEPT ![c] = pool[c]]
      /\ WiresOK
  BY OneClient
<1>2. PICK p \in {GiveUp(cl[c]), Failed(cl[c])} : cl' = [cl EXCEPT ![c] = p]
  BY DEF EndSession
<1>3. /\ handler[c].at \in {"quitting", "failing"} /\ Settle(c)
      /\ handler' = [handler EXCEPT ![c] = Idle] /\ pool' = [pool EXCEPT ![c] = pool[c]]
      /\ UNCHANGED <<mnVars, round, up, toMn, toCl, mixed, turns, resetting>>
  BY <1>1 DEF EndSession, At
<1>4. Over(cl[c], p)
  BY <1>1, <1>2, EndsOver
<1>5. Idle \in Handlers /\ Idle.at \notin Working /\ up' \subseteq Clients /\ up \subseteq up'
  BY <1>1, <1>3, HandlingTypes DEF Working, WiresOK
<1> QED BY <1>1, <1>2, <1>3, <1>4, <1>5, OverStep

\* The ends of a session beside a handler that may wait.
LEMMA BesideStep ==
  ASSUME Inv, NEW c \in Clients, ConnectNode(c) \/ EndTimeout(c) \/ EndReset(c)
  PROVE  Inv'
<1> DEFINE g == [GiveUp(cl[c]) EXCEPT !.submitted = TRUE, !.collateral = TRUE]
<1>1. /\ cl[c] \in Pools /\ pool[c] \in PoolAts /\ pool = [pool EXCEPT ![c] = pool[c]]
      /\ handler = [handler EXCEPT ![c] = handler[c]] /\ handler[c] \in Handlers
      /\ handler[c].at = "idle" <=> handler[c] = Idle
      /\ WiresOK /\ ClOK
  BY OneClient
<1>2. PICK p \in {GiveUp(cl[c]), Failed(cl[c]), g} : cl' = [cl EXCEPT ![c] = p]
  BY DEF ConnectNode, EndTimeout, EndReset
<1>3. Over(cl[c], p)
  BY <1>1, <1>2, EndsOver
<1> HIDE DEF g
<1>4. PICK q \in PoolAts : pool' = [pool EXCEPT ![c] = q]
  BY <1>1 DEF ConnectNode, EndTimeout, EndReset, PoolGoes, PoolAts
<1>5. /\ handler' = handler /\ Settle(c) /\ (c \in resetting \/ pool[c] # "idle")
      /\ resetting' \subseteq resetting
      /\ \A d \in Clients : d # c => (d \in resetting' <=> d \in resetting)
      /\ UNCHANGED <<mnVars, round, toMn, toCl, mixed, turns>>
      /\ up \subseteq up' /\ up' \subseteq Clients
  BY <1>1 DEF ConnectNode, EndTimeout, EndReset, PoolGoes, WiresOK, wires
<1>6. \/ handler[c].at \in {"idle", "quitting", "failing"} /\ handler[c] = Idle
      \/ handler[c].at # "idle" /\ handler[c] = handler[c]
  BY <1>1
<1> QED BY <1>1, <1>2, <1>3, <1>4, <1>5, <1>6, OverStep

\* A handler goes on.
LEMMA ContinueStep ==
  ASSUME Inv, NEW c \in Clients, NEW p \in Pools, NEW h \in Handlers,
         cl' = [cl EXCEPT ![c] = p], Continue(c, h), h.at \notin {"relay", "sign"},
         ClientFits(p, h.at, pool[c], c \in resetting, crossed[c], round[c]),
         UNCHANGED <<mnVars, up, toCl, mixed, turns, round, toMn>>
  PROVE  Inv'
<1>1. /\ pool[c] \in PoolAts /\ crossed[c] \in SUBSET Crossings /\ resetting \subseteq Clients
      /\ pool = [pool EXCEPT ![c] = pool[c]] /\ crossed = [crossed EXCEPT ![c] = crossed[c]]
      /\ TypeOK /\ WiresOK
  BY OneClient DEF ClOK
<1>2. Becomes(c, p, h, pool[c], crossed[c]) /\ resetting' = resetting
  BY <1>1 DEF Becomes, Continue
<1>3. ClientFits(p, h.at, pool[c], c \in resetting', crossed[c], round[c])
  BY <1>2
<1>4. Told(toCl, toCl') /\ turns' \in 0 .. MaxTurns /\ up' \subseteq Clients /\ up \subseteq up'
  BY <1>1, ToldSame DEF TypeOK, WiresOK
<1> QED BY <1>1, <1>2, <1>3, <1>4, ClientKeeps

LEMMA PrepareDenominateStep ==
  ASSUME Inv, NEW c \in Clients, PrepareDenominate(c)
  PROVE  Inv'
<1> DEFINE p == cl[c]
           locked == [p EXCEPT !.locked = TRUE]
<1>1. /\ p \in Pools /\ cl = [cl EXCEPT ![c] = p] /\ pool[c] \in PoolAts /\ ClOK
      /\ ClientFits(p, "prepare", pool[c], c \in resetting, crossed[c], round[c])
      /\ UNCHANGED <<mnVars, up, toCl, mixed, turns, round, toMn>>
  BY OneClient DEF PrepareDenominate, At
<1>2. CASE cl' = [cl EXCEPT ![c].locked = TRUE] /\ Continue(c, [at |-> "prepared"])
  <2>1. /\ locked \in Pools /\ cl' = [cl EXCEPT ![c] = locked]
        /\ locked.locked = TRUE /\ locked.listed = p.listed /\ locked.nState = p.nState
        /\ locked.entry = p.entry /\ locked.submitted = p.submitted
        /\ locked.collateral = p.collateral
    BY <1>1, <1>2 DEF Pools, ClOK
  <2>2. [at |-> "prepared"] \in Handlers
    BY DEF Handlers
  <2> HIDE DEF locked, p
  <2>3. ClientFits(locked, "prepared", pool[c], c \in resetting, crossed[c], round[c])
    BY <1>1, <2>1 DEF ClientFits, Steady, Working
  <2> QED BY <1>1, <1>2, <2>1, <2>2, <2>3, ContinueStep
<1>3. CASE UNCHANGED cl /\ Continue(c, Idle)
  <2>1. Idle \in Handlers /\ Idle.at = "idle" /\ cl' = [cl EXCEPT ![c] = p]
    BY <1>1, <1>3, HandlingTypes
  <2> HIDE DEF p
  <2>2. ClientFits(p, "idle", pool[c], c \in resetting, crossed[c], round[c])
    BY <1>1 DEF ClientFits, Steady, Working, Promising
  <2> QED BY <1>1, <1>3, <2>1, <2>2, ContinueStep
<1> QED BY <1>2, <1>3 DEF PrepareDenominate

LEMMA SendDenominateStep ==
  ASSUME Inv, NEW c \in Clients, SendDenominate(c)
  PROVE  Inv'
<1> DEFINE p == cl[c]
           listed == [p EXCEPT !.listed = TRUE]
           accepting == [p EXCEPT !.listed = TRUE, !.nState = "ACCEPTING_ENTRIES"]
<1>1. /\ p \in Pools /\ cl = [cl EXCEPT ![c] = p] /\ pool[c] \in PoolAts /\ ClOK
      /\ ClientFits(p, "prepared", pool[c], c \in resetting, crossed[c], round[c])
      /\ UNCHANGED <<mnVars, up, toCl, mixed, turns, round, toMn>>
  BY OneClient DEF SendDenominate, At
<1>2. CASE ~p.collateral /\ UNCHANGED cl /\ Continue(c, Idle)
  <2>1. Idle \in Handlers /\ Idle.at = "idle" /\ cl' = [cl EXCEPT ![c] = p]
    BY <1>1, <1>2, HandlingTypes
  <2> HIDE DEF p
  <2>2. ClientFits(p, "idle", pool[c], c \in resetting, crossed[c], round[c])
    BY <1>1, <1>2 DEF ClientFits
  <2> QED BY <1>1, <1>2, <2>1, <2>2, ContinueStep
<1>3. CASE cl' = [cl EXCEPT ![c].listed = TRUE] /\ Continue(c, [at |-> "quitting"])
  <2>1. /\ listed \in Pools /\ cl' = [cl EXCEPT ![c] = listed]
        /\ listed.listed = TRUE
        /\ listed.entry = p.entry /\ listed.submitted = p.submitted
        /\ listed.collateral = p.collateral
    BY <1>1, <1>3 DEF Pools, ClOK
  <2>2. [at |-> "quitting"] \in Handlers
    BY DEF Handlers
  <2> HIDE DEF listed, p
  <2>3. ClientFits(listed, "quitting", pool[c], c \in resetting, crossed[c], round[c])
    BY <1>1, <2>1 DEF ClientFits, Steady, Working
  <2> QED BY <1>1, <1>3, <2>1, <2>2, <2>3, ContinueStep
<1>4. CASE /\ cl' = [cl EXCEPT ![c].listed = TRUE, ![c].nState = "ACCEPTING_ENTRIES"]
           /\ Continue(c, [at |-> "check"])
  <2>1. /\ accepting \in Pools /\ cl' = [cl EXCEPT ![c] = accepting]
        /\ accepting.locked = p.locked /\ accepting.listed = TRUE
        /\ accepting.nState = "ACCEPTING_ENTRIES"
        /\ accepting.entry = p.entry /\ accepting.submitted = p.submitted
        /\ accepting.collateral = p.collateral
    <3>1. cl' = [cl EXCEPT ![c] = accepting]
      BY <1>1, <1>4 DEF ClOK
    <3>2. "ACCEPTING_ENTRIES" \in States
      BY DEF States
    <3> HIDE DEF p
    <3>3. /\ accepting \in Pools
          /\ accepting.locked = p.locked /\ accepting.listed = TRUE
          /\ accepting.nState = "ACCEPTING_ENTRIES"
          /\ accepting.entry = p.entry /\ accepting.submitted = p.submitted
          /\ accepting.collateral = p.collateral
      BY <1>1, <3>2 DEF Pools
    <3> QED BY <3>1, <3>3
  <2>2. [at |-> "check"] \in Handlers
    BY DEF Handlers
  <2> HIDE DEF accepting, p
  <2>3. ClientFits(accepting, "check", pool[c], c \in resetting, crossed[c], round[c])
    BY <1>1, <2>1 DEF ClientFits, Steady, Working
  <2> QED BY <1>1, <1>4, <2>1, <2>2, <2>3, ContinueStep
<1> QED BY <1>2, <1>3, <1>4 DEF SendDenominate

LEMMA HearAcceptedStep ==
  ASSUME Inv, NEW c \in Clients, HearAccepted(c)
  PROVE  Inv'
<1> DEFINE n == IF cl[c].submitted /\ cl[c].nState = "QUEUE" /\ cl[c].nSessionID = NoSession
                THEN Head(toCl[c]).session ELSE cl[c].nSessionID
           p == [cl[c] EXCEPT !.nSessionID = n]
<1>1. /\ cl[c] \in Pools /\ handler[c] \in Handlers /\ pool[c] \in PoolAts /\ ClOK
      /\ crossed[c] \in SUBSET Crossings /\ resetting \subseteq Clients
      /\ handler = [handler EXCEPT ![c] = handler[c]] /\ pool = [pool EXCEPT ![c] = pool[c]]
      /\ crossed = [crossed EXCEPT ![c] = crossed[c]]
      /\ ClientFits(cl[c], handler[c].at, pool[c], c \in resetting, crossed[c], round[c])
  BY OneClient DEF ClOK
<1>2. Hears(c, "accepted") /\ UNCHANGED threads /\ cl' = [cl EXCEPT ![c] = p]
  BY <1>1 DEF HearAccepted, ClOK
<1>3. /\ handler[c].at = "idle" /\ Told(toCl, toCl')
      /\ up' = up /\ turns' \in 0 .. MaxTurns /\ up' \subseteq Clients
      /\ UNCHANGED <<mnVars, mixed, toMn, round>>
      /\ Head(toCl[c]).session \in Nat
  BY <1>2, Hearing, ToClFields
<1>4. n \in Nat
  BY <1>1, <1>3 DEF Pools
<1> HIDE DEF n
<1>5. /\ p \in Pools /\ p.locked = cl[c].locked /\ p.listed = cl[c].listed
      /\ p.nState = cl[c].nState /\ p.entry = cl[c].entry
      /\ p.submitted = cl[c].submitted /\ p.collateral = cl[c].collateral
  BY <1>1, <1>4 DEF Pools
<1> HIDE DEF p
<1>6. Becomes(c, p, handler[c], pool[c], crossed[c]) /\ resetting' = resetting
  BY <1>1, <1>2, <1>5 DEF Becomes, threads
<1>7. ClientFits(p, "idle", pool[c], c \in resetting', crossed[c], round[c])
  BY <1>1, <1>3, <1>5, <1>6 DEF ClientFits, Steady
<1> QED BY <1>1, <1>3, <1>6, <1>7, ClientKeeps

\* The pool thread of a client goes on and leaves the session as it is.
LEMMA PoolStep ==
  ASSUME Inv, NEW c \in Clients,
         DoAutomaticDenominating(c) \/ ClientTimeout(c) \/ CheckPool(c)
  PROVE  Inv'
<1>1. /\ cl[c] \in Pools /\ handler[c] \in Handlers /\ pool[c] \in PoolAts /\ ClOK
      /\ crossed[c] \in SUBSET Crossings /\ resetting \subseteq Clients
      /\ cl = [cl EXCEPT ![c] = cl[c]]
      /\ handler = [handler EXCEPT ![c] = handler[c]] /\ pool = [pool EXCEPT ![c] = pool[c]]
      /\ crossed = [crossed EXCEPT ![c] = crossed[c]]
      /\ handler[c].at = "idle" <=> handler[c] = Idle
      /\ ClientFits(cl[c], handler[c].at, pool[c], c \in resetting, crossed[c], round[c])
      /\ TypeOK /\ WiresOK
  BY OneClient DEF ClOK
<1>2. /\ pool[c] = "idle" /\ cl' = cl /\ handler' = handler /\ resetting' = resetting
      /\ UNCHANGED <<mnVars, round, up, toMn, toCl, mixed>>
      /\ turns' \in 0 .. MaxTurns
  BY <1>1, CountAssumption
     DEF DoAutomaticDenominating, ClientTimeout, CheckPool, PoolGoes, TakeTurn, TypeOK
<1>3. Told(toCl, toCl') /\ up' \subseteq Clients /\ up \subseteq up'
  BY <1>1, <1>2, ToldSame DEF WiresOK
<1>4. CASE DoAutomaticDenominating(c)
  <2>1. Becomes(c, cl[c], handler[c], "start", crossed[c]) /\ cl[c].nState = "IDLE"
    BY <1>1, <1>2, <1>4 DEF DoAutomaticDenominating, PoolGoes, Becomes, PoolAts
  <2>2. ClientFits(cl[c], handler[c].at, "start", c \in resetting', crossed[c], round[c])
    <3>1. ASSUME crossed[c] = {}
          PROVE  Steady(cl[c], handler[c].at, "start", c \in resetting')
      <4>1. Steady(cl[c], handler[c].at, pool[c], c \in resetting)
        BY <1>1, <3>1 DEF ClientFits
      <4> QED BY <2>1, <4>1 DEF Steady, Working, Promising
    <3> QED BY <1>1, <1>2, <3>1 DEF ClientFits
  <2> QED BY <1>1, <1>2, <1>3, <2>1, <2>2, ClientKeeps DEF PoolAts
<1>5. CASE ClientTimeout(c) \/ CheckPool(c)
  <2> DEFINE x == IF handler[c] = Idle THEN crossed[c] ELSE crossed[c] \cup {"timeout"}
  <2>1. PICK q \in {"timeout", "error"} : pool' = [pool EXCEPT ![c] = q]
    BY <1>5 DEF ClientTimeout, CheckPool, PoolGoes
  <2>2. Becomes(c, cl[c], handler[c], q, x)
    BY <1>1, <1>2, <1>5, <2>1
       DEF ClientTimeout, CheckPool, Cross, Becomes, PoolAts, Crossings
  <2>3. ClientFits(cl[c], handler[c].at, q, c \in resetting', x, round[c])
    <3>1. crossed[c] \subseteq x
      OBVIOUS
    <3>2. ASSUME x = {}
          PROVE  Steady(cl[c], handler[c].at, q, c \in resetting')
      <4>1. handler[c].at = "idle"
        BY <1>1, <3>2
      <4>2. Steady(cl[c], handler[c].at, pool[c], c \in resetting)
        BY <1>1, <3>1, <3>2 DEF ClientFits
      <4> QED BY <4>1, <4>2 DEF Steady, Working
    <3> HIDE DEF x
    <3> QED BY <1>1, <1>2, <3>1, <3>2 DEF ClientFits
  <2> HIDE DEF x
  <2> QED BY <1>1, <1>2, <1>3, <2>2, <2>3, ClientKeeps DEF PoolAts
<1> QED BY <1>4, <1>5

LEMMA ResetPoolStep ==
  ASSUME Inv, NEW c \in Clients, ResetPool(c)
  PROVE  Inv'
<1> DEFINE p == [cl[c] EXCEPT !.collateral = FALSE]
           x == IF handler[c] = Idle THEN crossed[c] ELSE crossed[c] \cup {"reset"}
<1>1. /\ cl[c] \in Pools /\ handler[c] \in Handlers /\ pool[c] \in PoolAts /\ ClOK
      /\ crossed[c] \in SUBSET Crossings /\ resetting \subseteq Clients
      /\ handler = [handler EXCEPT ![c] = handler[c]] /\ pool = [pool EXCEPT ![c] = pool[c]]
      /\ crossed = [crossed EXCEPT ![c] = crossed[c]]
      /\ handler[c].at = "idle" <=> handler[c] = Idle
      /\ ClientFits(cl[c], handler[c].at, pool[c], c \in resetting, crossed[c], round[c])
      /\ TypeOK /\ WiresOK
  BY OneClient DEF ClOK
<1>2. /\ handler' = handler /\ pool' = pool /\ resetting' = resetting \cup {c}
      /\ cl' = [cl EXCEPT ![c] = p] /\ crossed' = [crossed EXCEPT ![c] = x]
      /\ UNCHANGED <<mnVars, round, up, toMn, toCl, mixed>>
      /\ turns' \in 0 .. MaxTurns
  <2>1. /\ resetting' = resetting \cup {c} /\ Cross(c, "reset") /\ TakeTurn
        /\ cl' = [cl EXCEPT ![c] = p] /\ handler' = handler /\ pool' = pool
        /\ UNCHANGED <<mnVars, round, up, toMn, toCl, mixed>>
    BY DEF ResetPool, wires
  <2>2. turns' \in 0 .. MaxTurns
    BY <1>1, <2>1, CountAssumption DEF TakeTurn, TypeOK
  <2>3. crossed' = [crossed EXCEPT ![c] = x]
    <3>1. CASE handler[c] = Idle
      BY <1>1, <2>1, <3>1 DEF Cross
    <3>2. CASE handler[c] # Idle
      BY <2>1, <3>2 DEF Cross
    <3> QED BY <3>1, <3>2
  <2> QED BY <2>1, <2>2, <2>3
<1>3. Told(toCl, toCl') /\ up' \subseteq Clients /\ up \subseteq up'
  BY <1>1, <1>2, ToldSame DEF WiresOK
<1>4. /\ p \in Pools /\ p.locked = cl[c].locked /\ p.listed = cl[c].listed
      /\ p.nState = cl[c].nState /\ p.entry = cl[c].entry
      /\ p.submitted = cl[c].submitted
  BY <1>1 DEF Pools
<1>5. /\ crossed[c] \subseteq x /\ x \in SUBSET Crossings
      /\ handler[c].at # "idle" => "reset" \in x
  BY <1>1 DEF Crossings
<1> HIDE DEF p, x
<1>6. Becomes(c, p, handler[c], pool[c], x)
  BY <1>1, <1>2, <1>4, <1>5 DEF Becomes
<1>7. ClientFits(p, handler[c].at, pool[c], c \in resetting', x, round[c])
  <2>1. ASSUME x = {} PROVE Steady(p, handler[c].at, pool[c], c \in resetting')
    <3>1. handler[c].at = "idle" /\ Steady(cl[c], handler[c].at, pool[c], c \in resetting)
      BY <1>1, <1>5, <2>1 DEF ClientFits
    <3> QED BY <1>4, <3>1 DEF Steady, Working
  <2>2. c \in resetting'
    BY <1>2
  <2> QED BY <1>1, <1>4, <1>5, <2>1, <2>2 DEF ClientFits
<1>8. /\ resetting' \subseteq Clients
      /\ \A d \in Clients : d # c => (d \in resetting' <=> d \in resetting)
  BY <1>1, <1>2
<1> QED BY <1>1, <1>2, <1>3, <1>6, <1>7, <1>8, ClientKeeps

-----------------------------------------------------------------------------
(* The clients: what is sent and signed.                                       *)

\* What the safenode has is left alone.
LEMMA ClientSends ==
  ASSUME Inv, ClOK', ClientsOK', Queued', Numbered', Answered', Out' \subseteq Out,
         UNCHANGED <<mnVars, mixed, turns, up>>,
         toMn' \in [Clients -> Seq(ToMn)], \A d \in Clients : d \in up \/ toMn'[d] = <<>>,
         toCl' \in [Clients -> Seq(ToCl)]
  PROVE  Inv'
<1>1. TypeOK /\ MnOK /\ PoolOK /\ Order
  BY DEF Inv, TypeOK
<1>2. TypeOK'
  BY <1>1 DEF TypeOK, MnOK, WiresOK, mnVars
<1>3. PoolOK' /\ PoolKept
  BY <1>1 DEF PoolOK, FullPool, Ids, PoolKept, mnVars
<1>4. OnlyThese' /\ SigsFit'
  BY <1>1, <1>3, KeptPool DEF Order
<1> QED BY <1>2, <1>3, <1>4 DEF Inv, Order

\* What is sent to the safenode is at the end of the queue of its client, or lost.
LEMMA Pushed ==
  ASSUME Inv, NEW c \in Clients, NEW m \in ToMn, toMn' = Push(toMn, c, m)
  PROVE  /\ toMn' \in [Clients -> Seq(ToMn)]
         /\ \A d \in Clients : d \in up \/ toMn'[d] = <<>>
         /\ \A d \in Clients : d # c => toMn'[d] = toMn[d]
         /\ toMn'[c] \in {toMn[c], Append(toMn[c], m)} /\ toMn[c] \in Seq(ToMn)
<1>1. /\ toMn \in [Clients -> Seq(ToMn)]
      /\ \A d \in Clients : d \in up \/ toMn[d] = <<>>
  BY OneClient DEF WiresOK
<1>2. /\ toMn' \in [Clients -> Seq(ToMn)]
      /\ \A d \in Clients : /\ toMn'[d] \in {toMn[d], Append(toMn[d], m)}
                            /\ d # c \/ c \notin up => toMn'[d] = toMn[d]
  BY <1>1, PushTypes
<1> QED BY <1>1, <1>2

LEMMA AskToJoinStep ==
  ASSUME Inv, NEW c \in Clients, AskToJoin(c)
  PROVE  Inv'
<1> DEFINE p == [cl[c] EXCEPT !.nState = "QUEUE"]
           m == [type |-> "accept"]
<1>1. /\ cl[c] \in Pools /\ handler[c] \in Handlers /\ ClOK
      /\ crossed[c] \in SUBSET Crossings /\ resetting \subseteq Clients /\ round[c] \in Nat
      /\ handler = [handler EXCEPT ![c] = handler[c]]
      /\ crossed = [crossed EXCEPT ![c] = crossed[c]]
      /\ round = [round EXCEPT ![c] = round[c]]
      /\ ClientFits(cl[c], handler[c].at, pool[c], c \in resetting, crossed[c], round[c])
      /\ TypeOK /\ WiresOK
  BY OneClient DEF ClOK
<1>2. /\ pool[c] = "connected" /\ pool' = [pool EXCEPT ![c] = "idle"]
      /\ UNCHANGED <<mnVars, handler, resetting, crossed, round, up, toCl, mixed, turns>>
      /\ cl' = [cl EXCEPT ![c] = p] /\ toMn' = Push(toMn, c, m)
  BY DEF AskToJoin, PoolGoes
<1>3. /\ p \in Pools /\ p.nState = "QUEUE" /\ p.locked = cl[c].locked
      /\ p.listed = cl[c].listed /\ p.entry = cl[c].entry
      /\ p.submitted = cl[c].submitted /\ p.collateral = cl[c].collateral
  BY <1>1 DEF Pools, States
<1> HIDE DEF p
<1>4. Becomes(c, p, handler[c], "idle", crossed[c])
  BY <1>1, <1>2, <1>3 DEF Becomes, PoolAts
<1>5. ClientFits(p, handler[c].at, "idle", c \in resetting', crossed[c], round[c])
  <2>1. ASSUME crossed[c] = {} PROVE Steady(p, handler[c].at, "idle", c \in resetting')
    <3>1. Steady(cl[c], handler[c].at, pool[c], c \in resetting)
      BY <1>1, <2>1 DEF ClientFits
    <3> QED BY <1>2, <1>3, <3>1 DEF Steady, Working, Promising
  <2> QED BY <1>1, <1>2, <1>3, <2>1 DEF ClientFits
<1>6. /\ ClOK' /\ ClientsOK' /\ handler'[c] = handler[c]
      /\ \A d \in Clients : d # c => handler'[d] = handler[d]
  BY <1>1, <1>2, <1>4, <1>5, ClientBecomes
<1>7. m \in ToMn /\ m.type = "accept"
  BY MessageTypes
<1> HIDE DEF m
<1>8. /\ toMn' \in [Clients -> Seq(ToMn)]
      /\ \A d \in Clients : (d \in up \/ toMn'[d] = <<>>) /\ Kept(toMn[d], toMn'[d])
  <2>1. /\ toMn' \in [Clients -> Seq(ToMn)]
        /\ \A d \in Clients : d \in up \/ toMn'[d] = <<>>
        /\ \A d \in Clients : d # c => toMn'[d] = toMn[d]
        /\ toMn'[c] \in {toMn[c], Append(toMn[c], m)} /\ toMn[c] \in Seq(ToMn)
    BY <1>2, <1>7, Pushed
  <2>2. Kept(toMn[c], Append(toMn[c], m))
    BY <1>7, <2>1, QueueAppend DEF Kept
  <2> QED BY <2>1, <2>2, KeptSame
<1>9. Told(toCl, toCl') /\ turns' \in 0 .. MaxTurns /\ up' \subseteq Clients
  BY <1>1, <1>2, ToldSame DEF TypeOK, WiresOK
<1> QED BY <1>2, <1>6, <1>8, <1>9, ClientHolds

\* The entry a client makes is its latest.
LEMMA KeepEntryStep ==
  ASSUME Inv, NEW c \in Clients, KeepEntry(c)
  PROVE  Inv'
<1> DEFINE n == round[c] + 1
           p == [cl[c] EXCEPT !.entry = n]
<1>1. /\ cl[c] \in Pools /\ handler[c] \in Handlers /\ ClOK /\ pool[c] \in PoolAts
      /\ crossed[c] \in SUBSET Crossings /\ resetting \subseteq Clients /\ round[c] \in Nat
      /\ cl = [cl EXCEPT ![c] = cl[c]] /\ pool = [pool EXCEPT ![c] = pool[c]]
      /\ crossed = [crossed EXCEPT ![c] = crossed[c]]
      /\ ClientFits(cl[c], "check", pool[c], c \in resetting, crossed[c], round[c])
      /\ TypeOK /\ WiresOK /\ MnOK
  BY OneClient DEF ClOK, KeepEntry, At
<1>2. /\ handler[c].at = "check"
      /\ UNCHANGED <<mnVars, pool, resetting, crossed, up, toMn, toCl, mixed, turns>>
  BY DEF KeepEntry, At, Continue
<1>3. CASE UNCHANGED <<cl, round>> /\ Continue(c, [at |-> "quitting"])
  <2>1. [at |-> "quitting"] \in Handlers /\ cl' = [cl EXCEPT ![c] = cl[c]]
    BY <1>1, <1>3 DEF Handlers
  <2>2. ClientFits(cl[c], "quitting", pool[c], c \in resetting, crossed[c], round[c])
    BY <1>1 DEF ClientFits, Steady, Working
  <2> QED BY <1>1, <1>2, <1>3, <2>1, <2>2, ContinueStep
<1>4. ASSUME NEW h \in {[at |-> "relay", round |-> n], Idle},
             round' = [round EXCEPT ![c] = n], cl' = [cl EXCEPT ![c] = p],
             handler' = [handler EXCEPT ![c] = h]
      PROVE  Inv'
  <2>1. n \in Nat /\ n > round[c]
    BY <1>1
  <2>2. /\ h \in Handlers /\ h.at \in {"relay", "idle"}
        /\ h.at = "relay" => h.round = n
    BY <2>1, HandlingTypes DEF Handlers
  <2> HIDE DEF n
  <2>3. /\ p \in Pools /\ p.entry = n /\ p.locked = cl[c].locked /\ p.listed = cl[c].listed
        /\ p.nState = cl[c].nState /\ p.submitted = cl[c].submitted
        /\ p.collateral = cl[c].collateral
    BY <1>1, <2>1 DEF Pools
  <2> HIDE DEF p
  <2>4. Becomes(c, p, h, pool[c], crossed[c])
    BY <1>1, <1>2, <1>4, <2>2, <2>3 DEF Becomes
  <2>5. ClientFits(p, h.at, pool[c], c \in resetting', crossed[c], n)
    <3>1. ASSUME crossed[c] = {} PROVE Steady(p, h.at, pool[c], c \in resetting')
      <4>1. Steady(cl[c], "check", pool[c], c \in resetting)
        BY <1>1, <3>1 DEF ClientFits
      <4> QED BY <1>2, <2>2, <2>3, <4>1 DEF Steady, Working, Promising
    <3> QED BY <1>1, <1>2, <2>2, <2>3, <3>1 DEF ClientFits
  <2>6. /\ ClOK' /\ ClientsOK' /\ handler'[c] = h
        /\ \A d \in Clients : d # c => handler'[d] = handler[d]
    BY <1>1, <1>2, <1>4, <2>1, <2>4, <2>5, ClientBecomes
  <2>7. ASSUME NEW d \in Clients
        PROVE  /\ Sent(d)' = Sent(d) /\ Handled(d)' = Handled(d) /\ Pooled(d)' = Pooled(d)
               /\ Signing(d)' = Signing(d) /\ SignsIn(toMn[d])' = SignsIn(toMn[d])
               /\ round'[d] = IF d = c THEN n ELSE round[d]
               /\ Coming(d)' \subseteq IF d = c THEN {n} ELSE Coming(d)
    <3>1. /\ Sent(d)' = Sent(d) /\ Handled(d)' = Handled(d) /\ Pooled(d)' = Pooled(d)
          /\ SignsIn(toMn[d])' = SignsIn(toMn[d])
      BY <1>2 DEF Sent, Handled, Pooled, mnVars
    <3>2. /\ Signing(d)' = Signing(d)
          /\ Coming(d)' \subseteq IF d = c THEN {n} ELSE Coming(d)
      BY <1>2, <2>2, <2>6 DEF Signing, Coming
    <3>3. round'[d] = IF d = c THEN n ELSE round[d]
      BY <1>1, <1>4 DEF ClOK
    <3> QED BY <3>1, <3>2, <3>3
  <2>8. Out' = Out /\ \A d \in Clients : Listed(d)' = Listed(d)
    <3>1. Out' = Out
      BY <1>2, <2>7 DEF Out, Made, mnVars
    <3> QED BY <3>1 DEF Listed
  <2>9. Queued /\ Numbered /\ Answered
    BY DEF Inv, Order
  <2>10. Queued'
    BY <1>2, <2>9 DEF Queued
  <2>11. Numbered'
    <3> SUFFICES ASSUME NEW d \in Clients
                 PROVE  /\ \A r \in (Pooled(d) \cup Handled(d) \cup Sent(d) \cup Coming(d)
                                      \cup Listed(d))' : r \in Nat /\ r <= round'[d]
                        /\ \A a \in Pooled(d)', q \in (Handled(d) \cup Sent(d) \cup Coming(d))' :
                              a < q
                        /\ \A i \in Handled(d)', s \in (Sent(d) \cup Coming(d))' : i < s
                        /\ \A s \in Sent(d)', k \in Coming(d)' : s < k
                        /\ \A r \in Listed(d)' :
                              /\ \A q \in (Handled(d) \cup Sent(d) \cup Coming(d))' : r < q
                              /\ \A a \in Pooled(d)' : r <= a
      BY DEF Numbered
    <3>1. /\ \A r \in Pooled(d) \cup Handled(d) \cup Sent(d) \cup Coming(d) \cup Listed(d) :
                r \in Nat /\ r <= round[d]
          /\ \A a \in Pooled(d), q \in Handled(d) \cup Sent(d) \cup Coming(d) : a < q
          /\ \A i \in Handled(d), s \in Sent(d) \cup Coming(d) : i < s
          /\ \A s \in Sent(d), k \in Coming(d) : s < k
          /\ \A r \in Listed(d) :
                /\ \A q \in Handled(d) \cup Sent(d) \cup Coming(d) : r < q
                /\ \A a \in Pooled(d) : r <= a
      BY <2>9 DEF Numbered
    <3>2. CASE d # c
      BY <2>7, <2>8, <3>1, <3>2
    <3>3. CASE d = c
      <4>1. /\ \A r \in Pooled(d) \cup Handled(d) \cup Sent(d) \cup Listed(d) :
                  r \in Nat /\ r <= n /\ r < n
            /\ n \in Nat /\ n <= n
        BY <1>1, <2>1, <3>1, <3>3
      <4>2. Coming(d)' \subseteq {n} /\ round'[d] = n
        BY <2>7, <3>3
      <4> QED BY <2>7, <2>8, <3>1, <4>1, <4>2
    <3> QED BY <3>2, <3>3
  <2>12. Answered'
    <3>1. \A d \in Clients : \A T : Answers(d, T) => Answers(d, T)'
      BY <2>7 DEF Answers
    <3> QED BY <2>7, <2>9, <3>1 DEF Answered
  <2> QED BY <1>1, <1>2, <2>6, <2>8, <2>10, <2>11, <2>12, ClientSends DEF WiresOK
<1>5. KeepEntry(c) => <1>3!1 \/ \E h \in {[at |-> "relay", round |-> n], Idle} :
                                   /\ round' = [round EXCEPT ![c] = n]
                                   /\ cl' = [cl EXCEPT ![c] = p]
                                   /\ handler' = [handler EXCEPT ![c] = h]
  <2>1. round' = [round EXCEPT ![c] = @ + 1] => round'[c] = n
    BY <1>1 DEF ClOK
  <2> QED BY <2>1 DEF KeepEntry, Continue
<1> QED BY <1>3, <1>4, <1>5

\* Rounds that do not change, or go from what is to be sent to what is sent.
LEMMA NumberedKeeps ==
  ASSUME Numbered, Out' \subseteq Out,
         \A d \in Clients :
            /\ round'[d] = round[d]
            /\ Pooled(d)' \subseteq Pooled(d) /\ Handled(d)' \subseteq Handled(d)
            /\ (Sent(d) \cup Coming(d))' \subseteq Sent(d) \cup Coming(d)
            /\ Coming(d)' = {} \/ (Coming(d)' \subseteq Coming(d) /\ Sent(d)' \subseteq Sent(d))
  PROVE  Numbered'
<1>1. \A d \in Clients : Listed(d)' \subseteq Listed(d)
  BY DEF Listed
<1> SUFFICES ASSUME NEW d \in Clients
             PROVE  /\ \A r \in (Pooled(d) \cup Handled(d) \cup Sent(d) \cup Coming(d)
                                  \cup Listed(d))' : r \in Nat /\ r <= round'[d]
                    /\ \A a \in Pooled(d)', q \in (Handled(d) \cup Sent(d) \cup Coming(d))' :
                          a < q
                    /\ \A i \in Handled(d)', s \in (Sent(d) \cup Coming(d))' : i < s
                    /\ \A s \in Sent(d)', k \in Coming(d)' : s < k
                    /\ \A r \in Listed(d)' :
                          /\ \A q \in (Handled(d) \cup Sent(d) \cup Coming(d))' : r < q
                          /\ \A a \in Pooled(d)' : r <= a
  BY DEF Numbered
<1>2. /\ \A r \in Pooled(d) \cup Handled(d) \cup Sent(d) \cup Coming(d) \cup Listed(d) :
            r \in Nat /\ r <= round[d]
      /\ \A a \in Pooled(d), q \in Handled(d) \cup Sent(d) \cup Coming(d) : a < q
      /\ \A i \in Handled(d), s \in Sent(d) \cup Coming(d) : i < s
      /\ \A s \in Sent(d), k \in Coming(d) : s < k
      /\ \A r \in Listed(d) :
            /\ \A q \in Handled(d) \cup Sent(d) \cup Coming(d) : r < q
            /\ \A a \in Pooled(d) : r <= a
  BY DEF Numbered
<1> QED BY <1>1, <1>2

LEMMA RelayInStep ==
  ASSUME Inv, NEW c \in Clients, RelayIn(c)
  PROVE  Inv'
<1> DEFINE n == handler[c].round
           m == [type |-> "entry", round |-> n]
<1>1. /\ handler[c].at = "relay" /\ handler' = [handler EXCEPT ![c] = Idle]
      /\ toMn' = Push(toMn, c, m)
      /\ UNCHANGED <<mnVars, up, toCl, mixed, turns, pool, resetting, crossed, cl, round>>
  BY DEF RelayIn, At, Continue
<1>2. /\ cl[c] \in Pools /\ handler[c] \in Handlers /\ ClOK /\ WiresOK
      /\ pool[c] \in PoolAts /\ crossed[c] \in SUBSET Crossings /\ round[c] \in Nat
      /\ cl = [cl EXCEPT ![c] = cl[c]] /\ pool = [pool EXCEPT ![c] = pool[c]]
      /\ crossed = [crossed EXCEPT ![c] = crossed[c]]
      /\ round = [round EXCEPT ![c] = round[c]] /\ resetting \subseteq Clients
      /\ ClientFits(cl[c], "relay", pool[c], c \in resetting, crossed[c], round[c])
  BY <1>1, OneClient DEF ClOK
<1>3. n \in Nat /\ Coming(c) = {n}
  BY <1>1, <1>2, HandlerFields DEF Coming
<1>4. m \in ToMn /\ m.type = "entry" /\ m.round = n
  BY <1>3, MessageTypes
<1> HIDE DEF m, n
<1>5. /\ toMn' \in [Clients -> Seq(ToMn)]
      /\ \A d \in Clients : d \in up \/ toMn'[d] = <<>>
      /\ \A d \in Clients : d # c => toMn'[d] = toMn[d]
      /\ toMn'[c] \in {toMn[c], Append(toMn[c], m)} /\ toMn[c] \in Seq(ToMn)
  BY <1>1, <1>4, Pushed
<1>6. Queued /\ Numbered /\ Answered
  BY DEF Inv, Order
<1>7. /\ ClOK' /\ ClientsOK' /\ handler'[c] = Idle
      /\ \A d \in Clients : d # c => handler'[d] = handler[d]
  <2>1. Idle \in Handlers /\ Idle.at = "idle"
    BY HandlingTypes
  <2>2. Becomes(c, cl[c], Idle, pool[c], crossed[c]) /\ resetting' = resetting
    BY <1>1, <1>2, <2>1 DEF Becomes
  <2>3. ClientFits(cl[c], "idle", pool[c], c \in resetting', crossed[c], round[c])
    BY <1>1, <1>2 DEF ClientFits, Steady, Working, Promising
  <2> QED BY <1>1, <1>2, <2>1, <2>2, <2>3, ClientBecomes
<1>8. /\ Sent(c)' \subseteq Sent(c) \cup {n} /\ SignsIn(toMn'[c]) = SignsIn(toMn[c])
      /\ InOrder(toMn'[c])
  <2>1. \A r \in EntriesIn(toMn[c]) : r < n
    BY <1>3, <1>6 DEF Numbered, Sent
  <2>2. InOrder(toMn[c])
    BY <1>6 DEF Queued
  <2>3. /\ EntriesIn(Append(toMn[c], m)) = EntriesIn(toMn[c]) \cup {n}
        /\ SignsIn(Append(toMn[c], m)) = SignsIn(toMn[c])
        /\ InOrder(Append(toMn[c], m))
    BY <1>4, <1>5, <2>1, <2>2, QueueAppend
  <2> QED BY <1>5, <2>2, <2>3 DEF Sent
<1>9. Queued'
  BY <1>5, <1>6, <1>8 DEF Queued
<1>10. ASSUME NEW d \in Clients
       PROVE  /\ Handled(d)' = Handled(d) /\ Pooled(d)' = Pooled(d)
              /\ Signing(d)' = Signing(d) /\ SignsIn(toMn'[d]) = SignsIn(toMn[d])
              /\ d # c => Sent(d)' = Sent(d) /\ Coming(d)' = Coming(d)
              /\ d = c => Coming(d)' = {} /\ Signing(d) = {}
  <2>1. Handled(d)' = Handled(d) /\ Pooled(d)' = Pooled(d)
    BY <1>1 DEF Handled, Pooled, mnVars
  <2>2. CASE d # c
    BY <1>5, <1>7, <2>1, <2>2 DEF Sent, Coming, Signing
  <2>3. CASE d = c
    BY <1>1, <1>7, <1>8, <2>1, <2>3, HandlingTypes DEF Coming, Signing
  <2> QED BY <2>2, <2>3
<1>11. Out' = Out
  BY <1>1, <1>10 DEF Out, Made, mnVars
<1>12. Numbered'
  <2>1. ASSUME NEW d \in Clients
        PROVE  /\ round'[d] = round[d]
               /\ Pooled(d)' \subseteq Pooled(d) /\ Handled(d)' \subseteq Handled(d)
               /\ (Sent(d) \cup Coming(d))' \subseteq Sent(d) \cup Coming(d)
               /\ Coming(d)' = {} \/ (Coming(d)' \subseteq Coming(d) /\ Sent(d)' \subseteq Sent(d))
    <3>1. CASE d # c
      BY <1>1, <1>10, <3>1
    <3>2. CASE d = c
      BY <1>1, <1>3, <1>8, <1>10, <3>2
    <3> QED BY <3>1, <3>2
  <2> QED BY <1>6, <1>11, <2>1, NumberedKeeps
<1>13. Answered'
  <2>1. \A d \in Clients : \A T : Answers(d, T) => Answers(d, T)'
    BY <1>10 DEF Answers
  <2>2. \A d \in Clients : d # c => Sent(d)' = Sent(d)
    BY <1>10
  <2>3. ASSUME NEW d \in Clients
        PROVE  /\ \A T \in Signing(d)' : Answers(d, T)' /\ Handled(d)' = {} /\ Sent(d)' = {}
               /\ \A T \in SignsIn(toMn'[d]) : Answers(d, T)' /\ Handled(d)' = {}
    <3>1. \A T \in SignsIn(toMn'[d]) : Answers(d, T)' /\ Handled(d)' = {}
      BY <1>6, <1>10, <2>1 DEF Answered
    <3>2. \A T \in Signing(d)' : Answers(d, T)' /\ Handled(d)' = {} /\ Sent(d)' = {}
      BY <1>6, <1>10, <2>1, <2>2 DEF Answered
    <3> QED BY <3>1, <3>2
  <2> QED BY <2>3 DEF Answered
<1> QED BY <1>1, <1>2, <1>5, <1>7, <1>9, <1>11, <1>12, <1>13, ClientSends DEF WiresOK

\* A client signs for its last entry, which is in the pool and the only one on its way.
LEMMA HearFinalStep ==
  ASSUME Inv, NEW c \in Clients, HearFinal(c)
  PROVE  Inv'
<1> DEFINE m == Head(toCl[c])
           h == [at |-> "sign", tx |-> m.tx, lost |-> FALSE]
           x == crossed[c] \cup Beside(c)
<1>1. Hears(c, "final") /\ cl' = cl
  BY DEF HearFinal
<1>2. CASE UNCHANGED threads \/ Begin(c, [at |-> "quitting"])
  BY <1>1, <1>2, EndingStep
<1>3. ASSUME Heeds(c, m), cl[c].entry # NoRound, Mine(c) \in m.tx, Begin(c, h)
      PROVE  Inv'
  <2>1. /\ handler[c] = Idle /\ handler[c].at = "idle" /\ Told(toCl, toCl')
        /\ up' = up /\ toCl[c] # <<>>
        /\ UNCHANGED <<mnVars, mixed, toMn, round, turns>>
        /\ m \in ToCl /\ m.type = "final"
    BY <1>1, Hearing DEF Hears
  <2>2. /\ cl[c] \in Pools /\ pool[c] \in PoolAts /\ resetting \subseteq Clients
        /\ cl = [cl EXCEPT ![c] = cl[c]] /\ pool = [pool EXCEPT ![c] = pool[c]]
        /\ round = [round EXCEPT ![c] = round[c]] /\ round[c] \in Nat
        /\ ClientFits(cl[c], "idle", pool[c], c \in resetting, crossed[c], round[c])
        /\ WiresOK
    BY <2>1, OneClient DEF ClOK
  <2>3. /\ x \in SUBSET Crossings /\ crossed[c] \subseteq x
        /\ c \in resetting => "reset" \in x
        /\ pool[c] \in {"timeout", "error"} => "timeout" \in x
    BY BesideTypes
  <2>4. m.tx \in SUBSET EntryIds /\ m.tx \in FinalsIn(toCl[c])
    <3>1. toCl[c] \in Seq(ToCl)
      BY <2>2 DEF WiresOK
    <3> QED BY <2>1, <3>1, ToClFields, QueueHead
  <2>5. h \in Handlers /\ h.at = "sign" /\ h.tx = m.tx
    BY <2>4 DEF Handlers
  <2>6. Becomes(c, cl[c], h, pool[c], x) /\ resetting' = resetting
    BY <1>1, <1>3, <2>2, <2>3, <2>5 DEF Becomes, Begin
  <2> HIDE DEF x, h, m
  <2>7. ClientFits(cl[c], "sign", pool[c], c \in resetting', x, round[c])
    <3>1. ASSUME x = {} PROVE Steady(cl[c], "sign", pool[c], c \in resetting')
      <4>1. Steady(cl[c], "idle", pool[c], c \in resetting)
        BY <2>2, <2>3, <3>1 DEF ClientFits
      <4>2. pool[c] = "idle" /\ c \notin resetting'
        BY <1>3, <2>2, <2>3, <2>6, <3>1, <4>1 DEF Steady, PoolAts, Promising
      <4> QED BY <1>3, <4>1, <4>2 DEF Steady, Promising
    <3> QED BY <2>2, <2>3, <2>6, <3>1 DEF ClientFits
  <2>8. /\ ClOK' /\ ClientsOK' /\ handler'[c] = h
        /\ \A d \in Clients : d # c => handler'[d] = handler[d]
    BY <2>1, <2>2, <2>5, <2>6, <2>7, ClientBecomes
  <2>9. Queued /\ Numbered /\ Answered
    BY DEF Inv, Order
  <2>10. m.tx \in Out /\ round[c] \in Listed(c)
    <3>1. m.tx \in Out
      BY <2>4 DEF Out
    <3>2. cl[c].entry = round[c]
      BY <1>3, <2>2 DEF ClientFits
    <3> QED BY <1>3, <3>1, <3>2 DEF Listed, Mine
  <2>11. Handled(c) = {} /\ Sent(c) = {} /\ Answers(c, m.tx)
    <3>1. \A q \in Handled(c) \cup Sent(c) : round[c] < q /\ q \in Nat /\ q <= round[c]
      BY <2>9, <2>10 DEF Numbered
    <3>2. Handled(c) = {} /\ Sent(c) = {}
      BY <2>2, <3>1
    <3>3. \A p \in Pooled(c) : p <= round[c]
      BY <2>9 DEF Numbered
    <3>4. Mine(c).by = c /\ Mine(c).round = round[c]
      BY <1>3, <2>2 DEF ClientFits, Mine
    <3> QED BY <1>3, <3>2, <3>3, <3>4 DEF Answers
  <2>12. ASSUME NEW d \in Clients
         PROVE  /\ Handled(d)' = Handled(d) /\ Pooled(d)' = Pooled(d) /\ Sent(d)' = Sent(d)
                /\ Coming(d)' \subseteq Coming(d)
                /\ SignsIn(toMn'[d]) = SignsIn(toMn[d])
                /\ d # c => Signing(d)' = Signing(d)
                /\ d = c => Signing(d)' = {m.tx}
    <3>1. /\ Handled(d)' = Handled(d) /\ Pooled(d)' = Pooled(d) /\ Sent(d)' = Sent(d)
          /\ SignsIn(toMn'[d]) = SignsIn(toMn[d])
      BY <2>1 DEF Handled, Pooled, Sent, mnVars
    <3>2. /\ Coming(d)' \subseteq Coming(d)
          /\ d # c => Signing(d)' = Signing(d)
          /\ d = c => Signing(d)' = {m.tx}
      BY <2>5, <2>8 DEF Coming, Signing
    <3> QED BY <3>1, <3>2
  <2>13. Out' \subseteq Out
    <3>1. Made' = Made
      BY <2>1 DEF Made, mnVars
    <3>2. \A d \in Clients : Signing(d)' \subseteq Out
      BY <2>10, <2>12 DEF Out
    <3>3. \A d \in Clients : FinalsIn(toCl'[d]) \subseteq Out /\ SignsIn(toMn'[d]) \subseteq Out
      BY <2>1, <2>12 DEF Out, Told
    <3>4. Made \subseteq Out
      BY DEF Out
    <3> QED BY <3>1, <3>2, <3>3, <3>4 DEF Out
  <2>14. Queued'
    BY <2>1, <2>9 DEF Queued
  <2>15. Numbered'
    BY <2>1, <2>9, <2>12, <2>13, NumberedKeeps
  <2>16. Answered'
    <3>1. \A d \in Clients : \A T : Answers(d, T) => Answers(d, T)'
      BY <2>12 DEF Answers
    <3>2. ASSUME NEW d \in Clients
          PROVE  /\ \A T \in Signing(d)' : Answers(d, T)' /\ Handled(d)' = {} /\ Sent(d)' = {}
                 /\ \A T \in SignsIn(toMn'[d]) : Answers(d, T)' /\ Handled(d)' = {}
      <4>1. \A T \in SignsIn(toMn'[d]) : Answers(d, T)' /\ Handled(d)' = {}
        BY <2>9, <2>12, <3>1 DEF Answered
      <4>2. CASE d # c
        BY <2>9, <2>12, <3>1, <4>1, <4>2 DEF Answered
      <4>3. CASE d = c
        BY <2>11, <2>12, <3>1, <4>1, <4>3
      <4> QED BY <4>2, <4>3
    <3> QED BY <3>2 DEF Answered
  <2>17. /\ toMn' \in [Clients -> Seq(ToMn)] /\ toCl' \in [Clients -> Seq(ToCl)]
         /\ \A d \in Clients : d \in up \/ toMn'[d] = <<>>
    BY <2>1, <2>2 DEF WiresOK, Told
  <2> QED BY <2>1, <2>8, <2>13, <2>14, <2>15, <2>16, <2>17, ClientSends
<1> QED BY <1>2, <1>3 DEF HearFinal

LEMMA PushSignatureStep ==
  ASSUME Inv, NEW c \in Clients, PushSignature(c)
  PROVE  Inv'
<1> DEFINE T == handler[c].tx
           m == [type |-> "sign", tx |-> T]
           p == [cl[c] EXCEPT !.nState = "SIGNING"]
<1>1. /\ handler[c].at = "sign" /\ handler' = [handler EXCEPT ![c] = Idle]
      /\ toMn' = toMn \/ toMn' = Push(toMn, c, m)
      /\ cl' = [cl EXCEPT ![c] = p]
      /\ UNCHANGED <<mnVars, up, toCl, mixed, turns, pool, resetting, crossed, round>>
  BY DEF PushSignature, At, Continue
<1>2. /\ cl[c] \in Pools /\ handler[c] \in Handlers /\ ClOK /\ WiresOK
      /\ pool[c] \in PoolAts /\ crossed[c] \in SUBSET Crossings /\ round[c] \in Nat
      /\ pool = [pool EXCEPT ![c] = pool[c]]
      /\ crossed = [crossed EXCEPT ![c] = crossed[c]]
      /\ round = [round EXCEPT ![c] = round[c]] /\ resetting \subseteq Clients
      /\ ClientFits(cl[c], "sign", pool[c], c \in resetting, crossed[c], round[c])
  BY <1>1, OneClient DEF ClOK
<1>3. T \in SUBSET EntryIds /\ Signing(c) = {T} /\ Coming(c) = {}
  BY <1>1, <1>2, HandlerFields DEF Signing, Coming
<1>4. m \in ToMn /\ m.type = "sign" /\ m.tx = T
  BY <1>3, MessageTypes
<1>5. /\ p \in Pools /\ p.nState = "SIGNING" /\ p.locked = cl[c].locked
      /\ p.listed = cl[c].listed /\ p.entry = cl[c].entry
      /\ p.submitted = cl[c].submitted /\ p.collateral = cl[c].collateral
  BY <1>2 DEF Pools, States
<1> HIDE DEF m, T, p
<1>6. /\ toMn' \in [Clients -> Seq(ToMn)]
      /\ \A d \in Clients : d \in up \/ toMn'[d] = <<>>
      /\ \A d \in Clients : d # c => toMn'[d] = toMn[d]
      /\ toMn'[c] \in {toMn[c], Append(toMn[c], m)} /\ toMn[c] \in Seq(ToMn)
  <2>1. CASE toMn' = toMn
    BY <1>2, <2>1 DEF WiresOK
  <2>2. CASE toMn' = Push(toMn, c, m)
    BY <1>4, <2>2, Pushed
  <2> QED BY <1>1, <2>1, <2>2
<1>7. Queued /\ Numbered /\ Answered
  BY DEF Inv, Order
<1>8. /\ ClOK' /\ ClientsOK' /\ handler'[c] = Idle
      /\ \A d \in Clients : d # c => handler'[d] = handler[d]
  <2>1. Idle \in Handlers /\ Idle.at = "idle"
    BY HandlingTypes
  <2>2. Becomes(c, p, Idle, pool[c], crossed[c]) /\ resetting' = resetting
    BY <1>1, <1>2, <1>5, <2>1 DEF Becomes
  <2>3. ClientFits(p, "idle", pool[c], c \in resetting', crossed[c], round[c])
    <3>1. ASSUME crossed[c] = {} PROVE Steady(p, "idle", pool[c], c \in resetting')
      <4>1. Steady(cl[c], "sign", pool[c], c \in resetting)
        BY <1>2, <3>1 DEF ClientFits
      <4> QED BY <1>5, <4>1 DEF Steady, Working, Promising
    <3> QED BY <1>1, <1>2, <1>5, <3>1 DEF ClientFits
  <2> QED BY <1>1, <1>2, <2>1, <2>2, <2>3, ClientBecomes
<1>9. Answers(c, T) /\ Handled(c) = {} /\ Sent(c) = {}
  BY <1>3, <1>7 DEF Answered
<1>10. /\ Sent(c)' = Sent(c) /\ SignsIn(toMn'[c]) \subseteq SignsIn(toMn[c]) \cup {T}
       /\ InOrder(toMn'[c])
  <2>1. InOrder(toMn[c])
    BY <1>7 DEF Queued
  <2>2. /\ EntriesIn(Append(toMn[c], m)) = EntriesIn(toMn[c])
        /\ SignsIn(Append(toMn[c], m)) = SignsIn(toMn[c]) \cup {T}
        /\ InOrder(Append(toMn[c], m))
    BY <1>4, <1>6, <1>9, <2>1, QueueAppend DEF Sent
  <2> QED BY <1>6, <2>1, <2>2 DEF Sent
<1>11. Queued'
  BY <1>6, <1>7, <1>10 DEF Queued
<1>12. ASSUME NEW d \in Clients
       PROVE  /\ Handled(d)' = Handled(d) /\ Pooled(d)' = Pooled(d) /\ Sent(d)' = Sent(d)
              /\ Coming(d)' = Coming(d) /\ Signing(d)' \subseteq Signing(d)
              /\ SignsIn(toMn'[d]) \subseteq SignsIn(toMn[d]) \cup Signing(d)
  <2>1. Handled(d)' = Handled(d) /\ Pooled(d)' = Pooled(d)
    BY <1>1 DEF Handled, Pooled, mnVars
  <2>2. CASE d # c
    BY <1>6, <1>8, <2>1, <2>2 DEF Sent, Coming, Signing
  <2>3. CASE d = c
    <3>1. Coming(c)' = {} /\ Signing(c)' = {}
      BY <1>8, HandlingTypes DEF Coming, Signing
    <3> QED BY <1>3, <1>10, <2>1, <2>3, <3>1
  <2> QED BY <2>2, <2>3
<1>13. Out' \subseteq Out
  <2>1. Made' = Made
    BY <1>1 DEF Made, mnVars
  <2>2. Told(toCl, toCl')
    BY <1>1, <1>2, ToldSame DEF WiresOK
  <2> QED BY <1>12, <2>1, <2>2, OutShrinks
<1>14. Numbered'
  <2>1. round' = round
    BY <1>1
  <2> QED BY <1>7, <1>12, <1>13, <2>1, NumberedKeeps
<1>15. Answered'
  <2>1. \A d \in Clients : \A t : Answers(d, t) => Answers(d, t)'
    BY <1>12 DEF Answers
  <2>2. ASSUME NEW d \in Clients
        PROVE  /\ \A t \in Signing(d) : Answers(d, t) /\ Handled(d) = {} /\ Sent(d) = {}
               /\ \A t \in SignsIn(toMn[d]) : Answers(d, t) /\ Handled(d) = {}
    BY <1>7 DEF Answered
  <2>3. ASSUME NEW d \in Clients
        PROVE  /\ \A t \in Signing(d)' : Answers(d, t)' /\ Handled(d)' = {} /\ Sent(d)' = {}
               /\ \A t \in SignsIn(toMn'[d]) : Answers(d, t)' /\ Handled(d)' = {}
    BY <1>12, <2>1, <2>2
  <2> QED BY <2>3 DEF Answered
<1> QED BY <1>1, <1>2, <1>6, <1>8, <1>11, <1>13, <1>14, <1>15, ClientSends DEF WiresOK

\* A connection that is closed loses what was under way on it.
LEMMA DisconnectStep ==
  ASSUME Inv, NEW c \in Clients, Disconnect(c)
  PROVE  Inv'
<1>1. TypeOK /\ MnOK /\ ClOK /\ WiresOK /\ PoolOK /\ Order /\ ClientsOK
  BY DEF Inv, TypeOK
<1>2. /\ up' = up \ {c} /\ toMn' = [toMn EXCEPT ![c] = <<>>]
      /\ toCl' = [toCl EXCEPT ![c] = <<>>]
      /\ turns' = turns \/ (turns < MaxTurns /\ turns' = turns + 1)
      /\ UNCHANGED <<mn, timer, sessions, cl, pool, resetting, crossed, round, mixed>>
  BY DEF Disconnect, TakeTurn
<1>3. /\ net' \in Handlings /\ net'.at = net.at
      /\ net.at = "entry" => net'.by = net.by /\ net'.round = net.round
      /\ net.at = "final" => net'.tx = net.tx
  <2>1. net \in Handlings
    BY <1>1 DEF MnOK
  <2>2. CASE net' = net
    BY <2>1, <2>2
  <2>3. CASE net.at \in Answering /\ net' = [net EXCEPT !.lost = TRUE]
    BY <2>1, <2>3 DEF Handlings, Idle, Answering
  <2> QED BY <2>2, <2>3 DEF Disconnect
<1>4. /\ handler' \in [Clients -> Handlers]
      /\ \A d \in Clients : /\ handler'[d].at = handler[d].at
                            /\ handler[d].at = "relay" => handler'[d].round = handler[d].round
                            /\ handler[d].at = "sign" => handler'[d].tx = handler[d].tx
  <2>1. handler \in [Clients -> Handlers]
    BY <1>1 DEF ClOK
  <2>2. CASE handler' = handler
    BY <2>1, <2>2
  <2>3. CASE handler[c].at = "sign" /\ handler' = [handler EXCEPT ![c].lost = TRUE]
    <3> DEFINE h == [handler[c] EXCEPT !.lost = TRUE]
    <3>1. handler[c] \in [at : {"sign"}, tx : SUBSET EntryIds, lost : BOOLEAN]
      BY <2>1, <2>3 DEF Handlers, Idle
    <3>2. h \in Handlers /\ h.at = "sign" /\ h.tx = handler[c].tx
      BY <3>1 DEF Handlers
    <3>3. handler' = [handler EXCEPT ![c] = h]
      BY <2>3
    <3> HIDE DEF h
    <3> QED BY <2>1, <2>3, <3>2, <3>3
  <2> QED BY <2>2, <2>3 DEF Disconnect
<1>5. <<>> \in Seq(ToMn) /\ <<>> \in Seq(ToCl)
  OBVIOUS
<1>6. /\ toMn' \in [Clients -> Seq(ToMn)]
      /\ \A d \in Clients : Kept(toMn[d], toMn'[d]) /\ (d \in up' \/ toMn'[d] = <<>>)
  <2>1. \A d \in Clients : toMn'[d] = IF d = c THEN <<>> ELSE toMn[d]
    BY <1>1, <1>2 DEF WiresOK
  <2>2. toMn' \in [Clients -> Seq(ToMn)] /\ \A d \in Clients : d \in up' \/ toMn'[d] = <<>>
    BY <1>1, <1>2, <1>5, <2>1 DEF WiresOK
  <2> QED BY <2>1, <2>2, KeptSame
<1>7. Told(toCl, toCl')
  <2>1. /\ toCl' \in [Clients -> Seq(ToCl)]
        /\ \A d \in Clients : toCl'[d] = toCl[d] \/ toCl'[d] = <<>>
    BY <1>1, <1>2, <1>5 DEF WiresOK
  <2> QED BY <2>1, EmptyQueue DEF Told
<1>8. TypeOK'
  <2>1. ClOK' /\ turns' \in 0 .. MaxTurns
    BY <1>1, <1>2, <1>4, CountAssumption DEF ClOK, TypeOK
  <2>2. MnOK' /\ WiresOK'
    BY <1>1, <1>2, <1>3, <1>6, <1>7 DEF MnOK, WiresOK, Told
  <2> QED BY <1>1, <1>2, <2>1, <2>2 DEF TypeOK
<1>9. PoolOK' /\ PoolKept
  BY <1>1, <1>2, <1>3 DEF PoolOK, FullPool, Ids, PoolKept
<1>10. \A d \in Clients : /\ Handled(d)' \subseteq Handled(d) /\ Pooled(d)' = Pooled(d)
                          /\ Coming(d)' = Coming(d) /\ Signing(d)' = Signing(d)
  BY <1>2, <1>3, <1>4 DEF Handled, Pooled, Coming, Signing
<1>11. Out' \subseteq Out
  <2>1. Made' = Made
    BY <1>3 DEF Made
  <2> QED BY <1>6, <1>7, <1>10, <2>1, OutShrinks DEF Kept
<1>12. Quiet
  BY <1>2, <1>6, <1>10, <1>11 DEF Quiet
<1>13. ClientsOK'
  BY <1>1, <1>2, <1>4 DEF ClientsOK
<1> QED BY <1>1, <1>8, <1>9, <1>12, <1>13, OrderKept DEF Inv

-----------------------------------------------------------------------------
(* The theorems.                                                               *)

LEMMA InitInv == Init => Inv
<1> SUFFICES ASSUME Init PROVE Inv
  OBVIOUS
<1>1. /\ mn = NullMn /\ net = Idle /\ timer = "idle" /\ sessions = 0
      /\ mn.nState = "IDLE" /\ mn.nSessionID = NoSession /\ mn.vecEntries = {}
      /\ mn.finalTransaction = NoTx /\ Idle.at = "idle"
  BY HandlingTypes, NullTypes DEF Init
<1>2. /\ toMn = [c \in Clients |-> <<>>] /\ toCl = [c \in Clients |-> <<>>] /\ up = {}
      /\ handler = [c \in Clients |-> Idle] /\ cl = [c \in Clients |-> NullClient]
      /\ pool = [c \in Clients |-> "idle"] /\ resetting = {}
      /\ crossed = [c \in Clients |-> {}] /\ round = [c \in Clients |-> NoRound]
  BY DEF Init
<1>3. /\ NullClient \in Pools /\ NullClient.nState = "IDLE" /\ NullClient.entry = NoRound
      /\ ~NullClient.locked /\ ~NullClient.listed /\ ~NullClient.submitted
  BY DEF NullClient, Pools, States, NoSession, NoRound
<1>4. TypeOK
  <2>1. MnOK
    BY <1>1, MnTypes, NullTypes, HandlingTypes
  <2>2. ClOK
    BY <1>2, <1>3, HandlingTypes DEF ClOK, NoRound
  <2>3. WiresOK
    BY <1>2 DEF WiresOK
  <2> QED BY <2>1, <2>2, <2>3, CountAssumption DEF Init, TypeOK
<1>5. PoolOK
  <2>1. IsFiniteSet({}) /\ Cardinality({}) <= MaxUsers
    BY FS_EmptySet, CountAssumption
  <2> QED BY <1>1, <2>1 DEF PoolOK
<1>6. Queued
  BY <1>2, EmptyQueue DEF Queued
<1>7. \A c \in Clients : /\ Sent(c) = {} /\ Handled(c) = {} /\ Pooled(c) = {}
                         /\ Coming(c) = {} /\ Signing(c) = {} /\ SignsIn(toMn[c]) = {}
                         /\ FinalsIn(toCl[c]) = {}
  BY <1>1, <1>2, EmptyQueue DEF Sent, Handled, Pooled, Coming, Signing
<1>8. Out = {} /\ \A c \in Clients : Listed(c) = {}
  <2>1. Out = {}
    BY <1>1, <1>7 DEF Out, Made
  <2> QED BY <2>1 DEF Listed
<1>9. Numbered /\ Answered
  BY <1>7, <1>8 DEF Numbered, Answered
<1>10. OnlyThese /\ SigsFit
  BY <1>1 DEF OnlyThese, SigsFit
<1>11. ClientsOK
  <2>1. Steady(NullClient, "idle", "idle", FALSE)
    BY <1>3 DEF Steady, Working, Promising
  <2>2. ClientFits(NullClient, "idle", "idle", FALSE, {}, NoRound)
    BY <1>3, <2>1 DEF ClientFits
  <2>3. ASSUME NEW c \in Clients
        PROVE  ClientFits(cl[c], handler[c].at, pool[c], c \in resetting, crossed[c], round[c])
    <3>1. /\ cl[c] = NullClient /\ handler[c].at = "idle" /\ pool[c] = "idle"
          /\ (c \in resetting) = FALSE /\ crossed[c] = {} /\ round[c] = NoRound
      BY <1>1, <1>2
    <3> QED BY <2>2, <3>1
  <2> QED BY <2>3 DEF ClientsOK
<1> QED BY <1>4, <1>5, <1>6, <1>9, <1>10, <1>11 DEF Inv, Order

LEMMA StutterStep ==
  ASSUME Inv, UNCHANGED vars
  PROVE  Inv'
<1>1. /\ UNCHANGED <<mnVars, clVars, up, toMn, toCl, mixed, turns>>
      /\ mn' = mn /\ sessions' = sessions /\ timer' = timer /\ net' = net
  BY DEF vars, wires, mnVars
<1>2. TypeOK /\ MnOK /\ WiresOK /\ PoolOK
  BY DEF Inv, TypeOK
<1>3. MnOK' /\ PoolOK' /\ PoolKept
  BY <1>1, <1>2, SamePool DEF MnOK
<1>4. Told(toCl, toCl') /\ Takes /\ mixed' \subseteq Clients
  BY <1>1, <1>2, ToldSame DEF WiresOK, Takes, TypeOK
<1> QED BY <1>1, <1>3, <1>4, SafenodeHolds

LEMMA NextInv == Inv /\ [Next]_vars => Inv'
<1> SUFFICES ASSUME Inv, [Next]_vars PROVE Inv'
  OBVIOUS
<1>1. ASSUME NEW c \in Clients, Accept(c) \/ Entry(c) \/ Signature(c) PROVE Inv'
  BY <1>1, AcceptStep, EntryStep, SignatureStep
<1>2. ASSUME NEW c \in Clients,
             HearReady(c) \/ HearRejected(c) \/ HearAccepted(c) \/ HearFinal(c) \/ HearComplete(c)
      PROVE  Inv'
  BY <1>2, HearReadyStep, HearEndingStep, HearAcceptedStep, HearFinalStep
<1>3. ASSUME NEW c \in Clients,
             EndSession(c) \/ PrepareDenominate(c) \/ SendDenominate(c) \/ KeepEntry(c)
      PROVE  Inv'
  BY <1>3, EndSessionStep, PrepareDenominateStep, SendDenominateStep, KeepEntryStep
<1>4. ASSUME NEW c \in Clients, RelayIn(c) \/ PushSignature(c) PROVE Inv'
  BY <1>4, RelayInStep, PushSignatureStep
<1>5. ASSUME NEW c \in Clients,
             DoAutomaticDenominating(c) \/ ClientTimeout(c) \/ CheckPool(c)
      PROVE  Inv'
  BY <1>5, PoolStep
<1>6. ASSUME NEW c \in Clients, ConnectNode(c) \/ EndTimeout(c) \/ EndReset(c) PROVE Inv'
  BY <1>6, BesideStep
<1>7. ASSUME NEW c \in Clients, AskToJoin(c) \/ ResetPool(c) \/ Disconnect(c) PROVE Inv'
  BY <1>7, AskToJoinStep, ResetPoolStep, DisconnectStep
<1>8. ASSUME CreateNewSession \/ AddFirstUser \/ AddUserToExistingSession \/ CheckForCompleteQueue
      PROVE  Inv'
  BY <1>8, CreateNewSessionStep, JoinedStep, CheckForCompleteQueueStep
<1>9. ASSUME PushStatus \/ RefuseEntry \/ RelayStatus \/ RelayCompletedTransaction \/ RelayQueue
      PROVE  Inv'
  BY <1>9, HandlerStep
<1>10. ASSUME AddEntry \/ AnswerEntry \/ RelayFinalTransaction PROVE Inv'
  BY <1>10, AddEntryStep, AnswerEntryStep, RelayFinalTransactionStep
<1>11. ASSUME ChargeRandomFees \/ CheckTimeout \/ EndCharge PROVE Inv'
  BY <1>11, SessionEndStep
<1>12. ASSUME UNCHANGED vars PROVE Inv'
  BY <1>12, StutterStep
<1> QED
  BY <1>1, <1>2, <1>3, <1>4, <1>5, <1>6, <1>7, <1>8, <1>9, <1>10, <1>11, <1>12 DEF Next

LEMMA SpecInv == Spec => []Inv
<1>1. Init => Inv
  BY InitInv
<1>2. Inv /\ [Next]_vars => Inv'
  BY NextInv
<1> QED BY <1>1, <1>2, PTL DEF Spec

\* Every member of a pool, every message of a queue and every handler is of its kind.
THEOREM TypeCorrect == Spec => []TypeOK
<1>1. Inv => TypeOK
  BY DEF Inv
<1> QED BY <1>1, SpecInv, PTL

\* No signature that was made for another final transaction is ever in the one that the
\* safenode collects signatures for, and that one is made of just the entries in the pool:
\* neither an entry whose handler waited for cs_main (src/darksend.cpp:257) while the session
\* ended, nor a signature that comes late (AddScriptSig, src/darksend.cpp:996), gets there.
\* A session that ends while its transaction is relayed, before the state is SIGNING
\* (src/darksend.cpp:612-613), leaves that state with an empty pool and nothing else.
THEOREM SignaturesFitHolds == Spec => []SignaturesFit
<1>1. Inv => SignaturesFit
  BY DEF Inv, Order, PoolOK, FullPool, Ids, SigsFit, SignaturesFit
<1> QED BY <1>1, SpecInv, PTL

\* When no handler of a client is at work and none was crossed by another thread that ended
\* the session, its coins are locked just while it may be asked to sign for them, and an idle
\* client has no entry pending, through every rejection, timeout, failed check and lost
\* connection (the calls of UnlockCoins in src/darksend.cpp:456-1434).  Crossed by a timeout,
\* what is locked is on the list that the next end of a session unlocks.
THEOREM LocksFollowPromisesHolds == Spec => []LocksFollowPromises
<1>1. ASSUME Inv, NEW c \in Clients, handler[c] = Idle
      PROVE  /\ "reset" \notin crossed[c] => (cl[c].locked => cl[c].listed)
             /\ crossed[c] = {} => /\ cl[c].locked <=> cl[c].nState \in Promising
                                   /\ cl[c].nState = "IDLE" => cl[c].entry = NoRound
  <2>1. ClientFits(cl[c], "idle", pool[c], c \in resetting, crossed[c], round[c])
    BY <1>1, OneClient
  <2>2. "reset" \notin crossed[c] => (cl[c].locked => cl[c].listed)
    BY <2>1 DEF ClientFits
  <2>3. ASSUME crossed[c] = {}
        PROVE  /\ cl[c].locked <=> cl[c].nState \in Promising
               /\ cl[c].nState = "IDLE" => cl[c].entry = NoRound
    BY <2>1, <2>3 DEF ClientFits, Steady, Promising
  <2> QED BY <2>2, <2>3
<1>2. Inv => LocksFollowPromises
  BY <1>1 DEF LocksFollowPromises
<1> QED BY <1>2, SpecInv, PTL
=============================================================================

-------------------------- MODULE ChainStateProofs --------------------------
(***************************************************************************)
(* Theorems about the caches of ChainState, for every tree of blocks, and, *)
(* at the end, about the CheckQueue that ConnectBlock has its scripts      *)
(* checked by.                                                             *)
(***************************************************************************)
EXTENDS ChainState, CheckQueue, FiniteSetTheorems, TLAPS, WellFoundedInduction

(***************************************************************************)
(* The operators of CoinsCache.                                            *)
(***************************************************************************)

\* A partial function from transaction ids to values of a set.
IsMap(f, S) == DOMAIN f \subseteq TxIds /\ f \in [DOMAIN f -> S]

\* A copied entry is typed as what it copies.
LEMMA FetchType ==
  ASSUME NEW c, IsMap(c, Entries), NEW base, IsMap(base, Coins), NEW ids
  PROVE  IsMap(FetchCoins(c, base, ids), Entries)
BY DEF IsMap, FetchCoins, Entries, Coins, Entry, IsPruned

\* Reading through a cache does not change what the stack of views says.
LEMMA FetchKeepsView ==
  ASSUME NEW c, IsMap(c, Entries), NEW base, IsMap(base, Coins), NEW ids
  PROVE  Stacked(FetchCoins(c, base, ids), base) = Stacked(c, base)
BY DEF IsMap, FetchCoins, Stacked, Entry

\* Nor does it break the meaning of the flags.
LEMMA FetchKeepsFlags ==
  ASSUME NEW c, IsMap(c, Entries), NEW base, IsMap(base, Coins), NEW ids,
         FlagsOf(c, base)
  PROVE  FlagsOf(FetchCoins(c, base, ids), base)
BY DEF IsMap, FetchCoins, FlagsOf, Entry, IsPruned, Read

LEMMA StackedType ==
  ASSUME NEW c, IsMap(c, Entries), NEW base, IsMap(base, Coins)
  PROVE  IsMap(Stacked(c, base), Coins)
BY DEF IsMap, Stacked, Entries

LEMMA ReadType ==
  ASSUME NEW base, IsMap(base, Coins), NEW t
  PROVE  Read(base, t) \in Coins
BY DEF IsMap, Coins, Clear, Read

\* A modifier released on a cache.
LEMMA ReleasedCorrect ==
  ASSUME NEW c, IsMap(c, Entries), NEW base, IsMap(base, Coins), FlagsOf(c, base),
         NEW t \in TxIds, NEW coins \in Coins, NEW fresh \in BOOLEAN,
         fresh => IsPruned(Read(base, t)),
         NEW new, new = Released(c, t, coins, fresh)
  PROVE  /\ IsMap(new, Entries)
         /\ FlagsOf(new, base)
         /\ \A u \in TxIds : Value(Read(Stacked(new, base), u)) =
                IF u = t THEN Value(coins) ELSE Value(Read(Stacked(c, base), u))
<1>1. CASE fresh /\ IsPruned(coins)
  <2>1. new = [u \in DOMAIN c \ {t} |-> c[u]]
    BY <1>1 DEF Released, Erase
  <2>2. IsMap(new, Entries)
    BY <2>1 DEF IsMap
  <2>3. FlagsOf(new, base)
    BY <2>1 DEF FlagsOf
  <2>4. ASSUME NEW u \in TxIds, u # t
        PROVE  Read(Stacked(new, base), u) = Read(Stacked(c, base), u)
    BY <2>1, <2>4 DEF Read, Stacked
  <2>5. Value(Read(Stacked(new, base), t)) = Value(coins)
    BY <1>1, <2>1 DEF Read, Stacked, Value, IsPruned
  <2> QED BY <2>2, <2>3, <2>4, <2>5
<1>2. CASE ~(fresh /\ IsPruned(coins))
  <2>1. new = [u \in DOMAIN c \cup {t} |->
                  IF u = t THEN [coins |-> coins, dirty |-> TRUE, fresh |-> fresh] ELSE c[u]]
    BY <1>2 DEF Released, Put, Entry
  <2>2. IsMap(new, Entries)
    BY <2>1 DEF IsMap, Entries
  <2>3. FlagsOf(new, base)
    BY <2>1 DEF FlagsOf
  <2>4. ASSUME NEW u \in TxIds, u # t
        PROVE  Read(Stacked(new, base), u) = Read(Stacked(c, base), u)
    BY <2>1, <2>4 DEF Read, Stacked
  <2>5. Read(Stacked(new, base), t) = coins
    BY <2>1 DEF Read, Stacked
  <2> QED BY <2>2, <2>3, <2>4, <2>5
<1> QED BY <1>1, <1>2

LEMMA ModifyCorrect ==
  ASSUME NEW c, IsMap(c, Entries), NEW base, IsMap(base, Coins), FlagsOf(c, base),
         NEW t \in TxIds, NEW coins \in Coins,
         NEW new, new = ModifyCoins(c, base, t, coins)
  PROVE  /\ IsMap(new, Entries)
         /\ FlagsOf(new, base)
         /\ \A u \in TxIds : Value(Read(Stacked(new, base), u)) =
                IF u = t THEN Value(coins) ELSE Value(Read(Stacked(c, base), u))
<1>1. FreshBelow(c, base, t) \in BOOLEAN
  BY DEF FreshBelow, IsMap, Entries, IsPruned
<1>2. FreshBelow(c, base, t) => IsPruned(Read(base, t))
  BY DEF FreshBelow, FlagsOf
<1>3. new = Released(c, t, coins, FreshBelow(c, base, t))
  BY DEF ModifyCoins
<1> QED BY <1>1, <1>2, <1>3, ReleasedCorrect

LEMMA ModifyNewCorrect ==
  ASSUME NEW c, IsMap(c, Entries), NEW base, IsMap(base, Coins), FlagsOf(c, base),
         NEW t \in TxIds, NEW coins \in Coins, IsPruned(Read(base, t)),
         NEW new, new = ModifyNewCoins(c, t, coins)
  PROVE  /\ IsMap(new, Entries)
         /\ FlagsOf(new, base)
         /\ \A u \in TxIds : Value(Read(Stacked(new, base), u)) =
                IF u = t THEN Value(coins) ELSE Value(Read(Stacked(c, base), u))
<1> DEFINE fresh == TRUE
<1>1. new = Released(c, t, coins, fresh)
  BY DEF ModifyNewCoins
<1>2. fresh \in BOOLEAN /\ (fresh => IsPruned(Read(base, t)))
  OBVIOUS
<1> HIDE DEF fresh
<1> QED BY <1>1, <1>2, ReleasedCorrect

\* Flushing a child makes its parent say what the child said on top of it.
LEMMA BatchWriteCorrect ==
  ASSUME NEW c, IsMap(c, Entries), NEW base, IsMap(base, Coins), FlagsOf(c, base),
         NEW child, IsMap(child, Entries), FlagsOf(child, Stacked(c, base)),
         NEW new, new = BatchWrite(c, child)
  PROVE  /\ IsMap(new, Entries)
         /\ FlagsOf(new, base)
         /\ \A u \in TxIds : Value(Read(Stacked(new, base), u)) =
                              Value(Read(Stacked(child, Stacked(c, base)), u))
<1>1. \A u \in DOMAIN new :
         /\ u \in DOMAIN c \cup DOMAIN child
         /\ u \in DOMAIN child /\ child[u].dirty =>
               new[u] = [coins |-> child[u].coins, dirty |-> TRUE,
                         fresh |-> IF u \in DOMAIN c THEN c[u].fresh ELSE child[u].fresh]
         /\ ~(u \in DOMAIN child /\ child[u].dirty) => u \in DOMAIN c /\ new[u] = c[u]
  BY DEF BatchWrite, Changes, Entry, FreshAfter
<1>2. \A u : u \in DOMAIN new <=>
         /\ u \in DOMAIN c \/ (u \in DOMAIN child /\ child[u].dirty)
         /\ ~(u \in DOMAIN child /\ child[u].dirty /\ Cancels(c, child, u))
  BY DEF BatchWrite, Changes
<1>3. IsMap(new, Entries)
  <2>1. DOMAIN new \subseteq TxIds
    BY <1>1 DEF IsMap
  <2>2. ASSUME NEW u \in DOMAIN new
        PROVE  new[u] \in Entries
    <3>1. u \in DOMAIN c => c[u] \in Entries
      BY DEF IsMap
    <3>2. u \in DOMAIN child => child[u] \in Entries
      BY DEF IsMap
    <3>3. CASE u \in DOMAIN child /\ child[u].dirty
      <4> DEFINE fresh == IF u \in DOMAIN c THEN c[u].fresh ELSE child[u].fresh
      <4>1. new[u] = [coins |-> child[u].coins, dirty |-> TRUE, fresh |-> fresh]
        BY <1>1, <3>3
      <4>2. fresh \in BOOLEAN /\ child[u].coins \in Coins
        BY <3>1, <3>2, <3>3 DEF Entries
      <4> HIDE DEF fresh
      <4> QED BY <4>1, <4>2 DEF Entries
    <3>4. CASE ~(u \in DOMAIN child /\ child[u].dirty)
      BY <1>1, <3>1, <3>4
    <3> QED BY <3>3, <3>4
  <2>3. new = [u \in DOMAIN new |-> new[u]]
    BY DEF BatchWrite
  <2>4. new \in [DOMAIN new -> Entries]
    BY <2>2, <2>3
  <2> QED BY <2>1, <2>4 DEF IsMap
<1>4. FlagsOf(new, base)
  <2> SUFFICES ASSUME NEW u \in DOMAIN new
               PROVE  /\ ~new[u].dirty => Value(new[u].coins) = Value(Read(base, u))
                      /\ new[u].fresh => IsPruned(Read(base, u))
    BY DEF FlagsOf
  <2>1. CASE u \in DOMAIN child /\ child[u].dirty
    <3>1. CASE u \in DOMAIN c
      BY <1>1, <2>1, <3>1 DEF FlagsOf
    <3>2. CASE u \notin DOMAIN c
      <4>1. Read(Stacked(c, base), u) = Read(base, u)
        BY <3>2 DEF Read, Stacked
      <4> QED BY <1>1, <2>1, <3>2, <4>1 DEF FlagsOf
    <3> QED BY <3>1, <3>2
  <2>2. CASE ~(u \in DOMAIN child /\ child[u].dirty)
    BY <1>1, <2>2 DEF FlagsOf
  <2> QED BY <2>1, <2>2
<1>5. ASSUME NEW u \in TxIds
      PROVE  Value(Read(Stacked(new, base), u)) =
             Value(Read(Stacked(child, Stacked(c, base)), u))
  <2>1. CASE u \in DOMAIN new
    <3>1. Read(Stacked(new, base), u) = new[u].coins
      BY <2>1 DEF Read, Stacked
    <3>2. CASE u \in DOMAIN child /\ child[u].dirty
      BY <1>1, <2>1, <3>1, <3>2 DEF Read, Stacked
    <3>3. CASE u \in DOMAIN child /\ ~child[u].dirty
      <4>1. Value(child[u].coins) = Value(Read(Stacked(c, base), u))
        BY <3>3 DEF FlagsOf
      <4>2. Read(Stacked(child, Stacked(c, base)), u) = child[u].coins
        BY <3>3 DEF Read, Stacked
      <4>3. Read(Stacked(c, base), u) = new[u].coins
        BY <1>1, <2>1, <3>3 DEF Read, Stacked
      <4> QED BY <3>1, <4>1, <4>2, <4>3
    <3>4. CASE u \notin DOMAIN child
      BY <1>1, <2>1, <3>1, <3>4 DEF Read, Stacked
    <3> QED BY <3>2, <3>3, <3>4
  <2>2. CASE u \notin DOMAIN new
    <3>1. Read(Stacked(new, base), u) = Read(base, u)
      BY <2>2 DEF Read, Stacked
    <3>2. CASE u \in DOMAIN child /\ child[u].dirty
      <4>1. IsPruned(child[u].coins)
        BY <1>2, <2>2, <3>2 DEF Cancels
      <4>2. Read(Stacked(child, Stacked(c, base)), u) = child[u].coins
        BY <3>2 DEF Read, Stacked
      <4>3. IsPruned(Read(base, u))
        <5>1. CASE u \in DOMAIN c
          BY <1>2, <2>2, <3>2, <5>1 DEF Cancels, FlagsOf
        <5>2. CASE u \notin DOMAIN c
          <6>1. Read(Stacked(c, base), u) = Read(base, u)
            BY <5>2 DEF Read, Stacked
          <6> QED BY <1>2, <2>2, <3>2, <5>2, <6>1 DEF Cancels, FlagsOf
        <5> QED BY <5>1, <5>2
      <4> QED BY <3>1, <4>1, <4>2, <4>3 DEF Value
    <3>3. CASE u \in DOMAIN child /\ ~child[u].dirty
      <4>1. Value(child[u].coins) = Value(Read(Stacked(c, base), u))
        BY <3>3 DEF FlagsOf
      <4>2. Read(Stacked(child, Stacked(c, base)), u) = child[u].coins
        BY <3>3 DEF Read, Stacked
      <4>3. Read(Stacked(c, base), u) = Read(base, u)
        BY <1>2, <2>2, <3>3 DEF Read, Stacked
      <4> QED BY <3>1, <4>1, <4>2, <4>3
    <3>4. CASE u \notin DOMAIN child
      <4>1. u \notin DOMAIN c
        BY <1>2, <2>2, <3>4
      <4> QED BY <3>1, <3>4, <4>1 DEF Read, Stacked
    <3> QED BY <3>2, <3>3, <3>4
  <2> QED BY <2>1, <2>2
<1> QED BY <1>3, <1>4, <1>5

\* The same for the database, which keeps no pruned coins.
LEMMA WriteCorrect ==
  ASSUME NEW c, IsMap(c, Entries), NEW base, IsMap(base, Coins), FlagsOf(c, base),
         NEW new, new = WriteToDatabase(base, c)
  PROVE  /\ IsMap(new, Coins)
         /\ \A u \in TxIds : Value(Read(new, u)) = Value(Read(Stacked(c, base), u))
<1>1. \A u : u \in DOMAIN new <=>
         /\ u \in DOMAIN base \/ (u \in DOMAIN c /\ c[u].dirty)
         /\ ~(u \in DOMAIN c /\ c[u].dirty /\ IsPruned(c[u].coins))
  BY DEF WriteToDatabase, Changes
<1>2. \A u \in DOMAIN new :
         new[u] = IF u \in DOMAIN c /\ c[u].dirty THEN c[u].coins ELSE base[u]
  BY DEF WriteToDatabase, Changes
<1>3. IsMap(new, Coins)
  <2>1. DOMAIN new \subseteq TxIds
    BY <1>1 DEF IsMap
  <2>2. \A u \in DOMAIN new : new[u] \in Coins
    BY <1>1, <1>2 DEF IsMap, Entries
  <2>3. new \in [DOMAIN new -> Coins]
    BY <2>2 DEF WriteToDatabase
  <2> QED BY <2>1, <2>3 DEF IsMap
<1>4. ASSUME NEW u \in TxIds
      PROVE  Value(Read(new, u)) = Value(Read(Stacked(c, base), u))
  <2>1. CASE u \in DOMAIN c /\ c[u].dirty
    <3>1. Read(Stacked(c, base), u) = c[u].coins
      BY <2>1 DEF Read, Stacked
    <3>2. CASE IsPruned(c[u].coins)
      <4>1. Read(new, u) = Clear
        BY <1>1, <2>1, <3>2 DEF Read
      <4> QED BY <3>1, <3>2, <4>1 DEF Value, IsPruned
    <3>3. CASE ~IsPruned(c[u].coins)
      <4>1. Read(new, u) = c[u].coins
        BY <1>1, <1>2, <2>1, <3>3 DEF Read
      <4> QED BY <3>1, <4>1
    <3> QED BY <3>2, <3>3
  <2>2. CASE ~(u \in DOMAIN c /\ c[u].dirty)
    <3>1. Read(new, u) = Read(base, u)
      BY <1>1, <1>2, <2>2 DEF Read
    <3>2. CASE u \in DOMAIN c
      BY <2>2, <3>1, <3>2 DEF FlagsOf, Read, Stacked
    <3>3. CASE u \notin DOMAIN c
      BY <3>1, <3>3 DEF Read, Stacked
    <3> QED BY <3>2, <3>3
  <2> QED BY <2>1, <2>2
<1> QED BY <1>3, <1>4

\* Forgetting unchanged entries loses nothing.
LEMMA UncacheCorrect ==
  ASSUME NEW c, IsMap(c, Entries), NEW base, IsMap(base, Coins), FlagsOf(c, base),
         NEW ids, NEW new, new = Uncache(c, ids)
  PROVE  /\ IsMap(new, Entries)
         /\ FlagsOf(new, base)
         /\ \A u \in TxIds : Value(Read(Stacked(new, base), u)) =
                              Value(Read(Stacked(c, base), u))
<1>1. /\ DOMAIN new \subseteq DOMAIN c
      /\ new = [u \in DOMAIN new |-> c[u]]
      /\ \A u \in DOMAIN c : u \in DOMAIN new \/ ~c[u].dirty
  BY DEF Uncache, Erase
<1>2. IsMap(new, Entries)
  BY <1>1 DEF IsMap
<1>3. FlagsOf(new, base)
  BY <1>1 DEF FlagsOf
<1>4. ASSUME NEW u \in TxIds
      PROVE  Value(Read(Stacked(new, base), u)) = Value(Read(Stacked(c, base), u))
  <2>1. CASE u \in DOMAIN new
    BY <1>1, <2>1 DEF Read, Stacked
  <2>2. CASE u \notin DOMAIN new /\ u \in DOMAIN c
    BY <1>1, <2>2 DEF Read, Stacked, FlagsOf
  <2>3. CASE u \notin DOMAIN new /\ u \notin DOMAIN c
    BY <2>3 DEF Read, Stacked
  <2> QED BY <1>1, <2>1, <2>2, <2>3
<1> QED BY <1>2, <1>3, <1>4

\* An empty cache says what the view below it says.
LEMMA EmptyCache ==
  ASSUME NEW base, IsMap(base, Coins)
  PROVE  /\ IsMap(Empty, Entries)
         /\ FlagsOf(Empty, base)
         /\ Stacked(Empty, base) = base
<1>1. DOMAIN Empty = {}
  BY DEF Empty
<1>2. IsMap(Empty, Entries)
  BY <1>1 DEF IsMap, Empty
<1>3. FlagsOf(Empty, base)
  BY <1>1 DEF FlagsOf
<1>4. Stacked(Empty, base) = base
  BY <1>1 DEF Stacked, IsMap
<1> QED BY <1>2, <1>3, <1>4

(***************************************************************************)
(* The inductive invariant: types, the meaning of the flags, and what the  *)
(* view is while a block is and is not worked on.  TipCoins stands still   *)
(* while a block is connected, so that what ConnectBlock's BIP30 check saw *)
(* still holds when UpdateCoins adds outputs without asking the base.      *)
(***************************************************************************)

CoinTypes == IsMap(saved, Coins) /\ IsMap(cache, Entries) /\ IsMap(view, Entries)

OtherTypes ==
    /\ savedBest \in Blocks /\ cacheBest \in Blocks /\ tip \in Blocks
    /\ blockundo \in BlockUndo
    /\ work \in Works
    /\ index \in [Blocks -> IndexEntries] /\ indexDisk \in [Blocks -> IndexEntries]
    /\ setDirtyBlockIndex \subseteq Blocks
    /\ flushing \in BOOLEAN
    /\ invalidating \in Blocks \cup {None}
    /\ mode \in {"running", "stopping", "down"}
    /\ failures \in Nat

DraftInv ==
    /\ work.op \in {"idle", "update"} => view = Empty
    /\ flushing => work.op \in {"idle", "update"}
    /\ work.op = "connect" =>
          \A k \in DOMAIN Vtx[work.block] : IsPruned(Read(TipCoins, Vtx[work.block][k]))

IInv == CoinTypes /\ FlagsTrue /\ OtherTypes /\ DraftInv

\* What the three layers do in a step.
LayerStep == [Layers!Next]_(Layers!vars)

LEMMA TypesSplit == TypeOK <=> CoinTypes /\ OtherTypes
BY DEF TypeOK, CoinTypes, OtherTypes, IsMap

LEMMA InputType ==
  ASSUME NEW t \in TxIds, NEW j \in DOMAIN Vin[t]
  PROVE  Vin[t][j] \in OutPoints /\ Vin[t][j][1] \in TxIds /\ Vin[t][j][2] \in Nat
<1>1. Vin[t][j] \in OutPoints
  BY TransactionAssumption
<1>2. PICK u \in TxIds : Vin[t][j] \in {u} \X Vout[u]
  BY <1>1 DEF OutPoints
<1> QED BY <1>1, <1>2, TransactionAssumption

LEMMA InputIndex ==
  ASSUME NEW t \in TxIds
  PROVE  Len(Vin[t]) \in Nat /\ DOMAIN Vin[t] = 1..Len(Vin[t])
BY TransactionAssumption

LEMMA TxType ==
  ASSUME NEW b \in Blocks, NEW i \in DOMAIN Vtx[b]
  PROVE  Vtx[b][i] \in TxIds /\ i \in 1..Len(Vtx[b])
BY BlockAssumption

LEMMA BlockLength ==
  ASSUME NEW b \in Blocks
  PROVE  Len(Vtx[b]) \in Nat
BY BlockAssumption

LEMMA IdleType == Idle \in Works /\ Idle.op = "idle"
BY BlockAssumption DEF Idle, Works

LEMMA NoUndoType == NoUndo \in BlockUndo
BY DEF NoUndo, BlockUndo

LEMMA MarkType ==
  ASSUME OtherTypes, NEW bs \in SUBSET Blocks, MarkFailed(bs)
  PROVE  /\ index' \in [Blocks -> IndexEntries] /\ indexDisk' \in [Blocks -> IndexEntries]
         /\ setDirtyBlockIndex' \in SUBSET Blocks
         /\ \A b \in Blocks : /\ index'[b].hasUndo = index[b].hasUndo
                              /\ b \notin bs => index'[b] = index[b]
BY DEF OtherTypes, MarkFailed, IndexEntries

\* Layers are equal when every transaction's coins are.
LEMMA SameLayer ==
  ASSUME NEW base, NEW other,
         \A u \in TxIds : Value(Read(base, u)) = Value(Read(other, u))
  PROVE  Layer(base) = Layer(other)
BY DEF Layer

\* Coins read through pcoinsTip: nothing changes but what is cached.
LEMMA CacheFetch ==
  ASSUME CoinTypes, FlagsTrue, NEW ids,
         cache' = FetchCoins(cache, saved, ids), UNCHANGED saved
  PROVE  /\ IsMap(saved', Coins) /\ IsMap(cache', Entries) /\ FlagsOf(cache', saved')
         /\ TipCoins' = TipCoins
BY FetchType, FetchKeepsView, FetchKeepsFlags DEF CoinTypes, FlagsTrue, TipCoins

LEMMA TipType ==
  ASSUME CoinTypes
  PROVE  IsMap(TipCoins, Coins) /\ IsMap(ViewCoins, Coins)
BY StackedType DEF CoinTypes, TipCoins, ViewCoins

LEMMA FetchStep ==
  ASSUME CoinTypes, FlagsTrue, NEW ids, Fetch(ids)
  PROVE  /\ CoinTypes' /\ FlagsTrue'
         /\ TipCoins' = TipCoins /\ ViewCoins' = ViewCoins /\ saved' = saved
<1>1. /\ IsMap(saved', Coins) /\ IsMap(cache', Entries) /\ FlagsOf(cache', saved')
      /\ TipCoins' = TipCoins
  BY CacheFetch DEF Fetch
<1>2. /\ IsMap(view', Entries) /\ FlagsOf(view', TipCoins)
      /\ Stacked(view', TipCoins) = Stacked(view, TipCoins)
  BY TipType, FetchType, FetchKeepsView, FetchKeepsFlags DEF Fetch, CoinTypes, FlagsTrue
<1> QED BY <1>1, <1>2 DEF CoinTypes, FlagsTrue, ViewCoins, Fetch

\* A view on unchanged coins of which entry t changes.
LEMMA ChangeStep ==
  ASSUME NEW t \in TxIds, CoinTypes', UNCHANGED saved, TipCoins' = TipCoins,
         \A u \in TxIds \ {t} : Value(Read(ViewCoins', u)) = Value(Read(ViewCoins, u))
  PROVE  LayerStep
<1>1. Layer(ViewCoins)'[t] \in Coins
  <2>1. IsMap(TipCoins', Coins)
    BY StackedType DEF CoinTypes, TipCoins
  <2>2. IsMap(ViewCoins', Coins)
    BY <2>1, StackedType DEF CoinTypes, ViewCoins
  <2>3. Read(ViewCoins', t) \in Coins
    BY <2>2, ReadType
  <2> QED BY <2>3 DEF Layer, Value, Clear, Coins
<1>2. Layer(ViewCoins)' = [Layer(ViewCoins) EXCEPT ![t] = Layer(ViewCoins)'[t]]
  BY DEF Layer
<1>3. Layers!Change(t)
  BY <1>1, <1>2 DEF Layers!Change
<1> QED BY <1>3 DEF LayerStep, Layers!Next

\* A modifier used on the view.
LEMMA ModifyStep ==
  ASSUME CoinTypes, FlagsTrue, NEW t \in TxIds, NEW coins \in Coins, Modify(t, coins)
  PROVE  CoinTypes' /\ FlagsTrue' /\ TipCoins' = TipCoins /\ LayerStep
<1>1. /\ IsMap(saved', Coins) /\ IsMap(cache', Entries) /\ FlagsOf(cache', saved')
      /\ TipCoins' = TipCoins
  BY CacheFetch DEF Modify
<1>2. /\ IsMap(view', Entries) /\ FlagsOf(view', TipCoins)
      /\ \A u \in TxIds : Value(Read(Stacked(view', TipCoins), u)) =
             IF u = t THEN Value(coins) ELSE Value(Read(Stacked(view, TipCoins), u))
  BY TipType, ModifyCorrect DEF Modify, CoinTypes, FlagsTrue
<1>3. CoinTypes' /\ FlagsTrue'
  BY <1>1, <1>2 DEF CoinTypes, FlagsTrue
<1>4. \A u \in TxIds \ {t} : Value(Read(ViewCoins', u)) = Value(Read(ViewCoins, u))
  BY <1>1, <1>2 DEF ViewCoins
<1>5. LayerStep
  BY <1>1, <1>3, <1>4, ChangeStep DEF Modify
<1> QED BY <1>1, <1>3, <1>5

\* The view is dropped, pcoinsTip says what it said.
LEMMA AbandonStep ==
  ASSUME IsMap(saved', Coins), IsMap(cache', Entries), FlagsOf(cache', saved'),
         UNCHANGED saved, \A u \in TxIds : Value(Read(TipCoins', u)) = Value(Read(TipCoins, u)),
         view' = Empty
  PROVE  CoinTypes' /\ FlagsTrue' /\ LayerStep
<1>1. IsMap(TipCoins', Coins)
  BY StackedType DEF TipCoins
<1>2. IsMap(view', Entries) /\ FlagsOf(view', TipCoins') /\ ViewCoins' = TipCoins'
  BY <1>1, EmptyCache DEF ViewCoins
<1>3. Layer(TipCoins') = Layer(TipCoins)
  BY SameLayer
<1>4. Layers!Abandon
  BY <1>2, <1>3 DEF Layers!Abandon
<1> QED BY <1>2, <1>4 DEF CoinTypes, FlagsTrue, LayerStep, Layers!Next

\* Everything above the database is gone.
LEMMA LoseStep ==
  ASSUME CoinTypes, UNCHANGED saved, cache' = Empty, view' = Empty
  PROVE  CoinTypes' /\ FlagsTrue' /\ LayerStep
<1>1. IsMap(cache', Entries) /\ FlagsOf(cache', saved') /\ TipCoins' = saved
  BY EmptyCache DEF CoinTypes, TipCoins
<1>2. IsMap(view', Entries) /\ FlagsOf(view', TipCoins') /\ ViewCoins' = saved
  BY <1>1, EmptyCache DEF CoinTypes, ViewCoins
<1>3. Layers!Lose
  BY <1>1, <1>2 DEF Layers!Lose
<1> QED BY <1>1, <1>2, <1>3 DEF CoinTypes, FlagsTrue, LayerStep, Layers!Next

\* The view becomes part of pcoinsTip.
LEMMA CommitStep ==
  ASSUME CoinTypes, FlagsTrue, UNCHANGED saved, cache' = BatchWrite(cache, view),
         view' = Empty
  PROVE  CoinTypes' /\ FlagsTrue' /\ LayerStep
<1>1. /\ IsMap(cache', Entries) /\ FlagsOf(cache', saved)
      /\ \A u \in TxIds : Value(Read(Stacked(cache', saved), u)) =
                           Value(Read(Stacked(view, Stacked(cache, saved)), u))
  BY BatchWriteCorrect DEF CoinTypes, FlagsTrue, TipCoins
<1>2. IsMap(TipCoins', Coins)
  BY <1>1, StackedType DEF CoinTypes, TipCoins
<1>3. IsMap(view', Entries) /\ FlagsOf(view', TipCoins') /\ ViewCoins' = TipCoins'
  BY <1>2, EmptyCache DEF ViewCoins
<1>4. Layer(TipCoins') = Layer(ViewCoins)
  BY <1>1, SameLayer DEF TipCoins, ViewCoins
<1>5. Layers!Commit
  BY <1>3, <1>4 DEF Layers!Commit
<1> QED BY <1>1, <1>3, <1>5 DEF CoinTypes, FlagsTrue, LayerStep, Layers!Next

\* pcoinsTip becomes part of the database; no block is being worked on.
LEMMA SaveStep ==
  ASSUME CoinTypes, FlagsTrue, view = Empty, UNCHANGED view,
         saved' = WriteToDatabase(saved, cache), cache' = Empty
  PROVE  CoinTypes' /\ FlagsTrue' /\ LayerStep
<1>1. /\ IsMap(saved', Coins)
      /\ \A u \in TxIds : Value(Read(saved', u)) = Value(Read(Stacked(cache, saved), u))
  BY WriteCorrect DEF CoinTypes, FlagsTrue
<1>2. IsMap(cache', Entries) /\ FlagsOf(cache', saved') /\ TipCoins' = saved'
  BY <1>1, EmptyCache DEF TipCoins
<1>3. IsMap(view', Entries) /\ FlagsOf(view', TipCoins') /\ ViewCoins' = saved'
  BY <1>1, <1>2, EmptyCache DEF ViewCoins
<1>4. ViewCoins = TipCoins
  BY TipType, EmptyCache DEF ViewCoins
<1>5. Layer(saved') = Layer(TipCoins)
  BY <1>1, SameLayer DEF TipCoins
<1>6. Layers!Save
  BY <1>2, <1>3, <1>4, <1>5 DEF Layers!Save
<1> QED BY <1>1, <1>2, <1>3, <1>6 DEF CoinTypes, FlagsTrue, LayerStep, Layers!Next

\* No coins change.
LEMMA QuietStep ==
  ASSUME CoinTypes, FlagsTrue, UNCHANGED <<saved, cache, view>>
  PROVE  CoinTypes' /\ FlagsTrue' /\ TipCoins' = TipCoins /\ LayerStep
<1>1. TipCoins' = TipCoins /\ ViewCoins' = ViewCoins
  BY DEF TipCoins, ViewCoins
<1>2. UNCHANGED Layers!vars
  BY <1>1 DEF Layers!vars
<1> QED BY <1>1, <1>2 DEF CoinTypes, FlagsTrue, LayerStep

\* The coins of a step that reads through the view.
LEMMA ReadStep ==
  ASSUME CoinTypes, FlagsTrue, NEW ids, Fetch(ids)
  PROVE  CoinTypes' /\ FlagsTrue' /\ TipCoins' = TipCoins /\ LayerStep
<1>1. UNCHANGED Layers!vars
  BY FetchStep DEF Layers!vars
<1> QED BY <1>1, FetchStep DEF LayerStep

(***************************************************************************)
(* One lemma per action: it keeps the invariant and is a step, or a        *)
(* stutter, of the three layers.                                           *)
(***************************************************************************)

LEMMA StartConnectStep ==
  ASSUME IInv, NEW b \in Blocks, StartConnect(b)
  PROVE  IInv' /\ LayerStep
<1> USE DEF IInv
<1>1. CASE \E i \in DOMAIN Vtx[b] : Overwrites(b, i)
  <2>1. /\ IsMap(saved', Coins) /\ IsMap(cache', Entries) /\ FlagsOf(cache', saved')
        /\ TipCoins' = TipCoins
    BY <1>1, CacheFetch DEF StartConnect
  <2>2. view' = view /\ view = Empty /\ work' = work /\ work.op = "idle" /\ flushing = FALSE
    BY <1>1 DEF StartConnect, draftVars, nodeVars, Free, DraftInv, OtherTypes
  <2>3. saved' = saved /\ view' = Empty
        /\ \A u \in TxIds : Value(Read(TipCoins', u)) = Value(Read(TipCoins, u))
    BY <1>1, <2>1, <2>2 DEF StartConnect
  <2>4. CoinTypes' /\ FlagsTrue' /\ LayerStep
    BY <2>1, <2>3, AbandonStep
  <2>5. OtherTypes'
    BY <1>1, MarkType DEF StartConnect, OtherTypes, draftVars, nodeVars
  <2>6. DraftInv'
    BY <2>2, <2>3 DEF DraftInv
  <2> QED BY <2>4, <2>5, <2>6
<1>2. CASE ~\E i \in DOMAIN Vtx[b] : Overwrites(b, i)
  <2>1. CoinTypes' /\ FlagsTrue' /\ TipCoins' = TipCoins /\ LayerStep
    BY <1>2, ReadStep DEF StartConnect
  <2>2. work' = [op |-> "connect", block |-> b, i |-> 1, j |-> 0, clean |-> TRUE]
    BY <1>2 DEF StartConnect
  <2>3. OtherTypes'
    BY <1>2, <2>2 DEF StartConnect, OtherTypes, Works, indexVars, nodeVars, Fetch
  <2>4. DraftInv'
    <3>1. work'.op = "connect" /\ work'.block = b /\ flushing' = FALSE
      BY <2>2 DEF StartConnect, Free, nodeVars, OtherTypes
    <3>2. \A k \in DOMAIN Vtx[b] : IsPruned(Read(TipCoins', Vtx[b][k]))
      BY <1>2, <2>1 DEF Overwrites
    <3> QED BY <3>1, <3>2 DEF DraftInv
  <2> QED BY <2>1, <2>3, <2>4
<1> QED BY <1>1, <1>2

LEMMA CheckInputsStep ==
  ASSUME IInv, CheckInputs
  PROVE  IInv' /\ LayerStep
<1> USE DEF IInv
<1>1. CASE HaveInputs(CurrentTx)
  <2>1. CoinTypes' /\ FlagsTrue' /\ TipCoins' = TipCoins /\ LayerStep
    BY <1>1, ReadStep DEF CheckInputs
  <2>2. work' = [work EXCEPT !.j = 1] /\ work.op = "connect"
    BY <1>1 DEF CheckInputs, Connecting
  <2>3. OtherTypes'
    BY <1>1, <2>2 DEF CheckInputs, OtherTypes, Works, indexVars, nodeVars, Fetch
  <2>4. work'.op = "connect" /\ work'.block = work.block /\ flushing' = flushing
    BY <2>2 DEF CheckInputs, nodeVars, OtherTypes, Works
  <2>5. DraftInv'
    BY <2>1, <2>2, <2>4 DEF DraftInv
  <2> QED BY <2>1, <2>3, <2>5
<1>2. CASE ~HaveInputs(CurrentTx)
  <2>1. /\ IsMap(saved', Coins) /\ IsMap(cache', Entries) /\ FlagsOf(cache', saved')
        /\ TipCoins' = TipCoins
    BY <1>2, CacheFetch DEF CheckInputs
  <2>2. saved' = saved /\ view' = Empty
        /\ \A u \in TxIds : Value(Read(TipCoins', u)) = Value(Read(TipCoins, u))
    BY <1>2, <2>1 DEF CheckInputs, DropView
  <2>3. CoinTypes' /\ FlagsTrue' /\ LayerStep
    BY <2>1, <2>2, AbandonStep
  <2>4. work.block \in Blocks
    BY DEF OtherTypes, Works
  <2>5. OtherTypes'
    BY <1>2, <2>4, MarkType, IdleType, NoUndoType DEF CheckInputs, OtherTypes, nodeVars, DropView
  <2>6. DraftInv'
    BY <1>2, <2>2, IdleType DEF DraftInv, CheckInputs, DropView
  <2> QED BY <2>3, <2>5, <2>6
<1> QED BY <1>1, <1>2

LEMMA SpendInputStep ==
  ASSUME IInv, SpendInput
  PROVE  IInv' /\ LayerStep
<1> USE DEF IInv
<1> DEFINE o == Vin[CurrentTx][work.j]
           coins == Read(ViewCoins, o[1])
           left == [coins EXCEPT !.outs = @ \ {o[2]}]
<1>1. /\ work.op = "connect" /\ work.block \in Blocks /\ work.i \in DOMAIN Vtx[work.block]
      /\ work.j \in DOMAIN Vin[CurrentTx] /\ work.j \in Nat
      /\ Modify(o[1], left)
      /\ blockundo' = [blockundo EXCEPT ![o] = UndoHeight(coins, left)]
      /\ work' = [work EXCEPT !.j = @ + 1]
  BY DEF SpendInput, Connecting, OtherTypes, Works
<1>2. o \in OutPoints /\ o[1] \in TxIds /\ o[2] \in Nat
  BY <1>1, TxType, InputType DEF CurrentTx
<1>3. coins \in Coins
  BY TipType, ReadType
<1>4. left \in Coins
  BY <1>3 DEF Coins
<1>5. UndoHeight(coins, left) \in Nat
  BY <1>3 DEF UndoHeight, Coins
<1> HIDE DEF o, coins, left
<1>6. CoinTypes' /\ FlagsTrue' /\ TipCoins' = TipCoins /\ LayerStep
  BY <1>1, <1>2, <1>4, ModifyStep
<1>7. blockundo' \in BlockUndo
  BY <1>1, <1>2, <1>5 DEF OtherTypes, BlockUndo
<1>8. work' \in Works /\ work'.op = "connect" /\ work'.block = work.block
  BY <1>1 DEF OtherTypes, Works
<1>9. OtherTypes'
  BY <1>1, <1>7, <1>8 DEF SpendInput, OtherTypes, indexVars, nodeVars, Modify
<1>10. DraftInv'
  BY <1>1, <1>6, <1>8 DEF DraftInv, SpendInput, nodeVars
<1> QED BY <1>6, <1>9, <1>10

LEMMA AddOutputsStep ==
  ASSUME IInv, AddOutputs
  PROVE  IInv' /\ LayerStep
<1> USE DEF IInv
<1> DEFINE t == CurrentTx
           coins == FromTx(t, Height[work.block])
<1>1. /\ work.op = "connect" /\ work.block \in Blocks /\ work.i \in DOMAIN Vtx[work.block]
      /\ work.i \in Nat
      /\ work' = [work EXCEPT !.i = @ + 1, !.j = 0]
  BY DEF AddOutputs, Connecting, OtherTypes, Works
<1>2. t \in TxIds /\ coins \in Coins
  <2>1. t \in TxIds
    BY <1>1, TxType DEF CurrentTx
  <2> QED BY <1>1, <2>1, TransactionAssumption, BlockAssumption DEF FromTx, Coins
<1>3. IsPruned(Read(TipCoins, t))
  BY <1>1 DEF DraftInv, CurrentTx
<1>4. CoinTypes' /\ FlagsTrue' /\ TipCoins' = TipCoins /\ LayerStep /\ cacheBest' = cacheBest
      /\ savedBest' = savedBest
  <2>1. CASE IsCoinBase(t)
    <3>1. Modify(t, coins)
      BY <2>1 DEF AddOutputs
    <3> HIDE DEF t, coins
    <3> QED BY <1>2, <3>1, ModifyStep DEF Modify
  <2>2. CASE ~IsCoinBase(t)
    <3>1. view' = ModifyNewCoins(view, t, coins) /\ UNCHANGED coinVars
      BY <2>2 DEF AddOutputs
    <3> HIDE DEF t, coins
    <3>2. TipCoins' = TipCoins
      BY <3>1 DEF TipCoins, coinVars
    <3>3. /\ IsMap(view', Entries) /\ FlagsOf(view', TipCoins)
          /\ \A u \in TxIds : Value(Read(Stacked(view', TipCoins), u)) =
                 IF u = t THEN Value(coins) ELSE Value(Read(Stacked(view, TipCoins), u))
      BY <1>2, <1>3, <3>1, TipType, ModifyNewCorrect DEF CoinTypes, FlagsTrue
    <3>4. CoinTypes' /\ FlagsTrue'
      BY <3>1, <3>2, <3>3 DEF CoinTypes, FlagsTrue, coinVars
    <3>5. \A u \in TxIds \ {t} : Value(Read(ViewCoins', u)) = Value(Read(ViewCoins, u))
      BY <3>2, <3>3 DEF ViewCoins
    <3>6. LayerStep
      BY <1>2, <3>1, <3>2, <3>4, <3>5, ChangeStep DEF coinVars
    <3> QED BY <3>1, <3>2, <3>4, <3>6 DEF coinVars
  <2> QED BY <2>1, <2>2
<1>5. work' \in Works /\ work'.op = "connect" /\ work'.block = work.block
  <2>1. work \in Works /\ work.i + 1 \in Nat
    BY <1>1 DEF OtherTypes
  <2>2. work' = [op |-> work.op, block |-> work.block, i |-> work.i + 1, j |-> 0,
                 clean |-> work.clean]
    BY <1>1, <2>1 DEF Works
  <2> QED BY <1>1, <2>1, <2>2 DEF Works
<1>6. OtherTypes'
  BY <1>4, <1>5 DEF AddOutputs, OtherTypes, indexVars, nodeVars
<1>7. DraftInv'
  BY <1>1, <1>4, <1>5 DEF DraftInv, AddOutputs, nodeVars
<1> QED BY <1>4, <1>6, <1>7

LEMMA FailConnectStep ==
  ASSUME IInv, FailConnect
  PROVE  IInv' /\ LayerStep
<1> USE DEF IInv
<1>1. UNCHANGED <<saved, cache>> /\ view' = Empty /\ work' = Idle /\ work.block \in Blocks
  BY DEF FailConnect, coinVars, DropView, OtherTypes, Works
<1>2. TipCoins' = TipCoins
  BY <1>1 DEF TipCoins
<1>3. CoinTypes' /\ FlagsTrue' /\ LayerStep
  BY <1>1, <1>2, AbandonStep DEF CoinTypes, FlagsTrue
<1>4. OtherTypes'
  BY <1>1, MarkType, IdleType, NoUndoType
  DEF FailConnect, OtherTypes, coinVars, nodeVars, DropView
<1>5. DraftInv'
  BY <1>1, IdleType DEF DraftInv
<1> QED BY <1>3, <1>4, <1>5

LEMMA FinishConnectStep ==
  ASSUME IInv, FinishConnect
  PROVE  IInv' /\ LayerStep
<1> USE DEF IInv
<1>1. CoinTypes' /\ FlagsTrue' /\ LayerStep
  BY CommitStep DEF FinishConnect
<1>2. work.block \in Blocks
  BY DEF OtherTypes, Works
<1>3. work' \in Works /\ work'.op = "update" /\ view' = Empty
  BY <1>2, IdleType DEF FinishConnect, Idle, Works
<1>4. /\ index' \in [Blocks -> IndexEntries] /\ indexDisk' \in [Blocks -> IndexEntries]
      /\ setDirtyBlockIndex' \subseteq Blocks
  <2>1. CASE index[work.block].hasUndo
    BY <2>1 DEF FinishConnect, OtherTypes, indexVars
  <2>2. CASE ~index[work.block].hasUndo
    <3>1. index' = [index EXCEPT ![work.block].hasUndo = TRUE,
                                 ![work.block].undo = blockundo]
      BY <2>2 DEF FinishConnect
    <3>2. \A b \in Blocks : index[b] \in IndexEntries /\ blockundo \in BlockUndo
      BY DEF OtherTypes
    <3>3. index' \in [Blocks -> IndexEntries]
      BY <1>2, <3>1, <3>2 DEF IndexEntries, OtherTypes
    <3> QED BY <1>2, <2>2, <3>3 DEF FinishConnect, OtherTypes, DirtyWith
  <2> QED BY <2>1, <2>2
<1>5. OtherTypes'
  BY <1>2, <1>3, <1>4, NoUndoType DEF FinishConnect, OtherTypes, nodeVars
<1>6. DraftInv'
  BY <1>3 DEF DraftInv
<1> QED BY <1>1, <1>5, <1>6

LEMMA UpdateTipStep ==
  ASSUME IInv, UpdateTip
  PROVE  IInv' /\ LayerStep
<1> USE DEF IInv
<1>1. CoinTypes' /\ FlagsTrue' /\ LayerStep
  BY QuietStep DEF UpdateTip, coinVars
<1>2. work.block \in Blocks
  BY DEF OtherTypes, Works
<1>3. OtherTypes'
  BY <1>2, IdleType DEF UpdateTip, OtherTypes, coinVars, indexVars, nodeVars
<1>4. DraftInv'
  BY IdleType DEF UpdateTip, DraftInv
<1> QED BY <1>1, <1>3, <1>4

LEMMA StartDisconnectStep ==
  ASSUME IInv, StartDisconnect
  PROVE  IInv' /\ LayerStep
<1> USE DEF IInv
<1>1. CoinTypes' /\ FlagsTrue' /\ LayerStep
  BY QuietStep DEF StartDisconnect, coinVars
<1>2. /\ work' = [op |-> "disconnect", block |-> tip, i |-> Len(Vtx[tip]), j |-> 0,
                  clean |-> TRUE]
      /\ flushing' = FALSE
  BY DEF StartDisconnect, Free, nodeVars, OtherTypes
<1>3. work' \in Works
  BY <1>2, BlockLength DEF OtherTypes, Works
<1>4. /\ index' \in [Blocks -> IndexEntries] /\ indexDisk' \in [Blocks -> IndexEntries]
      /\ setDirtyBlockIndex' \subseteq Blocks
  <2>1. CASE invalidating = None
    BY <2>1 DEF StartDisconnect, OtherTypes, indexVars
  <2>2. CASE invalidating # None
    <3>1. MarkFailed({tip}) /\ {tip} \in SUBSET Blocks
      BY <2>2 DEF StartDisconnect, OtherTypes
    <3> QED BY <3>1, MarkType
  <2> QED BY <2>1, <2>2
<1>5. OtherTypes'
  BY <1>3, <1>4 DEF StartDisconnect, OtherTypes, coinVars, nodeVars
<1>6. DraftInv'
  BY <1>2 DEF DraftInv
<1> QED BY <1>1, <1>5, <1>6

LEMMA RemoveOutputsStep ==
  ASSUME IInv, RemoveOutputs
  PROVE  IInv' /\ LayerStep
<1> USE DEF IInv
<1> DEFINE intact == Value(Read(ViewCoins, CurrentTx)) =
                     Value(FromTx(CurrentTx, Height[work.block]))
<1>1. /\ work.op = "disconnect" /\ work.block \in Blocks /\ work.i \in DOMAIN Vtx[work.block]
      /\ Modify(CurrentTx, Clear)
      /\ work' = IF IsCoinBase(CurrentTx)
                 THEN [work EXCEPT !.i = @ - 1, !.clean = @ /\ intact]
                 ELSE [work EXCEPT !.j = Len(Vin[CurrentTx]), !.clean = @ /\ intact]
  BY DEF RemoveOutputs, Disconnecting, OtherTypes, Works
<1>2. CurrentTx \in TxIds /\ work.i \in Nat /\ work.i - 1 \in Nat
  BY <1>1, TxType, BlockLength DEF CurrentTx
<1>3. CoinTypes' /\ FlagsTrue' /\ LayerStep
  BY <1>1, <1>2, ModifyStep DEF Clear, Coins
<1>4. Len(Vin[CurrentTx]) \in Nat
  BY <1>2, InputIndex
<1>5. work' \in Works /\ work'.op = "disconnect"
  <2>1. work \in Works /\ (work.clean /\ intact) \in BOOLEAN
    BY DEF OtherTypes
  <2> HIDE DEF intact
  <2>2. CASE IsCoinBase(CurrentTx)
    BY <1>1, <1>2, <2>1, <2>2 DEF Works
  <2>3. CASE ~IsCoinBase(CurrentTx)
    BY <1>1, <1>4, <2>1, <2>3 DEF Works
  <2> QED BY <2>2, <2>3
<1>6. OtherTypes'
  BY <1>1, <1>5 DEF RemoveOutputs, OtherTypes, indexVars, nodeVars, Modify
<1>7. DraftInv'
  BY <1>1, <1>5 DEF DraftInv, RemoveOutputs, nodeVars
<1> QED BY <1>3, <1>6, <1>7

LEMMA RestoreInputStep ==
  ASSUME IInv, RestoreInput
  PROVE  IInv' /\ LayerStep
<1> USE DEF IInv
<1> DEFINE o == Vin[CurrentTx][work.j]
           nHeight == index[work.block].undo[o]
           coins == Read(ViewCoins, o[1])
           base == IF nHeight # 0 THEN [height |-> nHeight, outs |-> {}] ELSE coins
           clean == /\ nHeight # 0 <=> IsPruned(coins)
                    /\ o[2] \notin base.outs
           restored == [base EXCEPT !.outs = @ \cup {o[2]}]
<1>0. /\ work.op = "disconnect" /\ work.block \in Blocks /\ work.i \in DOMAIN Vtx[work.block]
      /\ work.j \in DOMAIN Vin[CurrentTx]
  BY DEF RestoreInput, Disconnecting, OtherTypes, Works
<1>1. /\ Modify(o[1], restored)
      /\ work' = IF work.j = 1
                 THEN [work EXCEPT !.i = @ - 1, !.j = 0, !.clean = @ /\ clean]
                 ELSE [work EXCEPT !.j = @ - 1, !.clean = @ /\ clean]
  BY DEF RestoreInput
<1>2. CurrentTx \in TxIds /\ work.i \in Nat /\ work.i - 1 \in Nat
  BY <1>0, TxType, BlockLength DEF CurrentTx
<1>3. work.j \in Nat /\ work.j - 1 \in Nat
  BY <1>0, <1>2, InputIndex
<1>4. o \in OutPoints /\ o[1] \in TxIds /\ o[2] \in Nat
  BY <1>0, <1>2, InputType
<1>5. restored \in Coins
  <2>1. coins \in Coins
    BY TipType, ReadType
  <2>2. nHeight \in Nat
    BY <1>0, <1>4 DEF OtherTypes, IndexEntries, BlockUndo
  <2> HIDE DEF coins, nHeight, o
  <2>3. base \in Coins
    BY <2>1, <2>2 DEF Coins
  <2> HIDE DEF base
  <2> QED BY <1>4, <2>3 DEF Coins
<1>6. clean \in BOOLEAN
  OBVIOUS
<1> HIDE DEF o, restored, clean
<1>7. CoinTypes' /\ FlagsTrue' /\ LayerStep
  BY <1>1, <1>4, <1>5, ModifyStep
<1>8. work' \in Works /\ work'.op = "disconnect"
  <2>1. work \in Works /\ (work.clean /\ clean) \in BOOLEAN
    BY DEF OtherTypes
  <2>2. CASE work.j = 1
    BY <1>0, <1>1, <1>2, <2>1, <2>2 DEF Works
  <2>3. CASE work.j # 1
    BY <1>0, <1>1, <1>3, <2>1, <2>3 DEF Works
  <2> QED BY <2>2, <2>3
<1>9. OtherTypes'
  BY <1>0, <1>1, <1>8 DEF RestoreInput, OtherTypes, indexVars, nodeVars, Modify
<1>10. DraftInv'
  BY <1>0, <1>1, <1>8 DEF DraftInv, RestoreInput, nodeVars
<1> QED BY <1>7, <1>9, <1>10

LEMMA FinishDisconnectStep ==
  ASSUME IInv, FinishDisconnect
  PROVE  IInv' /\ LayerStep
<1> USE DEF IInv
<1>1. work.block \in Blocks /\ Parent[work.block] \in Blocks
  BY BlockAssumption DEF OtherTypes, Works
<1>2. CASE work.clean
  <2>1. CoinTypes' /\ FlagsTrue' /\ LayerStep
    BY <1>2, CommitStep DEF FinishDisconnect
  <2>2. work' \in Works /\ work'.op = "update" /\ view' = Empty
    BY <1>1, <1>2, IdleType DEF FinishDisconnect, Idle, Works
  <2>3. OtherTypes'
    BY <1>1, <1>2, <2>2, NoUndoType
    DEF FinishDisconnect, OtherTypes, indexVars, nodeVars, BestAfterDisconnect
  <2>4. DraftInv'
    BY <2>2 DEF DraftInv
  <2> QED BY <2>1, <2>3, <2>4
<1>3. CASE ~work.clean
  <2>1. UNCHANGED <<saved, cache>> /\ view' = Empty /\ work' = Idle
    BY <1>3 DEF FinishDisconnect, coinVars, DropView
  <2>2. TipCoins' = TipCoins
    BY <2>1 DEF TipCoins
  <2>3. CoinTypes' /\ FlagsTrue' /\ LayerStep
    BY <2>1, <2>2, AbandonStep DEF CoinTypes, FlagsTrue
  <2>4. OtherTypes'
    BY <1>3, IdleType, NoUndoType
    DEF FinishDisconnect, OtherTypes, coinVars, indexVars, nodeVars, DropView
  <2>5. DraftInv'
    BY <2>1, IdleType DEF DraftInv
  <2> QED BY <2>3, <2>4, <2>5
<1> QED BY <1>2, <1>3

LEMMA StartInvalidateStep ==
  ASSUME IInv, NEW b \in Disputed, StartInvalidate(b)
  PROVE  IInv' /\ LayerStep
<1> USE DEF IInv
<1>1. CoinTypes' /\ FlagsTrue' /\ LayerStep
  BY QuietStep DEF StartInvalidate, coinVars, draftVars
<1>2. b \in Blocks
  BY BlockAssumption
<1>3. MarkFailed({b}) /\ invalidating' \in Blocks \cup {None}
  BY <1>2 DEF StartInvalidate
<1>4. OtherTypes'
  BY <1>2, <1>3, MarkType DEF StartInvalidate, OtherTypes, coinVars, draftVars, nodeVars
<1>5. DraftInv'
  BY DEF StartInvalidate, DraftInv, Free, draftVars, nodeVars
<1> QED BY <1>1, <1>4, <1>5

LEMMA EndInvalidateStep ==
  ASSUME IInv, EndInvalidate
  PROVE  IInv' /\ LayerStep
<1> USE DEF IInv
<1>1. CoinTypes' /\ FlagsTrue' /\ LayerStep
  BY QuietStep DEF EndInvalidate, coinVars, draftVars
<1>2. /\ index' \in [Blocks -> IndexEntries] /\ indexDisk' \in [Blocks -> IndexEntries]
      /\ setDirtyBlockIndex' \subseteq Blocks
  <2>1. CASE invalidating \in ChainOf[tip]
    <3>1. MarkFailed({tip}) /\ {tip} \in SUBSET Blocks
      BY <2>1 DEF EndInvalidate, OtherTypes
    <3> QED BY <3>1, MarkType
  <2>2. CASE invalidating \notin ChainOf[tip]
    BY <2>2 DEF EndInvalidate, OtherTypes, indexVars
  <2> QED BY <2>1, <2>2
<1>3. OtherTypes'
  BY <1>2 DEF EndInvalidate, OtherTypes, coinVars, draftVars, nodeVars
<1>4. DraftInv'
  BY DEF EndInvalidate, DraftInv, Free, draftVars, nodeVars
<1> QED BY <1>1, <1>3, <1>4

LEMMA ReconsiderStep ==
  ASSUME IInv, NEW b \in Blocks, ReconsiderBlock(b)
  PROVE  IInv' /\ LayerStep
<1> USE DEF IInv
<1>1. CoinTypes' /\ FlagsTrue' /\ LayerStep
  BY QuietStep DEF ReconsiderBlock, coinVars, draftVars
<1>2. PICK cleared \in SUBSET Blocks :
         /\ index' = [a \in Blocks |-> IF a \in cleared
                                       THEN [index[a] EXCEPT !.failed = FALSE]
                                       ELSE index[a]]
         /\ setDirtyBlockIndex' = setDirtyBlockIndex \cup cleared
  BY DEF ReconsiderBlock
<1>3. index' \in [Blocks -> IndexEntries]
  BY <1>2 DEF OtherTypes, IndexEntries
<1>4. OtherTypes'
  BY <1>2, <1>3 DEF ReconsiderBlock, OtherTypes, coinVars, draftVars, nodeVars
<1>5. DraftInv'
  BY DEF ReconsiderBlock, DraftInv, Free, draftVars, nodeVars
<1> QED BY <1>1, <1>4, <1>5

LEMMA AcceptStep ==
  ASSUME IInv, NEW t \in TxIds, NEW n, NEW accepted \in BOOLEAN,
         AcceptToMemoryPool(t, n, accepted)
  PROVE  IInv' /\ LayerStep
<1> USE DEF IInv
<1> DEFINE ids == {t} \cup {Vin[t][k][1] : k \in 1..n}
           fetched == FetchCoins(cache, saved, ids)
           gone == ids \ DOMAIN cache
<1>1. /\ cache' = IF accepted THEN fetched ELSE Uncache(fetched, gone)
      /\ UNCHANGED <<saved, savedBest, cacheBest, draftVars, tip, indexVars,
                     invalidating, nodeVars>>
      /\ work.op \in {"idle", "update"}
  BY DEF AcceptToMemoryPool, Free
<1>2. /\ IsMap(fetched, Entries) /\ FlagsOf(fetched, saved)
      /\ Stacked(fetched, saved) = Stacked(cache, saved)
  BY FetchType, FetchKeepsView, FetchKeepsFlags DEF CoinTypes, FlagsTrue
<1> HIDE DEF fetched, gone
<1>3. /\ IsMap(cache', Entries) /\ FlagsOf(cache', saved)
      /\ \A u \in TxIds : Value(Read(Stacked(cache', saved), u)) =
                           Value(Read(Stacked(cache, saved), u))
  <2>1. CASE accepted
    BY <1>1, <1>2, <2>1
  <2>2. CASE ~accepted
    <3>1. cache' = Uncache(fetched, gone)
      BY <1>1, <2>2
    <3> QED BY <1>2, <3>1, UncacheCorrect DEF CoinTypes
  <2> QED BY <2>1, <2>2
<1>4. view' = Empty /\ work' = work /\ flushing' = flushing
  BY <1>1 DEF DraftInv, draftVars, nodeVars
<1>5. CoinTypes' /\ FlagsTrue' /\ LayerStep
  BY <1>1, <1>3, <1>4, AbandonStep DEF CoinTypes, TipCoins
<1>6. OtherTypes'
  BY <1>1 DEF OtherTypes, draftVars, indexVars, nodeVars
<1>7. DraftInv'
  BY <1>1, <1>4 DEF DraftInv
<1> QED BY <1>5, <1>6, <1>7

LEMMA WriteIndexStep ==
  ASSUME IInv, NEW full \in BOOLEAN, WriteIndex(full)
  PROVE  IInv' /\ LayerStep
<1> USE DEF IInv
<1>1. CoinTypes' /\ FlagsTrue' /\ LayerStep
  BY QuietStep DEF WriteIndex, coinVars, draftVars
<1>2. indexDisk' \in [Blocks -> IndexEntries]
  BY DEF WriteIndex, OtherTypes
<1>3. OtherTypes'
  BY <1>2 DEF WriteIndex, OtherTypes, coinVars, draftVars
<1>4. DraftInv'
  BY DEF WriteIndex, DraftInv, MayFlush, Free, draftVars
<1> QED BY <1>1, <1>3, <1>4

LEMMA FlushCoinsStep ==
  ASSUME IInv, FlushCoins
  PROVE  IInv' /\ LayerStep
<1> USE DEF IInv
<1>1. view = Empty /\ UNCHANGED <<view, work>> /\ work.op \in {"idle", "update"}
  BY DEF FlushCoins, DraftInv, draftVars
<1>2. CoinTypes' /\ FlagsTrue' /\ LayerStep
  BY <1>1, SaveStep DEF FlushCoins
<1>3. OtherTypes'
  BY DEF FlushCoins, OtherTypes, draftVars, indexVars, AfterShutdown
<1>4. DraftInv'
  BY <1>1 DEF DraftInv
<1> QED BY <1>2, <1>3, <1>4

\* What AbortNode leaves well typed.
LEMMA AbortType ==
  ASSUME OtherTypes, Abort
  PROVE  /\ savedBest' \in Blocks /\ cacheBest' \in Blocks /\ tip' \in Blocks
         /\ blockundo' \in BlockUndo /\ work' \in Works
         /\ flushing' \in BOOLEAN /\ invalidating' \in Blocks \cup {None}
         /\ mode' \in {"running", "stopping", "down"} /\ failures' \in Nat
<1>1. AfterAbort \in {"running", "stopping", "down"}
  BY DEF AfterAbort
<1>2. failures' \in Nat
  BY DEF Abort, OtherTypes
<1> QED BY <1>1, <1>2, IdleType, NoUndoType DEF Abort, DropView, OtherTypes

LEMMA FailWriteIndexStep ==
  ASSUME IInv, NEW full \in BOOLEAN, FailWriteIndex(full)
  PROVE  IInv' /\ LayerStep
<1> USE DEF IInv
<1>1. UNCHANGED <<saved, cache>> /\ view' = Empty /\ work' = Idle
  BY DEF FailWriteIndex, Abort, DropView
<1>2. TipCoins' = TipCoins
  BY <1>1 DEF TipCoins
<1>3. CoinTypes' /\ FlagsTrue' /\ LayerStep
  BY <1>1, <1>2, AbandonStep DEF CoinTypes, FlagsTrue
<1>4. OtherTypes'
  BY AbortType DEF FailWriteIndex, OtherTypes
<1>5. DraftInv'
  BY <1>1, IdleType DEF DraftInv
<1> QED BY <1>3, <1>4, <1>5

LEMMA NoDiskSpaceStep ==
  ASSUME IInv, NEW full \in BOOLEAN, NoDiskSpace(full)
  PROVE  IInv' /\ LayerStep
<1> USE DEF IInv
<1>1. UNCHANGED <<saved, cache>> /\ view' = Empty /\ work' = Idle
  BY DEF NoDiskSpace, Abort, DropView
<1>2. TipCoins' = TipCoins
  BY <1>1 DEF TipCoins
<1>3. CoinTypes' /\ FlagsTrue' /\ LayerStep
  BY <1>1, <1>2, AbandonStep DEF CoinTypes, FlagsTrue
<1>4. OtherTypes'
  BY AbortType DEF NoDiskSpace, OtherTypes, indexVars
<1>5. DraftInv'
  BY <1>1, IdleType DEF DraftInv
<1> QED BY <1>3, <1>4, <1>5

LEMMA FailFlushCoinsStep ==
  ASSUME IInv, FailFlushCoins
  PROVE  IInv' /\ LayerStep
<1> USE DEF IInv
<1>1. saved' = saved /\ cache' = Empty /\ view' = Empty /\ work' = Idle
  BY DEF FailFlushCoins, Abort, DropView
<1>2. CoinTypes' /\ FlagsTrue' /\ LayerStep
  BY <1>1, LoseStep
<1>3. OtherTypes'
  BY AbortType DEF FailFlushCoins, OtherTypes, indexVars
<1>4. DraftInv'
  BY <1>1, IdleType DEF DraftInv
<1> QED BY <1>2, <1>3, <1>4

LEMMA StopStep ==
  ASSUME IInv, Stop
  PROVE  IInv' /\ LayerStep
<1> USE DEF IInv
<1>1. CoinTypes' /\ FlagsTrue' /\ TipCoins' = TipCoins /\ LayerStep
  BY QuietStep DEF Stop, coinVars, draftVars
<1>2. OtherTypes'
  BY DEF Stop, OtherTypes, coinVars, draftVars, indexVars
<1>3. DraftInv'
  BY <1>1 DEF Stop, DraftInv, draftVars
<1> QED BY <1>1, <1>2, <1>3

LEMMA RestartStep ==
  ASSUME IInv, Restart
  PROVE  IInv' /\ LayerStep
<1> USE DEF IInv
<1>1. saved' = saved /\ cache' = Empty /\ view' = Empty /\ work' = Idle
  BY DEF Restart, DropView
<1>2. CoinTypes' /\ FlagsTrue' /\ LayerStep
  BY <1>1, LoseStep
<1>3. OtherTypes'
  BY IdleType, NoUndoType DEF Restart, DropView, OtherTypes
<1>4. DraftInv'
  BY <1>1, IdleType DEF DraftInv
<1> QED BY <1>2, <1>3, <1>4

LEMMA InitInv == Init => IInv /\ Layers!Init
<1> SUFFICES ASSUME Init PROVE IInv /\ Layers!Init
  OBVIOUS
<1>1. IsMap(saved, Coins) /\ DOMAIN saved = {}
  BY DEF Init, Empty, IsMap
<1>2. IsMap(cache, Entries) /\ FlagsOf(cache, saved) /\ TipCoins = saved
  BY <1>1, EmptyCache DEF Init, TipCoins
<1>3. IsMap(view, Entries) /\ FlagsOf(view, TipCoins) /\ ViewCoins = saved
  BY <1>1, <1>2, EmptyCache DEF Init, ViewCoins
<1>4. OtherTypes
  <2>1. index \in [Blocks -> IndexEntries]
    BY NoUndoType DEF Init, IndexEntries
  <2> QED BY <2>1, NoUndoType, IdleType, BlockAssumption DEF Init, OtherTypes
<1>5. DraftInv
  BY IdleType DEF Init, DraftInv
<1>6. Layers!Init
  BY <1>1, <1>2, <1>3 DEF Layers!Init, Layer, Read, Value, IsPruned, Clear
<1> QED BY <1>1, <1>2, <1>3, <1>4, <1>5, <1>6 DEF IInv, CoinTypes, FlagsTrue

LEMMA NextInv == IInv /\ [Next]_vars => IInv' /\ LayerStep
<1> SUFFICES ASSUME IInv, [Next]_vars PROVE IInv' /\ LayerStep
  OBVIOUS
<1>1. CASE UNCHANGED vars
  <2>1. CoinTypes' /\ FlagsTrue' /\ TipCoins' = TipCoins /\ LayerStep
    BY <1>1, QuietStep DEF vars, coinVars, draftVars, IInv
  <2>2. OtherTypes'
    BY <1>1 DEF vars, coinVars, draftVars, indexVars, nodeVars, IInv, OtherTypes
  <2>3. DraftInv'
    BY <1>1, <2>1 DEF vars, draftVars, nodeVars, IInv, DraftInv
  <2> QED BY <2>1, <2>2, <2>3 DEF IInv
<1>2. CASE \E b \in Blocks : StartConnect(b) \/ ReconsiderBlock(b)
  BY <1>2, StartConnectStep, ReconsiderStep
<1>3. CASE \E b \in Disputed : StartInvalidate(b)
  BY <1>3, StartInvalidateStep
<1>4. CASE CheckInputs \/ SpendInput \/ AddOutputs \/ FailConnect \/ FinishConnect \/ UpdateTip
  BY <1>4, CheckInputsStep, SpendInputStep, AddOutputsStep, FailConnectStep,
     FinishConnectStep, UpdateTipStep
<1>5. CASE StartDisconnect \/ RemoveOutputs \/ RestoreInput \/ FinishDisconnect \/ EndInvalidate
  BY <1>5, StartDisconnectStep, RemoveOutputsStep, RestoreInputStep, FinishDisconnectStep,
     EndInvalidateStep
<1>6. CASE \E t \in TxIds, accepted \in BOOLEAN : \E n \in 0..Len(Vin[t]) :
              AcceptToMemoryPool(t, n, accepted)
  BY <1>6, AcceptStep
<1>7. CASE \E full \in BOOLEAN : WriteIndex(full) \/ FailWriteIndex(full) \/ NoDiskSpace(full)
  BY <1>7, WriteIndexStep, FailWriteIndexStep, NoDiskSpaceStep
<1>8. CASE FlushCoins \/ FailFlushCoins \/ Stop \/ Restart
  BY <1>8, FlushCoinsStep, FailFlushCoinsStep, StopStep, RestartStep
<1> QED BY <1>1, <1>2, <1>3, <1>4, <1>5, <1>6, <1>7, <1>8 DEF Next

THEOREM Inductive == Spec => []IInv
BY InitInv, NextInv, PTL DEF Spec

\* Every variable keeps its type, whatever tree of blocks is connected,
\* disconnected, flushed and lost.
THEOREM TypeCorrect == Spec => []TypeOK
<1>1. IInv => TypeOK
  BY TypesSplit DEF IInv
<1> QED BY <1>1, Inductive, PTL

\* In pcoinsTip and in the view of a block, an entry that is not DIRTY agrees
\* with the view below and a FRESH one hides nothing unspent there, through
\* ConnectBlock, DisconnectBlock, flushes, failed writes and crashes.
THEOREM FlagsHold == Spec => []FlagsTrue
<1>1. IInv => FlagsTrue
  BY DEF IInv
<1> QED BY <1>1, Inductive, PTL

\* The caches over the database implement three whole copies of the unspent
\* outputs: what CCoinsViewCache leaves out, keeps and passes on never shows.
THEOREM LayersRefine == Spec => ImplementsLayers
<1>1. Init => Layers!Init
  BY InitInv
<1>2. IInv /\ [Next]_vars => [Layers!Next]_(Layers!vars)
  BY NextInv DEF LayerStep
<1> QED BY <1>1, <1>2, Inductive, PTL DEF Spec, ImplementsLayers, Layers!Spec

(***************************************************************************)
(* The best block of pcoinsTip and the tip of the active chain differ only *)
(* between the flush of a view and UpdateTip, or once a write has failed.  *)
(***************************************************************************)

BestInv ==
    /\ work.op # "update" /\ (mode = "running" \/ work.op # "idle") => cacheBest = tip
    /\ work.op = "update" => work.block = cacheBest

LEMMA BestStep == IInv /\ BestInv /\ [Next]_vars => BestInv'
<1> SUFFICES ASSUME OtherTypes, BestInv, [Next]_vars PROVE BestInv'
  BY DEF IInv
<1> USE IdleType DEF BestInv
<1>1. CASE UNCHANGED vars
  BY <1>1 DEF vars, coinVars, draftVars, nodeVars
<1>2. ASSUME NEW b \in Blocks, StartConnect(b) PROVE BestInv'
  BY <1>2 DEF StartConnect, Free, Fetch, draftVars, nodeVars
<1>3. ASSUME NEW b \in Blocks, ReconsiderBlock(b) PROVE BestInv'
  BY <1>3 DEF ReconsiderBlock, coinVars, draftVars, nodeVars
<1>4. ASSUME NEW b \in Disputed, StartInvalidate(b) PROVE BestInv'
  BY <1>4 DEF StartInvalidate, coinVars, draftVars, nodeVars
<1>5. CASE CheckInputs
  BY <1>5 DEF CheckInputs, Connecting, Fetch, DropView, nodeVars, OtherTypes, Works
<1>6. CASE SpendInput
  BY <1>6 DEF SpendInput, Connecting, Modify, nodeVars, OtherTypes, Works
<1>7. CASE AddOutputs
  BY <1>7 DEF AddOutputs, Connecting, Modify, coinVars, nodeVars, OtherTypes, Works
<1>8. CASE FailConnect
  BY <1>8 DEF FailConnect, Connecting, DropView, coinVars, nodeVars
<1>9. CASE FinishConnect
  BY <1>9 DEF FinishConnect, Idle
<1>10. CASE UpdateTip
  BY <1>10 DEF UpdateTip, coinVars
<1>11. CASE StartDisconnect
  BY <1>11 DEF StartDisconnect, coinVars
<1>12. CASE RemoveOutputs
  BY <1>12 DEF RemoveOutputs, Disconnecting, Modify, nodeVars, OtherTypes, Works
<1>13. CASE RestoreInput
  BY <1>13 DEF RestoreInput, Disconnecting, Modify, nodeVars, OtherTypes, Works
<1>14. CASE FinishDisconnect
  BY <1>14 DEF FinishDisconnect, BestAfterDisconnect, Idle, DropView, coinVars, nodeVars
<1>15. CASE EndInvalidate
  BY <1>15 DEF EndInvalidate, coinVars, draftVars, nodeVars
<1>16. ASSUME NEW t \in TxIds, NEW n, NEW accepted \in BOOLEAN,
              AcceptToMemoryPool(t, n, accepted)
       PROVE  BestInv'
  BY <1>16 DEF AcceptToMemoryPool, draftVars, nodeVars
<1>17. ASSUME NEW full \in BOOLEAN, WriteIndex(full) PROVE BestInv'
  BY <1>17 DEF WriteIndex, coinVars, draftVars
<1>18. ASSUME NEW full \in BOOLEAN, FailWriteIndex(full) \/ NoDiskSpace(full) PROVE BestInv'
  BY <1>18 DEF FailWriteIndex, NoDiskSpace, Abort, AfterAbort, DropView
<1>19. CASE FlushCoins
  BY <1>19 DEF FlushCoins, draftVars, AfterShutdown
<1>20. CASE FailFlushCoins
  BY <1>20 DEF FailFlushCoins, Abort, AfterAbort, DropView
<1>21. CASE Stop
  BY <1>21 DEF Stop, coinVars, draftVars
<1>22. CASE Restart
  BY <1>22 DEF Restart, DropView
<1> QED
  BY <1>1, <1>2, <1>3, <1>4, <1>5, <1>6, <1>7, <1>8, <1>9, <1>10, <1>11, <1>12, <1>13,
     <1>14, <1>15, <1>16, <1>17, <1>18, <1>19, <1>20, <1>21, <1>22 DEF Next

\* What ConnectBlock and DisconnectBlock assert of the view's best block.
THEOREM BestBlockIsTipHolds == Spec => []BestBlockIsTip
<1>1. Init => BestInv
  BY IdleType DEF Init, BestInv
<1>2. BestInv => BestBlockIsTip
  BY DEF BestInv, BestBlockIsTip
<1> QED BY <1>1, <1>2, BestStep, Inductive, PTL DEF Spec

(***************************************************************************)
(* While no write has failed, undo data reaches from the best block down   *)
(* to genesis, in memory and on disk.  Every entry that differs from its   *)
(* copy on disk is dirty, so a write of the index closes the gap before    *)
(* the coins, and with them the best block, are written.                   *)
(***************************************************************************)

\* Undo data that goes back to genesis.
Closed(idx) ==
    /\ ~idx[Genesis].hasUndo
    /\ \A a \in Blocks \ {Genesis} :
          idx[a].hasUndo /\ Parent[a] # Genesis => idx[Parent[a]].hasUndo
Covered(idx, b) == b # Genesis => idx[b].hasUndo

WorkInv ==
    /\ work.op = "connect" =>
          work.block # Genesis /\ Parent[work.block] = cacheBest
    /\ work.op = "disconnect" =>
          work.block = cacheBest /\ index[work.block].hasUndo

IndexInv ==
    /\ Closed(index) /\ Closed(indexDisk)
    /\ Covered(index, cacheBest)
    /\ Covered(indexDisk, savedBest)
    /\ Covered(index, savedBest)
    /\ \A b \in Blocks \ setDirtyBlockIndex : indexDisk[b] = index[b]
    /\ flushing => \A b \in Blocks : indexDisk[b] = index[b]
    /\ WorkInv

\* Nothing the invariant speaks of changes but the index, by MarkFailed.
LEMMA MarkKeepsIndex ==
  ASSUME OtherTypes, IndexInv, ~flushing', NEW bs \in SUBSET Blocks, MarkFailed(bs),
         UNCHANGED <<cacheBest, savedBest>>, WorkInv'
  PROVE  IndexInv'
<1>1. /\ \A b \in Blocks : /\ index'[b].hasUndo = index[b].hasUndo
                           /\ b \notin bs => index'[b] = index[b]
      /\ indexDisk' = indexDisk /\ setDirtyBlockIndex' = setDirtyBlockIndex \cup bs
  BY MarkType DEF MarkFailed
<1>2. Closed(index') /\ Closed(indexDisk')
  BY <1>1, BlockAssumption DEF IndexInv, Closed
<1>3. Covered(index', cacheBest') /\ Covered(indexDisk', savedBest') /\ Covered(index', savedBest')
  BY <1>1 DEF IndexInv, Covered, OtherTypes
<1>4. \A b \in Blocks \ setDirtyBlockIndex' : indexDisk'[b] = index'[b]
  BY <1>1 DEF IndexInv
<1> QED BY <1>1, <1>2, <1>3, <1>4 DEF IndexInv, WorkInv, OtherTypes

LEMMA IndexStep ==
  ASSUME IInv, BestInv, IndexInv, [Next]_vars, failures' = 0
  PROVE  IndexInv'
<1> SUFFICES ASSUME OtherTypes, DraftInv PROVE IndexInv'
  BY DEF IInv
<1> DEFINE Same == UNCHANGED <<cacheBest, savedBest, index, indexDisk, setDirtyBlockIndex>>
<1>1. ASSUME Same, ~flushing' \/ flushing' = flushing, WorkInv'
      PROVE  IndexInv'
  BY <1>1 DEF IndexInv, Closed, Covered
<1> DEFINE SameWork == work'.op = work.op /\ work'.block = work.block
<1>0. ASSUME Same, ~flushing' \/ flushing' = flushing, SameWork
      PROVE  IndexInv'
  <2>1. WorkInv'
    BY <1>0 DEF IndexInv, WorkInv
  <2> QED BY <1>0, <1>1, <2>1
<1>2. CASE UNCHANGED vars
  BY <1>0, <1>2 DEF vars, coinVars, draftVars, indexVars, nodeVars
<1>3. ASSUME NEW b \in Blocks, StartConnect(b) PROVE IndexInv'
  <2>1. CASE \E i \in DOMAIN Vtx[b] : Overwrites(b, i)
    <3>1. MarkFailed({b}) /\ ~flushing' /\ WorkInv'
          /\ {b} \in SUBSET Blocks /\ UNCHANGED <<cacheBest, savedBest>>
      BY <1>3, <2>1 DEF WorkInv, StartConnect, Free, draftVars, nodeVars
    <3> QED BY <3>1, MarkKeepsIndex
  <2>2. CASE ~\E i \in DOMAIN Vtx[b] : Overwrites(b, i)
    <3>1. Same /\ flushing' = flushing /\ work'.op = "connect" /\ work'.block = b
          /\ b # Genesis /\ Parent[b] = tip /\ cacheBest = tip
      BY <1>3, <2>2 DEF StartConnect, Fetch, indexVars, nodeVars
    <3> QED BY <3>1 DEF IndexInv, WorkInv, Closed, Covered
  <2> QED BY <2>1, <2>2
<1>4. ASSUME NEW b \in Blocks, ReconsiderBlock(b) PROVE IndexInv'
  <2>1. PICK cleared \in SUBSET Blocks :
           /\ index' = [a \in Blocks |-> IF a \in cleared
                                         THEN [index[a] EXCEPT !.failed = FALSE]
                                         ELSE index[a]]
           /\ setDirtyBlockIndex' = setDirtyBlockIndex \cup cleared
    BY <1>4 DEF ReconsiderBlock
  <2>2. \A a \in Blocks : /\ index'[a].hasUndo = index[a].hasUndo
                          /\ a \notin cleared => index'[a] = index[a]
    BY <2>1 DEF OtherTypes, IndexEntries
  <2>3. ~flushing' /\ work' = work /\ work.op = "idle"
        /\ UNCHANGED <<cacheBest, savedBest, indexDisk>>
    BY <1>4 DEF ReconsiderBlock, Free, coinVars, draftVars, nodeVars
  <2>4. Closed(index') /\ Closed(indexDisk')
    BY <2>2, <2>3, BlockAssumption DEF IndexInv, Closed
  <2>5. Covered(index', cacheBest') /\ Covered(indexDisk', savedBest')
        /\ Covered(index', savedBest')
    BY <2>2, <2>3 DEF IndexInv, Covered, OtherTypes
  <2> QED BY <2>1, <2>2, <2>3, <2>4, <2>5 DEF IndexInv, WorkInv
<1>5. ASSUME NEW b \in Disputed, StartInvalidate(b) PROVE IndexInv'
  <2>1. MarkFailed({b}) /\ {b} \in SUBSET Blocks /\ ~flushing' /\ UNCHANGED <<cacheBest, savedBest>>
        /\ WorkInv'
    BY <1>5, BlockAssumption DEF WorkInv, StartInvalidate, Free, coinVars, draftVars, nodeVars
  <2> QED BY <2>1, MarkKeepsIndex
<1>6. CASE CheckInputs
  <2>1. CASE HaveInputs(CurrentTx)
    <3>1. Same /\ flushing' = flushing /\ SameWork
      BY <1>6, <2>1 DEF CheckInputs, Fetch, indexVars, nodeVars, OtherTypes, Works
    <3> QED BY <1>0, <3>1
  <2>2. CASE ~HaveInputs(CurrentTx)
    <3>1. MarkFailed({work.block}) /\ {work.block} \in SUBSET Blocks /\ ~flushing'
          /\ WorkInv' /\ UNCHANGED <<cacheBest, savedBest>>
      BY <1>6, <2>2, IdleType
      DEF WorkInv, CheckInputs, Connecting, DropView, nodeVars, OtherTypes, Works, DraftInv
    <3> QED BY <3>1, MarkKeepsIndex
  <2> QED BY <2>1, <2>2
<1>7. CASE SpendInput \/ AddOutputs \/ RemoveOutputs \/ RestoreInput
  <2>1. Same /\ flushing' = flushing /\ SameWork
    BY <1>7 DEF SpendInput, AddOutputs, RemoveOutputs, RestoreInput, Modify, coinVars,
       indexVars, nodeVars, OtherTypes, Works
  <2> QED BY <1>0, <2>1
<1>8. CASE FailConnect
  <2>1. MarkFailed({work.block}) /\ {work.block} \in SUBSET Blocks /\ ~flushing'
        /\ WorkInv' /\ UNCHANGED <<cacheBest, savedBest>>
    BY <1>8, IdleType
    DEF WorkInv, FailConnect, Connecting, DropView, coinVars, nodeVars, OtherTypes, Works, DraftInv
  <2> QED BY <2>1, MarkKeepsIndex
<1>9. CASE FinishConnect
  <2> DEFINE b == work.block
  <2>1. b \in Blocks /\ b # Genesis /\ Parent[b] = cacheBest /\ ~flushing'
        /\ cacheBest' = b /\ savedBest' = savedBest /\ work'.op = "update"
        /\ indexDisk' = indexDisk
    BY <1>9 DEF FinishConnect, Connecting, Idle, IndexInv, WorkInv, DraftInv, OtherTypes, Works,
       nodeVars, indexVars
  <2>2. /\ \A a \in Blocks : index'[a].hasUndo = (a = b \/ index[a].hasUndo)
        /\ \A a \in Blocks \ setDirtyBlockIndex' : index'[a] = index[a]
        /\ setDirtyBlockIndex \subseteq setDirtyBlockIndex'
    <3>1. CASE index[b].hasUndo
      BY <1>9, <2>1, <3>1 DEF FinishConnect, indexVars, OtherTypes, IndexEntries
    <3>2. CASE ~index[b].hasUndo
      <4>1. /\ index' = [index EXCEPT ![b].hasUndo = TRUE, ![b].undo = blockundo]
            /\ setDirtyBlockIndex' = setDirtyBlockIndex \cup {b}
        BY <1>9, <3>2 DEF FinishConnect, DirtyWith
      <4> QED BY <2>1, <4>1 DEF OtherTypes, IndexEntries
    <3> QED BY <3>1, <3>2
  <2> HIDE DEF b
  <2>3. Closed(index')
    BY <2>1, <2>2, BlockAssumption DEF IndexInv, Closed, Covered
  <2>4. Closed(indexDisk') /\ Covered(indexDisk', savedBest')
    BY <2>1 DEF IndexInv, Closed, Covered
  <2>5. Covered(index', cacheBest') /\ Covered(index', savedBest')
    BY <2>1, <2>2 DEF IndexInv, Covered, OtherTypes
  <2> QED BY <2>1, <2>2, <2>3, <2>4, <2>5 DEF IndexInv, WorkInv
<1>10. CASE UpdateTip
  <2>1. Same /\ ~flushing' /\ WorkInv'
    BY <1>10, IdleType DEF WorkInv, UpdateTip, coinVars, indexVars, nodeVars
  <2> QED BY <1>1, <2>1
<1>11. CASE StartDisconnect
  <2>1. work'.op = "disconnect" /\ work'.block = cacheBest /\ index[cacheBest].hasUndo
        /\ UNCHANGED <<cacheBest, savedBest>> /\ ~flushing' /\ tip \in Blocks
    BY <1>11 DEF StartDisconnect, Free, coinVars, nodeVars, OtherTypes
  <2>2. CASE invalidating = None
    <3>1. Same
      BY <1>11, <2>2 DEF StartDisconnect, coinVars, indexVars
    <3> QED BY <2>1, <3>1 DEF IndexInv, WorkInv, Closed, Covered
  <2>3. CASE invalidating # None
    <3>1. MarkFailed({tip}) /\ {tip} \in SUBSET Blocks
      BY <1>11, <2>1, <2>3 DEF StartDisconnect
    <3>2. index'[cacheBest].hasUndo
      BY <2>1, <3>1, MarkType DEF OtherTypes
    <3>3. WorkInv'
      BY <2>1, <3>2 DEF WorkInv
    <3> QED BY <2>1, <3>1, <3>3, MarkKeepsIndex
  <2> QED BY <2>2, <2>3
<1>12. CASE FinishDisconnect
  <2>1. CASE work.clean
    <3>1. /\ work.block = cacheBest /\ index[cacheBest].hasUndo /\ cacheBest \in Blocks
          /\ cacheBest' = Parent[cacheBest] /\ work'.op = "update" /\ ~flushing'
          /\ UNCHANGED <<savedBest, index, indexDisk, setDirtyBlockIndex>>
      BY <1>12, <2>1 DEF FinishDisconnect, BestAfterDisconnect, Idle, IndexInv, WorkInv, indexVars,
         nodeVars, DraftInv, OtherTypes
    <3>2. Covered(index', cacheBest')
      BY <3>1 DEF IndexInv, Closed, Covered
    <3> QED BY <3>1, <3>2 DEF IndexInv, WorkInv, Closed, Covered
  <2>2. CASE ~work.clean
    <3>1. Same /\ flushing' = flushing /\ WorkInv'
      BY <1>12, <2>2, IdleType
      DEF WorkInv, FinishDisconnect, DropView, coinVars, indexVars, nodeVars
    <3> QED BY <1>1, <3>1
  <2> QED BY <2>1, <2>2
<1>13. CASE EndInvalidate
  <2>1. ~flushing' /\ UNCHANGED <<cacheBest, savedBest>>
        /\ WorkInv'
    BY <1>13 DEF WorkInv, EndInvalidate, Free, coinVars, draftVars, nodeVars
  <2>2. CASE invalidating \in ChainOf[tip]
    <3>1. MarkFailed({tip}) /\ {tip} \in SUBSET Blocks
      BY <1>13, <2>2 DEF EndInvalidate, OtherTypes
    <3> QED BY <2>1, <3>1, MarkKeepsIndex
  <2>3. CASE invalidating \notin ChainOf[tip]
    <3>1. Same
      BY <1>13, <2>1, <2>3 DEF EndInvalidate, indexVars
    <3> QED BY <1>1, <2>1, <3>1
  <2> QED BY <2>2, <2>3
<1>14. ASSUME NEW t \in TxIds, NEW n, NEW accepted \in BOOLEAN,
              AcceptToMemoryPool(t, n, accepted)
       PROVE  IndexInv'
  <2>1. Same /\ flushing' = flushing /\ SameWork
    BY <1>14 DEF AcceptToMemoryPool, draftVars, indexVars, nodeVars
  <2> QED BY <1>0, <2>1
<1>15. ASSUME NEW full \in BOOLEAN, WriteIndex(full) PROVE IndexInv'
  <2>1. /\ \A b \in Blocks : indexDisk'[b] = index'[b]
        /\ UNCHANGED <<cacheBest, savedBest, work, index>>
    BY <1>15 DEF WriteIndex, coinVars, draftVars, IndexInv
  <2>2. Closed(indexDisk') /\ Covered(indexDisk', savedBest')
    BY <2>1, BlockAssumption DEF IndexInv, Closed, Covered, OtherTypes
  <2> QED BY <2>1, <2>2 DEF IndexInv, WorkInv, Closed, Covered
<1>16. ASSUME NEW full \in BOOLEAN, FailWriteIndex(full) \/ NoDiskSpace(full) PROVE FALSE
  BY <1>16 DEF FailWriteIndex, NoDiskSpace, Abort, OtherTypes
<1>17. CASE FlushCoins
  <2>1. /\ \A b \in Blocks : indexDisk[b] = index[b]
        /\ UNCHANGED <<cacheBest, work, index, indexDisk, setDirtyBlockIndex>>
        /\ savedBest' = cacheBest /\ cacheBest \in Blocks /\ ~flushing'
    BY <1>17 DEF FlushCoins, IndexInv, draftVars, indexVars, OtherTypes
  <2> QED BY <2>1 DEF IndexInv, WorkInv, Closed, Covered
<1>18. CASE FailFlushCoins
  <2>1. FALSE
    BY <1>18 DEF FailFlushCoins, Abort, OtherTypes
  <2> QED BY <2>1
<1>19. CASE Stop
  <2>1. Same /\ flushing' = flushing /\ SameWork
    BY <1>19 DEF Stop, coinVars, draftVars, indexVars
  <2> QED BY <1>0, <2>1
<1>20. CASE Restart
  <2>1. cacheBest' = savedBest /\ savedBest' = savedBest /\ index' = indexDisk
        /\ indexDisk' = indexDisk /\ ~flushing' /\ work'.op = "idle"
    BY <1>20, IdleType DEF Restart, DropView
  <2> QED BY <2>1 DEF IndexInv, WorkInv, Closed, Covered
<1> QED
  BY <1>2, <1>3, <1>4, <1>5, <1>6, <1>7, <1>8, <1>9, <1>10, <1>11, <1>12, <1>13, <1>14,
     <1>15, <1>16, <1>17, <1>18, <1>19, <1>20 DEF Next

\* A write that failed is not forgotten.
LEMMA FailuresStay ==
  ASSUME IInv, [Next]_vars
  PROVE  failures' = 0 => failures = 0
<1>1. failures' = failures \/ failures' = failures + 1
  BY DEF Next, vars, nodeVars, StartConnect, ReconsiderBlock, StartInvalidate,
     CheckInputs, SpendInput, AddOutputs, FailConnect, FinishConnect, UpdateTip,
     StartDisconnect, RemoveOutputs, RestoreInput, FinishDisconnect, EndInvalidate,
     AcceptToMemoryPool, WriteIndex, FailWriteIndex, NoDiskSpace, FlushCoins, FailFlushCoins, Stop,
     Restart, Abort
<1>2. failures \in Nat
  BY DEF IInv, OtherTypes
<1> QED BY <1>1, <1>2

\* After a crash every block of the chain on disk can be disconnected.
THEOREM IndexCoversCoinsHolds == Spec => []IndexCoversCoins
<1>1. Init => IndexInv
  BY IdleType, BlockAssumption DEF Init, IndexInv, WorkInv, Closed, Covered
<1>2. ASSUME IInv, BestInv, failures = 0 => IndexInv, [Next]_vars
      PROVE  (failures = 0 => IndexInv)'
  <2>1. failures' = 0 => failures = 0
    BY <1>2, FailuresStay
  <2> QED BY <1>2, <2>1, IndexStep
<1>3. IInv /\ (failures = 0 => IndexInv) => IndexCoversCoins
  BY DEF IInv, OtherTypes, IndexInv, Closed, Covered, IndexCoversCoins, UndoReaches
<1>4. Init => BestInv
  BY IdleType DEF Init, BestInv
<1>5. IInv /\ BestInv /\ (failures = 0 => IndexInv) /\ [Next]_vars
        => (failures = 0 => IndexInv)'
  BY <1>2
<1> QED BY <1>1, <1>3, <1>4, <1>5, BestStep, Inductive, PTL DEF Spec

(***************************************************************************)
(* What the blocks alone say: After and UtxoOf are the functions their     *)
(* equations describe.                                                     *)
(***************************************************************************)

Before == {p \in Nat \X Nat : p[1] < p[2]}
LEMMA BeforeWellFounded == IsWellFoundedOn(Before, Nat)
BY NatLessThanWellFounded DEF OpToRel, Before

\* A set of numbers has a least one.
LEMMA Least ==
  ASSUME NEW S, S \subseteq Nat, S # {}
  PROVE  \E n \in S : \A m \in S : n <= m
<1>1. PICK n \in S : \A m \in S : <<m, n>> \notin Before
  BY BeforeWellFounded, WFMin, Zenon
<1>2. ASSUME NEW m \in S PROVE n <= m
  <2>1. <<m, n>> \notin Before /\ m \in Nat /\ n \in Nat
    BY <1>1
  <2>2. ~(m < n)
    BY <2>1 DEF Before
  <2> QED BY <2>1, <2>2
<1> QED BY <1>2

\* Coins as they are after i transactions of b: the recursion ends.
Applied(coins, b, n, after) ==
    after = [i \in 0..n |-> IF i = 0 THEN coins
                            ELSE ApplyTx(after[i - 1], Vtx[b][i], Height[b])]

LEMMA AppliedEnds ==
  ASSUME NEW coins, NEW b, NEW N \in Nat
  PROVE  \E after : Applied(coins, b, N, after)
<1> DEFINE Bad == {n \in Nat : ~ \E after : Applied(coins, b, n, after)}
<1>1. SUFFICES ASSUME Bad # {} PROVE FALSE
  OBVIOUS
<1>2. Bad \subseteq Nat
  OBVIOUS
<1>3. PICK n \in Bad : \A k \in Bad : n <= k
  <2> HIDE DEF Bad
  <2> QED BY <1>1, <1>2, Least
<1>4. n # 0
  <2>1. Applied(coins, b, 0, [i \in 0..0 |-> coins])
    BY DEF Applied
  <2> QED BY <1>3, <2>1
<1>5. n \in Nat /\ n - 1 \in Nat /\ ~(n <= n - 1)
  BY <1>3, <1>4
<1>6. n - 1 \notin Bad
  BY <1>3, <1>5
<1>7. PICK after : Applied(coins, b, n - 1, after)
  BY <1>5, <1>6
<1> DEFINE turn(i, f) == IF i = 0 THEN coins ELSE ApplyTx(f[i - 1], Vtx[b][i], Height[b])
           longer == [i \in 0..n |-> turn(i, after)]
<1>8. ASSUME NEW i \in 0..n - 1 PROVE longer[i] = after[i]
  <2>1. i \in 0..n
    BY <1>5
  <2>2. longer[i] = turn(i, after)
    BY <2>1
  <2>3. after = [k \in 0..n - 1 |-> turn(k, after)]
    BY <1>7 DEF Applied
  <2> HIDE DEF turn, longer
  <2> QED BY <2>2, <2>3
<1>9. ASSUME NEW i \in 0..n PROVE turn(i, longer) = turn(i, after)
  <2>1. CASE i = 0
    BY <2>1
  <2>2. CASE i # 0
    <3>1. i - 1 \in 0..n - 1
      BY <1>5, <2>2
    <3>2. longer[i - 1] = after[i - 1]
      BY <1>8, <3>1
    <3> HIDE DEF longer
    <3> QED BY <3>2
  <2> QED BY <2>1, <2>2
<1>10. longer = [i \in 0..n |-> turn(i, longer)]
  <2> HIDE DEF turn
  <2> QED BY <1>9
<1>11. Applied(coins, b, n, longer)
  BY <1>10 DEF Applied
<1> QED BY <1>3, <1>11

LEMMA AfterEach ==
  ASSUME NEW coins, NEW b \in Blocks
  PROVE  /\ After(coins, b)[0] = coins
         /\ \A i \in 1..Len(Vtx[b]) :
               After(coins, b)[i] = ApplyTx(After(coins, b)[i - 1], Vtx[b][i], Height[b])
<1> DEFINE after == CHOOSE f : Applied(coins, b, Len(Vtx[b]), f)
<1>0. Len(Vtx[b]) \in Nat
  BY BlockLength
<1>1. Applied(coins, b, Len(Vtx[b]), after)
  BY <1>0, AppliedEnds
<1>2. After(coins, b) = after
  BY DEF After, Applied
<1> HIDE DEF after
<1>3. 0 \in 0..Len(Vtx[b]) /\ \A i \in 1..Len(Vtx[b]) : i \in 0..Len(Vtx[b]) /\ i # 0
  BY <1>0
<1>4. after[0] = coins
  BY <1>1, <1>3 DEF Applied
<1>5. ASSUME NEW i \in 1..Len(Vtx[b])
      PROVE  after[i] = ApplyTx(after[i - 1], Vtx[b][i], Height[b])
  BY <1>1, <1>3 DEF Applied
<1> QED BY <1>2, <1>4, <1>5

\* The coins of the blocks up to a height.
NoCoins == [t \in TxIds |-> Clear]
BlockCoins(utxo, b) ==
    IF b = Genesis THEN NoCoins ELSE After(utxo[Parent[b]], b)[Len(Vtx[b])]
UpTo(n) == {b \in Blocks : Height[b] <= n}
Summed(n, utxo) == utxo = [b \in UpTo(n) |-> BlockCoins(utxo, b)]

LEMMA ParentBelow ==
  ASSUME NEW b \in Blocks, b # Genesis
  PROVE  /\ Parent[b] \in Blocks /\ Height[b] \in Nat /\ Height[Parent[b]] \in Nat
         /\ Height[b] = Height[Parent[b]] + 1
BY BlockAssumption

LEMMA SummedEnds ==
  ASSUME NEW N \in Nat
  PROVE  \E utxo : Summed(N, utxo)
<1> DEFINE Bad == {n \in Nat : ~ \E utxo : Summed(n, utxo)}
<1>1. SUFFICES ASSUME Bad # {} PROVE FALSE
  OBVIOUS
<1>2. Bad \subseteq Nat
  OBVIOUS
<1>3. PICK n \in Bad : \A k \in Bad : n <= k
  <2> HIDE DEF Bad
  <2> QED BY <1>1, <1>2, Least
<1>4. n # 0
  <2>1. \A b \in UpTo(0) : b = Genesis
    BY ParentBelow DEF UpTo
  <2>2. Summed(0, [b \in UpTo(0) |-> NoCoins])
    BY <2>1 DEF Summed, BlockCoins
  <2> QED BY <1>3, <2>2
<1>5. n \in Nat /\ n - 1 \in Nat /\ ~(n <= n - 1)
  BY <1>3, <1>4
<1>6. PICK utxo : Summed(n - 1, utxo)
  BY <1>3, <1>5
<1> DEFINE longer == [b \in UpTo(n) |-> BlockCoins(utxo, b)]
<1>7. ASSUME NEW b \in UpTo(n - 1) PROVE longer[b] = utxo[b]
  <2>1. b \in UpTo(n)
    BY <1>5, BlockAssumption DEF UpTo
  <2>2. longer[b] = BlockCoins(utxo, b)
    BY <2>1
  <2> HIDE DEF longer
  <2> QED BY <1>6, <2>2 DEF Summed
<1>8. ASSUME NEW b \in UpTo(n) PROVE BlockCoins(longer, b) = BlockCoins(utxo, b)
  <2>1. CASE b = Genesis
    BY <2>1 DEF BlockCoins
  <2>2. CASE b # Genesis
    <3>1. Parent[b] \in UpTo(n - 1)
      BY <1>5, <2>2, ParentBelow DEF UpTo
    <3>2. longer[Parent[b]] = utxo[Parent[b]]
      BY <1>7, <3>1
    <3> HIDE DEF longer
    <3> QED BY <3>2 DEF BlockCoins
  <2> QED BY <2>1, <2>2
<1>9. longer = [b \in UpTo(n) |-> BlockCoins(longer, b)]
  BY <1>8
<1>10. Summed(n, longer)
  BY <1>9 DEF Summed
<1> QED BY <1>3, <1>10

\* Two sums agree where both are defined.
LEMMA SummedAgree ==
  ASSUME NEW m \in Nat, NEW f, Summed(m, f), NEW n \in Nat, NEW g, Summed(n, g)
  PROVE  \A b \in UpTo(m) \cap UpTo(n) : f[b] = g[b]
<1> DEFINE Both == UpTo(m) \cap UpTo(n)
           Bad == {Height[b] : b \in {c \in Both : f[c] # g[c]}}
<1>1. SUFFICES ASSUME Bad # {} PROVE FALSE
  OBVIOUS
<1>2. Bad \subseteq Nat
  BY BlockAssumption DEF UpTo
<1>3. PICK h \in Bad : \A k \in Bad : h <= k
  <2> HIDE DEF Bad
  <2> QED BY <1>1, <1>2, Least
<1>4. PICK b \in Both : f[b] # g[b] /\ h = Height[b]
  BY <1>3
<1>5. f[b] = BlockCoins(f, b) /\ g[b] = BlockCoins(g, b) /\ b \in Blocks
  BY <1>4 DEF Summed, UpTo
<1>6. b # Genesis
  BY <1>4, <1>5 DEF BlockCoins
<1>7. Parent[b] \in Both /\ Height[Parent[b]] \in Nat /\ ~(Height[b] <= Height[Parent[b]])
  BY <1>4, <1>5, <1>6, ParentBelow DEF UpTo
<1>8. f[Parent[b]] = g[Parent[b]]
  BY <1>3, <1>4, <1>7
<1> QED BY <1>4, <1>5, <1>8 DEF BlockCoins

LEMMA UtxoOfEach ==
  ASSUME NEW b \in Blocks
  PROVE  UtxoOf[b] = BlockCoins(UtxoOf, b)
<1> DEFINE part(c) == CHOOSE f : Summed(Height[c], f)
           whole == [c \in Blocks |-> part(c)[c]]
           utxo == CHOOSE f : f = [c \in Blocks |-> BlockCoins(f, c)]
<1>1. \A c \in Blocks : Height[c] \in Nat /\ c \in UpTo(Height[c])
  BY BlockAssumption DEF UpTo
<1>2. ASSUME NEW c \in Blocks PROVE Summed(Height[c], part(c))
  BY <1>1, SummedEnds
<1> HIDE DEF part
<1>3. ASSUME NEW c \in Blocks PROVE whole[c] = BlockCoins(whole, c)
  <2>1. part(c)[c] = BlockCoins(part(c), c)
    BY <1>1, <1>2 DEF Summed
  <2>2. CASE c = Genesis
    BY <2>1, <2>2 DEF BlockCoins
  <2>3. CASE c # Genesis
    <3> DEFINE p == Parent[c]
    <3>1. p \in Blocks /\ p \in UpTo(Height[c]) /\ p \in UpTo(Height[p])
      BY <1>1, <2>3, ParentBelow DEF UpTo
    <3>2. part(c)[p] = part(p)[p]
      BY <1>1, <1>2, <3>1, SummedAgree
    <3>3. whole[p] = part(p)[p]
      BY <3>1
    <3>4. BlockCoins(whole, c) = BlockCoins(part(c), c)
      BY <2>3, <3>2, <3>3 DEF BlockCoins
    <3> QED BY <2>1, <3>4
  <2> QED BY <2>2, <2>3
<1>4. whole = [c \in Blocks |-> BlockCoins(whole, c)]
  <2>1. whole = [c \in Blocks |-> whole[c]]
    OBVIOUS
  <2> HIDE DEF whole
  <2> QED BY <1>3, <2>1
<1>5. utxo = [c \in Blocks |-> BlockCoins(utxo, c)]
  <2> HIDE DEF whole
  <2> QED BY <1>4
<1>6. UtxoOf = utxo
  BY DEF UtxoOf, BlockCoins, NoCoins
<1> HIDE DEF utxo
<1> QED BY <1>5, <1>6

(***************************************************************************)
(* The stages of a block: i - 1 of its transactions are applied, and k     *)
(* inputs of the next one are spent.                                       *)
(***************************************************************************)

\* Coins in the form that Value gives them; a coinbase of genesis is in none.
PureCoins == {c \in Coins : Value(c) = c /\ (c.outs # {} => c.height # 0)}
Pure == [TxIds -> PureCoins]

Less(c, N) == Value([c EXCEPT !.outs = @ \ N])
InputsOf(t, k, u) == {n \in Nat : \E m \in 1..k : Vin[t][m] = <<u, n>>}
Spent(coins, t, k) == [u \in TxIds |-> Less(coins[u], InputsOf(t, k, u))]

Done(b, i) == After(UtxoOf[Parent[b]], b)[i]
Input(b, i, k) == Vin[Vtx[b][i]][k]
Stage(b, i, k) == IF k = 0 THEN Done(b, i - 1) ELSE Spent(Done(b, i - 1), Vtx[b][i], k)

LEMMA ValueOf ==
  ASSUME NEW c \in Coins
  PROVE  /\ Value(c) \in Coins /\ Value(c).outs = c.outs /\ Value(Value(c)) = Value(c)
         /\ ~IsPruned(c) => Value(c) = c
         /\ c.height # 0 => Value(c) \in PureCoins
BY DEF Value, IsPruned, Coins, Clear, PureCoins

LEMMA LessOf ==
  ASSUME NEW c \in PureCoins, NEW N
  PROVE  /\ Less(c, N) \in PureCoins
         /\ Less(c, N).outs = c.outs \ N
         /\ ~IsPruned(Less(c, N)) => Less(c, N).height = c.height
         /\ c.outs \cap N = {} => Less(c, N) = c
<1> DEFINE d == [c EXCEPT !.outs = @ \ N]
<1>1. /\ c \in Coins /\ Value(c) = c /\ (c.outs # {} => c.height # 0)
      /\ c.height \in Nat /\ c.outs \subseteq Nat
      /\ c = [height |-> c.height, outs |-> c.outs]
  BY DEF PureCoins, Coins
<1>2. d = [height |-> c.height, outs |-> c.outs \ N]
  BY <1>1
<1>3. d \in Coins /\ d.outs = c.outs \ N /\ d.height = c.height
  BY <1>1, <1>2 DEF Coins
<1>4. Less(c, N) = Value(d)
  BY DEF Less
<1> HIDE DEF d
<1>5. CASE d.outs = {}
  <2>1. Value(d) = Clear
    BY <1>5 DEF Value, IsPruned
  <2>2. Clear \in PureCoins /\ Clear.outs = {}
    BY DEF Clear, PureCoins, Coins, Value, IsPruned
  <2>3. c.outs \cap N = {} => c = Clear
    BY <1>1, <1>3, <1>5 DEF Value, IsPruned
  <2> QED BY <1>3, <1>4, <1>5, <2>1, <2>2, <2>3 DEF IsPruned
<1>6. CASE d.outs # {}
  <2>1. Value(d) = d /\ c.outs # {}
    BY <1>3, <1>6 DEF Value, IsPruned
  <2>2. d \in PureCoins
    BY <1>1, <1>3, <2>1 DEF PureCoins
  <2>3. c.outs \cap N = {} => c.outs \ N = c.outs
    OBVIOUS
  <2>4. c.outs \cap N = {} => d = c
    BY <1>1, <1>2, <2>3
  <2> QED BY <1>3, <1>4, <2>1, <2>2, <2>4
<1> QED BY <1>5, <1>6

LEMMA LessTwice ==
  ASSUME NEW c \in PureCoins, NEW N, NEW M
  PROVE  Less(Less(c, N), M) = Less(c, N \cup M)
<1> DEFINE d == Less(c, N)
<1>1. d \in PureCoins /\ d.outs = c.outs \ N /\ (~IsPruned(d) => d.height = c.height)
  BY LessOf
<1> HIDE DEF d
<1>2. Less(d, M) = Value([d EXCEPT !.outs = @ \ M])
      /\ Less(c, N \cup M) = Value([c EXCEPT !.outs = @ \ (N \cup M)])
  BY DEF Less
<1>3. /\ [d EXCEPT !.outs = @ \ M] = [height |-> d.height, outs |-> d.outs \ M]
      /\ [c EXCEPT !.outs = @ \ (N \cup M)] = [height |-> c.height, outs |-> c.outs \ (N \cup M)]
  BY <1>1 DEF PureCoins, Coins
<1>4. d.outs \ M = c.outs \ (N \cup M)
  BY <1>1
<1>5. CASE c.outs \ (N \cup M) = {}
  BY <1>2, <1>3, <1>4, <1>5 DEF Value, IsPruned, d
<1>6. CASE c.outs \ (N \cup M) # {}
  <2>1. ~IsPruned(d)
    BY <1>4, <1>6 DEF IsPruned
  <2> QED BY <1>1, <1>2, <1>3, <1>4, <2>1 DEF d
<1> QED BY <1>5, <1>6

LEMMA NewCoinsPure ==
  ASSUME NEW b \in Blocks, b # Genesis, NEW t \in TxIds
  PROVE  /\ FromTx(t, Height[b]) \in Coins
         /\ Value(FromTx(t, Height[b])) \in PureCoins
<1>1. Height[b] \in Nat /\ Height[b] # 0
  BY ParentBelow
<1>2. FromTx(t, Height[b]) \in Coins /\ FromTx(t, Height[b]).height # 0
  BY <1>1, TransactionAssumption DEF FromTx, Coins
<1> QED BY <1>2, ValueOf

\* A transaction as its inputs and its outputs.
LEMMA ApplyParts ==
  ASSUME NEW coins \in Pure, NEW t \in TxIds, NEW b \in Blocks, b # Genesis
  PROVE  LET applied == ApplyTx(coins, t, Height[b])
         IN  /\ applied \in Pure
             /\ applied = [Spent(coins, t, Len(Vin[t])) EXCEPT ![t] = Value(FromTx(t, Height[b]))]
<1> DEFINE applied == ApplyTx(coins, t, Height[b])
           spent == Spent(coins, t, Len(Vin[t]))
<1>1. ASSUME NEW u \in TxIds
      PROVE  Value([coins[u] EXCEPT !.outs = @ \ {n \in @ : <<u, n>> \in Inputs(t)}]) = spent[u]
  <2>1. coins[u] \in PureCoins /\ coins[u].outs \subseteq Nat
    BY DEF Pure, PureCoins, Coins
  <2>2. \A n : <<u, n>> \in Inputs(t) <=> \E m \in 1..Len(Vin[t]) : Vin[t][m] = <<u, n>>
    BY InputIndex DEF Inputs
  <2>3. coins[u].outs \ {n \in coins[u].outs : <<u, n>> \in Inputs(t)} =
        coins[u].outs \ InputsOf(t, Len(Vin[t]), u)
    BY <2>1, <2>2 DEF InputsOf
  <2>4. [coins[u] EXCEPT !.outs = @ \ {n \in @ : <<u, n>> \in Inputs(t)}] =
        [coins[u] EXCEPT !.outs = @ \ InputsOf(t, Len(Vin[t]), u)]
    BY <2>1, <2>3
  <2>5. spent[u] = Less(coins[u], InputsOf(t, Len(Vin[t]), u))
    BY DEF Spent
  <2> QED BY <2>4, <2>5 DEF Less
<1>2. spent \in Pure
  BY LessOf DEF Spent, Pure
<1>3. applied = [u \in TxIds |-> IF u = t THEN Value(FromTx(t, Height[b])) ELSE spent[u]]
  <2> HIDE DEF spent
  <2> QED BY <1>1 DEF ApplyTx
<1> HIDE DEF spent, applied
<1>4. applied \in Pure
  BY <1>2, <1>3, NewCoinsPure DEF Pure
<1>5. applied = [spent EXCEPT ![t] = Value(FromTx(t, Height[b]))]
  BY <1>2, <1>3 DEF Pure
<1> QED BY <1>4, <1>5 DEF applied, spent

LEMMA AfterPure ==
  ASSUME NEW coins \in Pure, NEW b \in Blocks, b # Genesis
  PROVE  \A i \in 0..Len(Vtx[b]) : After(coins, b)[i] \in Pure
<1> DEFINE Bad == {i \in 0..Len(Vtx[b]) : After(coins, b)[i] \notin Pure}
<1>1. SUFFICES ASSUME Bad # {} PROVE FALSE
  OBVIOUS
<1>2. Bad \subseteq Nat /\ Len(Vtx[b]) \in Nat
  BY BlockLength
<1>3. PICK i \in Bad : \A k \in Bad : i <= k
  <2> HIDE DEF Bad
  <2> QED BY <1>1, <1>2, Least
<1>4. i # 0
  BY <1>3, AfterEach
<1>5. i \in 1..Len(Vtx[b]) /\ i - 1 \in 0..Len(Vtx[b]) /\ ~(i <= i - 1)
  BY <1>2, <1>3, <1>4
<1>6. After(coins, b)[i - 1] \in Pure
  BY <1>3, <1>5
<1>7. After(coins, b)[i] = ApplyTx(After(coins, b)[i - 1], Vtx[b][i], Height[b])
  BY <1>5, AfterEach
<1>8. Vtx[b][i] \in TxIds
  BY <1>5, BlockAssumption
<1>9. ApplyTx(After(coins, b)[i - 1], Vtx[b][i], Height[b]) \in Pure
  BY <1>6, <1>8, ApplyParts
<1> QED BY <1>3, <1>7, <1>9

LEMMA UtxoPure ==
  ASSUME NEW b \in Blocks
  PROVE  UtxoOf[b] \in Pure
<1> DEFINE Bad == {Height[c] : c \in {a \in Blocks : UtxoOf[a] \notin Pure}}
<1>1. SUFFICES ASSUME Bad # {} PROVE FALSE
  OBVIOUS
<1>2. Bad \subseteq Nat
  BY BlockAssumption
<1>3. PICK h \in Bad : \A k \in Bad : h <= k
  <2> HIDE DEF Bad
  <2> QED BY <1>1, <1>2, Least
<1>4. PICK c \in Blocks : UtxoOf[c] \notin Pure /\ h = Height[c]
  BY <1>3
<1>5. CASE c = Genesis
  <2>1. UtxoOf[c] = NoCoins
    BY <1>5, UtxoOfEach DEF BlockCoins
  <2>2. NoCoins \in Pure
    BY DEF NoCoins, Pure, PureCoins, Coins, Clear, Value, IsPruned
  <2> QED BY <1>4, <2>1, <2>2
<1>6. CASE c # Genesis
  <2>1. Parent[c] \in Blocks /\ ~(h <= Height[Parent[c]])
    BY <1>4, <1>6, ParentBelow
  <2>2. UtxoOf[Parent[c]] \in Pure
    BY <1>3, <2>1
  <2>3. UtxoOf[c] = After(UtxoOf[Parent[c]], c)[Len(Vtx[c])]
    BY <1>6, UtxoOfEach DEF BlockCoins
  <2>4. Len(Vtx[c]) \in 0..Len(Vtx[c])
    BY BlockLength
  <2> QED BY <1>4, <1>6, <2>2, <2>3, <2>4, AfterPure
<1> QED BY <1>5, <1>6

\* The first and the last stage, and the two kinds of steps between stages.
LEMMA StageFirst ==
  ASSUME NEW b \in Blocks
  PROVE  Stage(b, 1, 0) = UtxoOf[Parent[b]]
BY AfterEach DEF Stage, Done

LEMMA StageLast ==
  ASSUME NEW b \in Blocks, b # Genesis
  PROVE  Stage(b, Len(Vtx[b]) + 1, 0) = UtxoOf[b]
<1>1. Len(Vtx[b]) + 1 - 1 = Len(Vtx[b])
  BY BlockLength
<1> QED BY <1>1, UtxoOfEach DEF Stage, Done, BlockCoins

LEMMA StagePure ==
  ASSUME NEW b \in Blocks, b # Genesis, NEW i \in 1..Len(Vtx[b]) + 1, NEW k \in Nat,
         k = 0 \/ i \in DOMAIN Vtx[b]
  PROVE  Stage(b, i, k) \in Pure
<1>1. Done(b, i - 1) \in Pure
  <2>1. UtxoOf[Parent[b]] \in Pure
    BY UtxoPure, ParentBelow
  <2>2. i - 1 \in 0..Len(Vtx[b])
    BY BlockLength
  <2> QED BY <2>1, <2>2, AfterPure DEF Done
<1>2. Spent(Done(b, i - 1), Vtx[b][i], k) \in Pure
  BY <1>1, LessOf DEF Spent, Pure
<1> QED BY <1>1, <1>2 DEF Stage

LEMMA StageSpends ==
  ASSUME NEW b \in Blocks, b # Genesis, NEW i \in DOMAIN Vtx[b], NEW k \in DOMAIN Vin[Vtx[b][i]]
  PROVE  Stage(b, i, k) =
             [Stage(b, i, k - 1) EXCEPT ![Input(b, i, k)[1]] = Less(@, {Input(b, i, k)[2]})]
<1> DEFINE t == Vtx[b][i]
           o == Vin[t][k]
           was == Stage(b, i, k - 1)
           start == Stage(b, i, 0)
<1>0. t \in TxIds /\ i \in 1..Len(Vtx[b]) + 1 /\ Len(Vtx[b]) \in Nat
  BY TxType, BlockLength
<1>1. k \in Nat /\ k # 0 /\ k - 1 \in Nat /\ o \in OutPoints /\ o[1] \in TxIds /\ o[2] \in Nat
  BY <1>0, InputIndex, InputType
<1>2. o = <<o[1], o[2]>>
  <2>1. PICK u \in TxIds : o \in {u} \X Vout[u]
    BY <1>1 DEF OutPoints
  <2> QED BY <2>1
<1>3. start \in Pure /\ was \in Pure
  BY <1>0, <1>1, StagePure
<1>4. Stage(b, i, k) = Spent(start, t, k)
  BY <1>1 DEF Stage
<1>5. was = Spent(start, t, k - 1)
  <2>1. CASE k - 1 = 0
    <3>1. \A u : InputsOf(t, k - 1, u) = {}
      BY <2>1 DEF InputsOf
    <3>2. \A u \in TxIds : Less(start[u], {}) = start[u]
      BY <1>3, LessOf DEF Pure
    <3>3. Spent(start, t, k - 1) = start
      BY <1>3, <3>1, <3>2 DEF Spent, Pure
    <3> QED BY <2>1, <3>3
  <2>2. CASE k - 1 # 0
    BY <2>2 DEF Stage
  <2> QED BY <2>1, <2>2
<1>6. ASSUME NEW u \in TxIds
      PROVE  InputsOf(t, k, u) = InputsOf(t, k - 1, u) \cup (IF u = o[1] THEN {o[2]} ELSE {})
  <2>1. ASSUME NEW n \in Nat
        PROVE  n \in InputsOf(t, k, u) <=> n \in InputsOf(t, k - 1, u) \/ <<u, n>> = o
    <3>1. 1..k = 1..(k - 1) \cup {k}
      BY <1>1
    <3> QED BY <3>1 DEF InputsOf
  <2>2. \A n : <<u, n>> = o <=> u = o[1] /\ n = o[2]
    BY <1>2
  <2> QED BY <1>1, <2>1, <2>2 DEF InputsOf
<1> HIDE DEF t, o, was, start
<1>7. ASSUME NEW u \in TxIds
      PROVE  Spent(start, t, k)[u] = IF u = o[1] THEN Less(was[u], {o[2]}) ELSE was[u]
  <2>1. start[u] \in PureCoins /\ Spent(start, t, k)[u] = Less(start[u], InputsOf(t, k, u))
        /\ was[u] = Less(start[u], InputsOf(t, k - 1, u))
    BY <1>3, <1>5 DEF Spent, Pure
  <2>2. CASE u = o[1]
    <3>1. InputsOf(t, k, u) = InputsOf(t, k - 1, u) \cup {o[2]}
      BY <1>6, <2>2
    <3> QED BY <2>1, <2>2, <3>1, LessTwice
  <2>3. CASE u # o[1]
    <3>1. InputsOf(t, k, u) = InputsOf(t, k - 1, u) \cup {}
      BY <1>6, <2>3
    <3>2. InputsOf(t, k, u) = InputsOf(t, k - 1, u)
      BY <3>1
    <3> QED BY <2>1, <2>3, <3>2
  <2> QED BY <2>2, <2>3
<1>8. Spent(start, t, k) = [u \in TxIds |-> Spent(start, t, k)[u]]
  BY DEF Spent
<1>9. Spent(start, t, k) = [was EXCEPT ![o[1]] = Less(@, {o[2]})]
  BY <1>1, <1>3, <1>7, <1>8 DEF Pure
<1> QED BY <1>4, <1>9 DEF t, o, was, Input

LEMMA StageAdds ==
  ASSUME NEW b \in Blocks, b # Genesis, NEW i \in DOMAIN Vtx[b]
  PROVE  LET t == Vtx[b][i]
         IN  Stage(b, i + 1, 0) =
             [Stage(b, i, Len(Vin[t])) EXCEPT ![t] = Value(FromTx(t, Height[b]))]
<1> DEFINE t == Vtx[b][i]
           start == Stage(b, i, 0)
<1>0. t \in TxIds /\ i \in 1..Len(Vtx[b]) /\ i \in 1..Len(Vtx[b]) + 1 /\ Len(Vtx[b]) \in Nat
      /\ Len(Vin[t]) \in Nat
  BY TxType, BlockLength, InputIndex
<1>1. start \in Pure
  BY <1>0, StagePure
<1>2. Stage(b, i + 1, 0) = ApplyTx(start, t, Height[b])
  <2>1. i + 1 - 1 = i
    BY <1>0
  <2>2. Done(b, i) = ApplyTx(Done(b, i - 1), t, Height[b])
    BY <1>0, AfterEach DEF Done
  <2> DEFINE last == i + 1 - 1
  <2>3. Stage(b, i + 1, 0) = Done(b, last) /\ start = Done(b, i - 1)
    BY <1>0 DEF Stage
  <2>4. last = i
    BY <1>0
  <2> HIDE DEF last
  <2> QED BY <2>2, <2>3, <2>4
<1>3. Stage(b, i, Len(Vin[t])) = Spent(start, t, Len(Vin[t]))
  <2>1. CASE Len(Vin[t]) = 0
    <3>1. \A u : InputsOf(t, 0, u) = {}
      BY DEF InputsOf
    <3>2. \A u \in TxIds : Less(start[u], {}) = start[u]
      BY <1>1, LessOf DEF Pure
    <3>3. Spent(start, t, 0) = start
      BY <1>1, <3>1, <3>2 DEF Spent, Pure
    <3> QED BY <2>1, <3>3
  <2>2. CASE Len(Vin[t]) # 0
    BY <2>2 DEF Stage
  <2> QED BY <2>1, <2>2
<1> QED BY <1>0, <1>1, <1>2, <1>3, ApplyParts
(***************************************************************************)
(* A block that can be connected: its transactions are new, each input is  *)
(* there when it is spent, and stays gone; the undo data tells when an     *)
(* input was the last of its transaction.                                  *)
(***************************************************************************)

Earlier(i1, k1, i, k) == i1 < i \/ (i1 = i /\ k1 <= k)

NotYet(b, i) == \A m \in DOMAIN Vtx[b] : m >= i => IsPruned(Stage(b, i, 0)[Vtx[b][m]])

Recorded(b, i, k, undo) ==
    LET o == Input(b, i, k)
        before == Stage(b, i, k - 1)[o[1]]
    IN  /\ o[2] \in before.outs
        /\ undo[o] = UndoHeight(before, Stage(b, i, k)[o[1]])

Connected(b, i, k, undo) ==
    /\ \A i1 \in DOMAIN Vtx[b] : i1 <= i => NotYet(b, i1)
    /\ \A i1 \in DOMAIN Vtx[b] : \A k1 \in DOMAIN Vin[Vtx[b][i1]] :
          Earlier(i1, k1, i, k) =>
             /\ Recorded(b, i1, k1, undo)
             /\ Input(b, i1, k1)[2] \notin Stage(b, i, k)[Input(b, i1, k1)[1]].outs

\* Undo data with which the whole block can be disconnected.
Fits(b, undo) ==
    /\ b # Genesis
    /\ \A i \in DOMAIN Vtx[b] :
          /\ NotYet(b, i)
          /\ \A k \in DOMAIN Vin[Vtx[b][i]] : Recorded(b, i, k, undo)

LEMMA InputParts ==
  ASSUME NEW b \in Blocks, NEW i \in DOMAIN Vtx[b], NEW k \in DOMAIN Vin[Vtx[b][i]]
  PROVE  /\ Vtx[b][i] \in TxIds /\ i \in 1..Len(Vtx[b]) /\ Len(Vtx[b]) \in Nat /\ i \in Nat
         /\ k \in Nat /\ k # 0 /\ k - 1 \in Nat /\ k \in 1..Len(Vin[Vtx[b][i]])
         /\ Len(Vin[Vtx[b][i]]) \in Nat
         /\ Input(b, i, k) \in OutPoints
         /\ Input(b, i, k)[1] \in TxIds /\ Input(b, i, k)[2] \in Nat
         /\ Input(b, i, k) = <<Input(b, i, k)[1], Input(b, i, k)[2]>>
<1> DEFINE t == Vtx[b][i]
           o == Input(b, i, k)
<1>1. t \in TxIds /\ i \in 1..Len(Vtx[b]) /\ Len(Vtx[b]) \in Nat
  BY TxType, BlockLength
<1>2. Len(Vin[t]) \in Nat /\ k \in 1..Len(Vin[t])
  BY <1>1, InputIndex
<1>3. o \in OutPoints /\ o[1] \in TxIds /\ o[2] \in Nat
  BY <1>1, InputType DEF Input
<1>4. o = <<o[1], o[2]>>
  <2>1. PICK u \in TxIds : o \in {u} \X Vout[u]
    BY <1>3 DEF OutPoints
  <2> QED BY <2>1
<1> HIDE DEF o
<1> QED BY <1>1, <1>2, <1>3, <1>4 DEF o

\* What is pruned before a transaction is pruned while its inputs are spent.
LEMMA StaysPruned ==
  ASSUME NEW b \in Blocks, b # Genesis, NEW i \in DOMAIN Vtx[b], NEW k \in Nat,
         NEW u \in TxIds, IsPruned(Stage(b, i, 0)[u])
  PROVE  IsPruned(Stage(b, i, k)[u])
<1>1. Stage(b, i, 0) \in Pure
  <2>1. i \in 1..Len(Vtx[b]) + 1 /\ 0 \in Nat
    BY TxType, BlockLength
  <2> QED BY <2>1, StagePure
<1>2. CASE k = 0
  BY <1>2
<1>3. CASE k # 0
  <2>1. Stage(b, i, k) = Spent(Stage(b, i, 0), Vtx[b][i], k)
    BY <1>3 DEF Stage
  <2>2. Stage(b, i, k)[u] = Less(Stage(b, i, 0)[u], InputsOf(Vtx[b][i], k, u))
    BY <2>1 DEF Spent
  <2>3. Stage(b, i, 0)[u] \in PureCoins
    BY <1>1 DEF Pure
  <2> QED BY <2>2, <2>3, LessOf DEF IsPruned
<1> QED BY <1>2, <1>3

LEMMA ConnectedFirst ==
  ASSUME NEW b \in Blocks, NEW undo,
         \A m \in DOMAIN Vtx[b] : IsPruned(UtxoOf[Parent[b]][Vtx[b][m]])
  PROVE  Connected(b, 1, 0, undo)
<1>1. \A i \in DOMAIN Vtx[b] : i \in Nat /\ i >= 1
  BY TxType, BlockLength
<1>2. \A i \in DOMAIN Vtx[b] : i <= 1 => i = 1
  BY <1>1
<1>3. NotYet(b, 1)
  BY StageFirst DEF NotYet
<1>4. ASSUME NEW i \in DOMAIN Vtx[b], NEW k \in DOMAIN Vin[Vtx[b][i]]
      PROVE  ~Earlier(i, k, 1, 0)
  <2>1. i \in Nat /\ i >= 1 /\ k \in Nat /\ k # 0
    BY <1>1, InputParts
  <2> QED BY <2>1 DEF Earlier
<1> QED BY <1>2, <1>3, <1>4 DEF Connected

LEMMA ConnectedSpends ==
  ASSUME NEW b \in Blocks, b # Genesis, NEW i \in DOMAIN Vtx[b],
         NEW k \in DOMAIN Vin[Vtx[b][i]], NEW undo \in BlockUndo,
         Connected(b, i, k - 1, undo),
         Input(b, i, k)[2] \in Stage(b, i, k - 1)[Input(b, i, k)[1]].outs
  PROVE  Connected(b, i, k,
            [undo EXCEPT ![Input(b, i, k)] =
                UndoHeight(Stage(b, i, k - 1)[Input(b, i, k)[1]],
                           Stage(b, i, k)[Input(b, i, k)[1]])])
<1> DEFINE o == Input(b, i, k)
           was == Stage(b, i, k - 1)
           now == Stage(b, i, k)
           new == [undo EXCEPT ![o] = UndoHeight(was[o[1]], now[o[1]])]
<1>1. o \in OutPoints /\ o[1] \in TxIds /\ o = <<o[1], o[2]>> /\ k \in Nat /\ k - 1 \in Nat
      /\ i \in Nat /\ i \in 1..Len(Vtx[b]) + 1
  BY InputParts
<1>2. was \in Pure
  BY <1>1, StagePure
<1>3. now = [was EXCEPT ![o[1]] = Less(@, {o[2]})]
  BY StageSpends
<1>4. o[2] \in was[o[1]].outs
  OBVIOUS
<1>5. new \in [OutPoints -> {new[p] : p \in OutPoints}]
      /\ new[o] = UndoHeight(was[o[1]], now[o[1]])
      /\ \A p \in OutPoints : p # o => new[p] = undo[p]
  BY <1>1 DEF BlockUndo
<1> HIDE DEF new, was, now, o
<1>6. ASSUME NEW u \in TxIds PROVE now[u].outs = IF u = o[1] THEN was[u].outs \ {o[2]} ELSE was[u].outs
  <2>1. was[u] \in PureCoins
    BY <1>2 DEF Pure
  <2>2. now[u] = IF u = o[1] THEN Less(was[u], {o[2]}) ELSE was[u]
    BY <1>2, <1>3 DEF Pure
  <2> QED BY <2>1, <2>2, LessOf
<1>7. ASSUME NEW i1 \in DOMAIN Vtx[b], NEW k1 \in DOMAIN Vin[Vtx[b][i1]], Earlier(i1, k1, i, k)
      PROVE  /\ Recorded(b, i1, k1, new)
             /\ Input(b, i1, k1)[2] \notin now[Input(b, i1, k1)[1]].outs
  <2> DEFINE p == Input(b, i1, k1)
  <2>0. p \in OutPoints /\ p[1] \in TxIds /\ p = <<p[1], p[2]>> /\ k1 \in Nat /\ i1 \in Nat
    BY InputParts
  <2>1. CASE Earlier(i1, k1, i, k - 1)
    <3>1. Recorded(b, i1, k1, undo) /\ p[2] \notin was[p[1]].outs
      BY <2>1 DEF Connected, was
    <3>2. p # o
      BY <1>4, <3>1
    <3>3. new[p] = undo[p]
      BY <1>5, <2>0, <3>2
    <3>4. Recorded(b, i1, k1, new)
      BY <3>1, <3>3 DEF Recorded
    <3> HIDE DEF p
    <3>5. p[2] \notin now[p[1]].outs
      BY <1>6, <2>0, <3>1
    <3> QED BY <3>4, <3>5 DEF p
  <2>2. CASE ~Earlier(i1, k1, i, k - 1)
    <3>1. i1 = i /\ k1 = k
      BY <1>1, <1>7, <2>0, <2>2 DEF Earlier
    <3>2. Recorded(b, i, k, new)
      BY <1>4, <1>5 DEF Recorded, o, was, now
    <3>3. o[2] \notin now[o[1]].outs
      BY <1>1, <1>6
    <3> QED BY <3>1, <3>2, <3>3 DEF o
  <2> QED BY <2>1, <2>2
<1>8. Connected(b, i, k, new)
  BY <1>7 DEF Connected, now
<1> QED BY <1>8 DEF new, was, now, o

LEMMA ConnectedAdds ==
  ASSUME NEW b \in Blocks, b # Genesis, NEW i \in DOMAIN Vtx[b], NEW undo,
         Connected(b, i, Len(Vin[Vtx[b][i]]), undo)
  PROVE  Connected(b, i + 1, 0, undo)
<1> DEFINE t == Vtx[b][i]
           was == Stage(b, i, Len(Vin[t]))
           now == Stage(b, i + 1, 0)
<1>1. /\ t \in TxIds /\ i \in Nat /\ i \in 1..Len(Vtx[b]) + 1 /\ Len(Vin[t]) \in Nat
      /\ Len(Vtx[b]) \in Nat /\ DOMAIN Vin[t] = 1..Len(Vin[t])
  BY TxType, BlockLength, InputIndex
<1>2. was \in Pure
  BY <1>1, StagePure
<1>3. now = [was EXCEPT ![t] = Value(FromTx(t, Height[b]))]
  BY StageAdds
<1>4. NotYet(b, i)
  BY <1>1 DEF Connected
<1>5. ASSUME NEW m \in DOMAIN Vtx[b], m >= i
      PROVE  Vtx[b][m] \in TxIds /\ IsPruned(was[Vtx[b][m]])
  <2>1. Vtx[b][m] \in TxIds /\ IsPruned(Stage(b, i, 0)[Vtx[b][m]])
    BY <1>4, <1>5, TxType DEF NotYet
  <2> QED BY <1>1, <2>1, StaysPruned
<1> HIDE DEF was, now
<1>6. \A u \in TxIds : u # t => now[u] = was[u]
  BY <1>2, <1>3 DEF Pure
<1>7. NotYet(b, i + 1)
  <2> SUFFICES ASSUME NEW m \in DOMAIN Vtx[b], m >= i + 1
               PROVE  IsPruned(Stage(b, i + 1, 0)[Vtx[b][m]])
    BY DEF NotYet
  <2>1. m \in Nat /\ m >= i /\ m # i
    BY <1>1, TxType, BlockLength
  <2>2. Vtx[b][m] # t
    BY <2>1, CheckedBlocks
  <2>3. now[Vtx[b][m]] = was[Vtx[b][m]]
    BY <1>5, <1>6, <2>1, <2>2
  <2> QED BY <1>5, <2>1, <2>3 DEF now
<1>8. ASSUME NEW i1 \in DOMAIN Vtx[b], NEW k1 \in DOMAIN Vin[Vtx[b][i1]],
             Earlier(i1, k1, i + 1, 0)
      PROVE  /\ Recorded(b, i1, k1, undo)
             /\ Input(b, i1, k1)[2] \notin now[Input(b, i1, k1)[1]].outs
  <2> DEFINE o == Input(b, i1, k1)
  <2>0. /\ o[1] \in TxIds /\ k1 \in Nat /\ k1 # 0 /\ k1 - 1 \in Nat /\ i1 \in Nat
        /\ k1 \in 1..Len(Vin[Vtx[b][i1]])
    BY InputParts
  <2>1. i1 <= i /\ Earlier(i1, k1, i, Len(Vin[t]))
    BY <1>1, <1>8, <2>0 DEF Earlier
  <2>2. Recorded(b, i1, k1, undo) /\ o[2] \notin was[o[1]].outs
    BY <2>1 DEF Connected, was
  <2>3. o[1] # t
    <3>1. o[2] \in Stage(b, i1, k1 - 1)[o[1]].outs
      BY <2>2 DEF Recorded
    <3>2. NotYet(b, i1)
      BY <2>1 DEF Connected
    <3>3. IsPruned(Stage(b, i1, 0)[t])
      BY <1>1, <2>0, <2>1, <3>2 DEF NotYet
    <3>4. IsPruned(Stage(b, i1, k1 - 1)[t])
      BY <1>1, <2>0, <3>3, StaysPruned
    <3> HIDE DEF o
    <3> QED BY <3>1, <3>4 DEF IsPruned
  <2> HIDE DEF o
  <2>4. now[o[1]] = was[o[1]]
    BY <1>6, <2>0, <2>3
  <2> QED BY <2>2, <2>4 DEF o
<1>9. ASSUME NEW i1 \in DOMAIN Vtx[b], i1 <= i + 1 PROVE NotYet(b, i1)
  <2>1. i1 \in Nat
    BY TxType, BlockLength
  <2>2. CASE i1 = i + 1
    BY <1>7, <2>2
  <2>3. CASE i1 <= i
    BY <2>3 DEF Connected
  <2> QED BY <1>1, <1>9, <2>1, <2>2, <2>3
<1> QED BY <1>8, <1>9 DEF Connected, now

LEMMA ConnectedAll ==
  ASSUME NEW b \in Blocks, b # Genesis, NEW undo, Connected(b, Len(Vtx[b]) + 1, 0, undo)
  PROVE  Fits(b, undo)
<1>1. \A i \in DOMAIN Vtx[b] : i <= Len(Vtx[b]) + 1 /\ i < Len(Vtx[b]) + 1
  BY TxType, BlockLength
<1> QED BY <1>1 DEF Connected, Fits, Earlier

(***************************************************************************)
(* The two ways back: taking a transaction's outputs away, and giving it   *)
(* back an input.                                                          *)
(***************************************************************************)

LEMMA PrunedValue ==
  ASSUME NEW c
  PROVE  /\ IsPruned(Value(c)) <=> IsPruned(c)
         /\ ~IsPruned(c) => Value(c) = c
         /\ IsPruned(c) => Value(c) = Clear
BY DEF Value, IsPruned, Clear

LEMMA PurePruned ==
  ASSUME NEW c \in PureCoins
  PROVE  IsPruned(c) => c = Clear
BY DEF PureCoins, Value

LEMMA TakeBack ==
  ASSUME NEW b \in Blocks, b # Genesis, NEW i \in DOMAIN Vtx[b], NotYet(b, i)
  PROVE  LET t == Vtx[b][i]
         IN  /\ Stage(b, i + 1, 0)[t] = Value(FromTx(t, Height[b]))
             /\ Stage(b, i, Len(Vin[t])) = [Stage(b, i + 1, 0) EXCEPT ![t] = Value(Clear)]
<1> DEFINE t == Vtx[b][i]
           was == Stage(b, i, Len(Vin[t]))
           now == Stage(b, i + 1, 0)
<1>1. t \in TxIds /\ i \in Nat /\ i \in 1..Len(Vtx[b]) + 1 /\ Len(Vin[t]) \in Nat
  BY TxType, BlockLength, InputIndex
<1>2. was \in Pure
  BY <1>1, StagePure
<1>3. now = [was EXCEPT ![t] = Value(FromTx(t, Height[b]))]
  BY StageAdds
<1>4. IsPruned(was[t])
  <2>1. IsPruned(Stage(b, i, 0)[t])
    BY <1>1 DEF NotYet
  <2> QED BY <1>1, <2>1, StaysPruned
<1>5. was[t] = Value(Clear)
  <2>1. was[t] \in PureCoins
    BY <1>1, <1>2 DEF Pure
  <2> HIDE DEF was
  <2> QED BY <1>4, <2>1, PurePruned DEF Value, IsPruned, Clear
<1> HIDE DEF was, now, t
<1>6. now[t] = Value(FromTx(t, Height[b])) /\ was = [now EXCEPT ![t] = Value(Clear)]
  BY <1>1, <1>2, <1>3, <1>5 DEF Pure
<1> QED BY <1>6 DEF was, now, t

\* ApplyTxInUndo: what the coins are taken for, and the coins with their output back.
Base(nHeight, coins) == IF nHeight # 0 THEN [height |-> nHeight, outs |-> {}] ELSE coins
With(base, n) == [base EXCEPT !.outs = @ \cup {n}]

\* It puts an output back where UpdateCoins took it from.
LEMMA GiveBack ==
  ASSUME NEW before \in PureCoins, NEW n \in before.outs,
         NEW coins \in Coins, Value(coins) = Less(before, {n})
  PROVE  LET nHeight == UndoHeight(before, Less(before, {n}))
             base == Base(nHeight, coins)
         IN  /\ nHeight # 0 <=> IsPruned(coins)
             /\ n \notin base.outs
             /\ With(base, n) \in Coins
             /\ Value(With(base, n)) = before
<1> DEFINE nHeight == UndoHeight(before, Less(before, {n}))
           base == Base(nHeight, coins)
<1>1. /\ before = [height |-> before.height, outs |-> before.outs]
      /\ before.height \in Nat /\ before.height # 0 /\ before.outs \subseteq Nat
      /\ before \in Coins /\ ~IsPruned(before) /\ Value(before) = before
  BY DEF PureCoins, Coins, IsPruned
<1> DEFINE left == Less(before, {n})
<1>2. left.outs = before.outs \ {n} /\ (~IsPruned(left) => left.height = before.height)
  BY LessOf
<1>3. Value(coins) = left /\ nHeight = UndoHeight(before, left)
  OBVIOUS
<1>4. base = Base(nHeight, coins)
  OBVIOUS
<1> HIDE DEF left, nHeight, base
<1>5. [base EXCEPT !.outs = @ \cup {n}] = before /\ (nHeight # 0 <=> IsPruned(coins))
      /\ n \notin base.outs
  <2>1. CASE IsPruned(coins)
    <3>1. IsPruned(left)
      BY <1>3, <2>1, PrunedValue
    <3>2. nHeight = before.height
      BY <1>3, <3>1 DEF UndoHeight
    <3>3. base = [height |-> before.height, outs |-> {}]
      BY <1>1, <1>4, <3>2 DEF Base
    <3>4. [base EXCEPT !.outs = @ \cup {n}] = [height |-> before.height, outs |-> {n}]
      BY <3>3
    <3>5. before.outs = {n}
      BY <1>2, <3>1 DEF IsPruned
    <3>6. before = [height |-> before.height, outs |-> {n}]
      BY <1>1, <3>5
    <3> QED BY <1>1, <2>1, <3>2, <3>3, <3>4, <3>6
  <2>2. CASE ~IsPruned(coins)
    <3>1. coins = left /\ ~IsPruned(left)
      BY <1>3, <2>2, PrunedValue
    <3>2. nHeight = 0
      BY <1>3, <3>1 DEF UndoHeight
    <3>3. base = coins
      BY <1>4, <3>2 DEF Base
    <3>4. base.height = before.height /\ base.outs = before.outs \ {n} /\ base \in Coins
      BY <1>2, <3>1, <3>3
    <3>5. [base EXCEPT !.outs = @ \cup {n}] =
          [height |-> before.height, outs |-> (before.outs \ {n}) \cup {n}]
      BY <3>4 DEF Coins
    <3>6. (before.outs \ {n}) \cup {n} = before.outs
      OBVIOUS
    <3>7. [base EXCEPT !.outs = @ \cup {n}] = [height |-> before.height, outs |-> before.outs]
      BY <3>5, <3>6
    <3> QED BY <1>1, <2>2, <3>2, <3>4, <3>7
  <2> QED BY <2>1, <2>2
<1> QED BY <1>1, <1>5 DEF With, nHeight, base

(***************************************************************************)
(* What the steps of ChainState do to the three whole copies of the coins. *)
(***************************************************************************)

SameCoins ==
    Layer(saved)' = Layer(saved) /\ Layer(TipCoins)' = Layer(TipCoins)
SetsDraft(t, coins) ==
    SameCoins /\ Layer(ViewCoins)' = [Layer(ViewCoins) EXCEPT ![t] = Value(coins)]

LEMMA LayerUnchanged ==
  ASSUME UNCHANGED <<saved, cache, view>>
  PROVE  SameCoins /\ Layer(ViewCoins)' = Layer(ViewCoins)
BY DEF SameCoins, Layer, TipCoins, ViewCoins

LEMMA LayerFetched ==
  ASSUME CoinTypes, FlagsTrue, NEW ids, Fetch(ids)
  PROVE  SameCoins /\ Layer(ViewCoins)' = Layer(ViewCoins)
<1>1. TipCoins' = TipCoins /\ ViewCoins' = ViewCoins /\ saved' = saved
  BY FetchStep
<1> QED BY <1>1 DEF SameCoins, Layer

LEMMA LayerRead ==
  ASSUME CoinTypes, FlagsTrue, NEW ids, cache' = FetchCoins(cache, saved, ids), UNCHANGED saved
  PROVE  SameCoins
<1>1. TipCoins' = TipCoins
  BY CacheFetch
<1> QED BY <1>1 DEF SameCoins, Layer

LEMMA LayerModified ==
  ASSUME CoinTypes, FlagsTrue, NEW t \in TxIds, NEW coins \in Coins, Modify(t, coins)
  PROVE  SetsDraft(t, coins)
<1>1. TipCoins' = TipCoins /\ saved' = saved
  BY CacheFetch DEF Modify
<1>2. \A u \in TxIds : Value(Read(Stacked(view', TipCoins), u)) =
             IF u = t THEN Value(coins) ELSE Value(Read(Stacked(view, TipCoins), u))
  BY TipType, ModifyCorrect DEF Modify, CoinTypes, FlagsTrue
<1>3. Layer(ViewCoins)' = [Layer(ViewCoins) EXCEPT ![t] = Value(coins)]
  BY <1>1, <1>2 DEF Layer, ViewCoins
<1> QED BY <1>1, <1>3 DEF SetsDraft, SameCoins, Layer

LEMMA LayerAdded ==
  ASSUME CoinTypes, FlagsTrue, NEW t \in TxIds, NEW coins \in Coins,
         IsPruned(Read(TipCoins, t)), view' = ModifyNewCoins(view, t, coins), UNCHANGED coinVars
  PROVE  SetsDraft(t, coins)
<1>1. TipCoins' = TipCoins /\ saved' = saved
  BY DEF TipCoins, coinVars
<1>2. \A u \in TxIds : Value(Read(Stacked(view', TipCoins), u)) =
             IF u = t THEN Value(coins) ELSE Value(Read(Stacked(view, TipCoins), u))
  BY TipType, ModifyNewCorrect DEF CoinTypes, FlagsTrue
<1>3. Layer(ViewCoins)' = [Layer(ViewCoins) EXCEPT ![t] = Value(coins)]
  BY <1>1, <1>2 DEF Layer, ViewCoins
<1> QED BY <1>1, <1>3 DEF SetsDraft, SameCoins, Layer

LEMMA LayerCommitted ==
  ASSUME CoinTypes, FlagsTrue, UNCHANGED saved, cache' = BatchWrite(cache, view)
  PROVE  Layer(saved)' = Layer(saved) /\ Layer(TipCoins)' = Layer(ViewCoins)
<1>1. \A u \in TxIds : Value(Read(Stacked(cache', saved), u)) =
                        Value(Read(Stacked(view, Stacked(cache, saved)), u))
  BY BatchWriteCorrect DEF CoinTypes, FlagsTrue, TipCoins
<1> QED BY <1>1 DEF Layer, TipCoins, ViewCoins

LEMMA LayerSaved ==
  ASSUME CoinTypes, FlagsTrue, saved' = WriteToDatabase(saved, cache), cache' = Empty
  PROVE  Layer(saved)' = Layer(TipCoins) /\ Layer(TipCoins)' = Layer(TipCoins)
<1>1. /\ IsMap(saved', Coins)
      /\ \A u \in TxIds : Value(Read(saved', u)) = Value(Read(Stacked(cache, saved), u))
  BY WriteCorrect DEF CoinTypes, FlagsTrue
<1>2. TipCoins' = saved'
  BY <1>1, EmptyCache DEF TipCoins
<1> QED BY <1>1, <1>2 DEF Layer, TipCoins

LEMMA LayerLost ==
  ASSUME CoinTypes, UNCHANGED saved, cache' = Empty
  PROVE  Layer(saved)' = Layer(saved) /\ Layer(TipCoins)' = Layer(saved)
<1>1. TipCoins' = saved
  BY EmptyCache DEF CoinTypes, TipCoins
<1> QED BY <1>1 DEF Layer

LEMMA LayerIdle ==
  ASSUME CoinTypes, view = Empty
  PROVE  Layer(ViewCoins) = Layer(TipCoins)
BY TipType, EmptyCache DEF ViewCoins

LEMMA LayerUncached ==
  ASSUME CoinTypes, FlagsTrue, NEW ids, NEW gone, UNCHANGED saved,
         cache' = Uncache(FetchCoins(cache, saved, ids), gone)
  PROVE  SameCoins
<1> DEFINE fetched == FetchCoins(cache, saved, ids)
<1>1. /\ IsMap(fetched, Entries) /\ FlagsOf(fetched, saved)
      /\ Stacked(fetched, saved) = Stacked(cache, saved)
  BY FetchType, FetchKeepsView, FetchKeepsFlags DEF CoinTypes, FlagsTrue
<1> HIDE DEF fetched
<1>2. cache' = Uncache(fetched, gone)
  BY DEF fetched
<1>3. \A u \in TxIds : Value(Read(Stacked(cache', saved), u)) =
                        Value(Read(Stacked(cache, saved), u))
  BY <1>1, <1>2, UncacheCorrect DEF CoinTypes
<1> QED BY <1>3 DEF SameCoins, Layer, TipCoins

(***************************************************************************)
(* The inductive invariant while no write has failed: the coins are those  *)
(* of the best block, or of the stage the block being worked on has        *)
(* reached, and undo data, once recorded, fits its block.                  *)
(***************************************************************************)

FitsAll(idx) == \A b \in Blocks : idx[b].hasUndo => Fits(b, idx[b].undo)

InputsSpent == IF work.j = 0 THEN 0 ELSE work.j - 1

ConnectInv ==
    /\ work.i \in 1..Len(Vtx[work.block]) + 1
    /\ work.j # 0 =>
          work.i \in DOMAIN Vtx[work.block] /\ work.j \in 1..Len(Vin[CurrentTx]) + 1
    /\ Layer(ViewCoins) = Stage(work.block, work.i, InputsSpent)
    /\ Connected(work.block, work.i, InputsSpent, blockundo)

DisconnectInv ==
    /\ work.i \in 0..Len(Vtx[work.block])
    /\ work.j # 0 => work.i \in DOMAIN Vtx[work.block] /\ work.j \in DOMAIN Vin[CurrentTx]
    /\ Layer(ViewCoins) = IF work.j = 0 THEN Stage(work.block, work.i + 1, 0)
                          ELSE Stage(work.block, work.i, work.j)

CoinsInv ==
    /\ Layer(TipCoins) = UtxoOf[cacheBest]
    /\ Layer(saved) = UtxoOf[savedBest]
    /\ work.clean
    /\ FitsAll(index) /\ FitsAll(indexDisk)
    /\ work.op = "connect" => ConnectInv
    /\ work.op = "disconnect" => DisconnectInv

SameUndo ==
    \A b \in Blocks :
        /\ index'[b].hasUndo = index[b].hasUndo /\ index'[b].undo = index[b].undo
        /\ indexDisk'[b].hasUndo = indexDisk[b].hasUndo /\ indexDisk'[b].undo = indexDisk[b].undo

LEMMA MarkKeepsUndo ==
  ASSUME OtherTypes, NEW bs \in SUBSET Blocks, MarkFailed(bs)
  PROVE  SameUndo
BY DEF OtherTypes, MarkFailed, IndexEntries, SameUndo

\* A step that leaves best blocks, coins and undo data alone.
LEMMA CoinsKept ==
  ASSUME CoinsInv, SameCoins, SameUndo, UNCHANGED <<cacheBest, savedBest>>, work'.clean,
         work'.op = "connect" => ConnectInv', work'.op = "disconnect" => DisconnectInv'
  PROVE  CoinsInv'
BY DEF CoinsInv, SameCoins, SameUndo, FitsAll

\* No block is worked on after the step.
LEMMA CoinsIdle ==
  ASSUME CoinsInv, SameCoins, SameUndo, UNCHANGED <<cacheBest, savedBest>>, work' = Idle
  PROVE  CoinsInv'
<1>1. work'.clean /\ work'.op = "idle"
  BY DEF Idle
<1> QED BY <1>1, CoinsKept

\* The block worked on, if any, stays where it is.
LEMMA CoinsQuiet ==
  ASSUME CoinsInv, SameCoins, SameUndo,
         UNCHANGED <<cacheBest, savedBest, work, blockundo>>,
         work.op \in {"connect", "disconnect"} => Layer(ViewCoins)' = Layer(ViewCoins)
  PROVE  CoinsInv'
<1>1. work.op = "connect" => ConnectInv'
  BY DEF CoinsInv, ConnectInv, InputsSpent, CurrentTx
<1>2. work.op = "disconnect" => DisconnectInv'
  BY DEF CoinsInv, DisconnectInv, CurrentTx
<1>3. work'.clean
  BY DEF CoinsInv
<1> QED BY <1>1, <1>2, <1>3, CoinsKept

LEMMA StartConnectCoins ==
  ASSUME IInv, BestInv, CoinsInv, NEW b \in Blocks, StartConnect(b)
  PROVE  CoinsInv'
<1>0. CoinTypes /\ FlagsTrue /\ OtherTypes /\ view = Empty /\ cacheBest = tip /\ Parent[b] = tip
      /\ b # Genesis
  BY DEF IInv, DraftInv, StartConnect, Free
<1>1. CASE \E i \in DOMAIN Vtx[b] : Overwrites(b, i)
  <2>1. cache' = FetchCoins(cache, saved, Bip30Reads(b)) /\ MarkFailed({b})
        /\ {b} \in SUBSET Blocks /\ work.op = "idle"
        /\ UNCHANGED <<saved, savedBest, cacheBest, work, blockundo>>
    BY <1>1 DEF StartConnect, Free, draftVars
  <2>2. SameCoins /\ SameUndo
    BY <1>0, <2>1, LayerRead, MarkKeepsUndo
  <2> QED BY <2>1, <2>2, CoinsQuiet
<1>2. CASE ~\E i \in DOMAIN Vtx[b] : Overwrites(b, i)
  <2>1. /\ Fetch(Bip30Reads(b))
        /\ work' = [op |-> "connect", block |-> b, i |-> 1, j |-> 0, clean |-> TRUE]
        /\ UNCHANGED <<blockundo, index, indexDisk>>
    BY <1>2 DEF StartConnect, indexVars
  <2>2. SameCoins /\ Layer(ViewCoins)' = Layer(ViewCoins) /\ SameUndo
        /\ UNCHANGED <<cacheBest, savedBest>>
    BY <1>0, <2>1, LayerFetched DEF SameUndo, Fetch
  <2>3. Layer(ViewCoins)' = UtxoOf[Parent[b]]
    BY <1>0, <2>2, LayerIdle DEF CoinsInv
  <2>4. \A m \in DOMAIN Vtx[b] : IsPruned(UtxoOf[Parent[b]][Vtx[b][m]])
    <3> SUFFICES ASSUME NEW m \in DOMAIN Vtx[b] PROVE IsPruned(UtxoOf[Parent[b]][Vtx[b][m]])
      OBVIOUS
    <3>1. Vtx[b][m] \in TxIds /\ IsPruned(Read(TipCoins, Vtx[b][m]))
      BY <1>2, TxType DEF Overwrites
    <3>2. Layer(TipCoins)[Vtx[b][m]] = Value(Read(TipCoins, Vtx[b][m]))
      BY <3>1 DEF Layer
    <3>3. Layer(TipCoins) = UtxoOf[Parent[b]]
      BY <1>0 DEF CoinsInv
    <3> QED BY <3>1, <3>2, <3>3, PrunedValue
  <2>5. Connected(b, 1, 0, blockundo)
    BY <2>4, ConnectedFirst
  <2>6. Len(Vtx[b]) \in Nat /\ Stage(b, 1, 0) = UtxoOf[Parent[b]]
    BY BlockLength, StageFirst
  <2>7. ConnectInv'
    BY <2>1, <2>3, <2>5, <2>6 DEF ConnectInv, InputsSpent
  <2> QED BY <2>1, <2>2, <2>7, CoinsKept
<1> QED BY <1>1, <1>2

LEMMA CheckInputsCoins ==
  ASSUME IInv, CoinsInv, CheckInputs
  PROVE  CoinsInv'
<1>0. CoinTypes /\ FlagsTrue /\ OtherTypes /\ work.op = "connect" /\ ConnectInv
      /\ work.block \in Blocks /\ work.i \in DOMAIN Vtx[work.block] /\ work.j = 0 /\ work \in Works
  BY DEF IInv, CheckInputs, Connecting, CoinsInv, OtherTypes, Works
<1>1. CASE HaveInputs(CurrentTx)
  <2>1. /\ Fetch(InputReads(CurrentTx)) /\ work' = [work EXCEPT !.j = 1]
        /\ UNCHANGED <<blockundo, index, indexDisk>>
    BY <1>1 DEF CheckInputs, indexVars
  <2>2. SameCoins /\ Layer(ViewCoins)' = Layer(ViewCoins) /\ SameUndo
        /\ UNCHANGED <<cacheBest, savedBest>>
    BY <1>0, <2>1, LayerFetched DEF SameUndo, Fetch
  <2>3. work'.op = "connect" /\ work'.block = work.block /\ work'.i = work.i /\ work'.j = 1
        /\ work'.clean = work.clean
    BY <1>0, <2>1 DEF Works
  <2>4. CurrentTx' = CurrentTx /\ Len(Vin[CurrentTx]) \in Nat
    BY <1>0, <2>3, TxType, InputIndex DEF CurrentTx
  <2>5. InputsSpent' = InputsSpent
    BY <1>0, <2>3 DEF InputsSpent
  <2>6. ConnectInv'
    BY <1>0, <2>1, <2>2, <2>3, <2>4, <2>5 DEF ConnectInv
  <2> QED BY <2>2, <2>3, <2>6, CoinsKept DEF CoinsInv
<1>2. CASE ~HaveInputs(CurrentTx)
  <2>1. /\ cache' = FetchCoins(cache, saved, InputReads(CurrentTx) \ DOMAIN view)
        /\ UNCHANGED <<saved, savedBest, cacheBest>>
        /\ work' = Idle /\ MarkFailed({work.block}) /\ {work.block} \in SUBSET Blocks
    BY <1>0, <1>2 DEF CheckInputs, DropView
  <2>2. SameCoins /\ SameUndo
    BY <1>0, <2>1, LayerRead, MarkKeepsUndo
  <2> QED BY <2>1, <2>2, CoinsIdle
<1> QED BY <1>1, <1>2

LEMMA SpendInputCoins ==
  ASSUME IInv, IndexInv, CoinsInv, SpendInput
  PROVE  CoinsInv'
<1> DEFINE b == work.block
           i == work.i
           k == work.j
           o == Input(b, i, k)
           coins == Read(ViewCoins, o[1])
           left == [coins EXCEPT !.outs = @ \ {o[2]}]
           before == Stage(b, i, k - 1)
<1>1. /\ CoinTypes /\ FlagsTrue /\ OtherTypes /\ work.op = "connect" /\ ConnectInv /\ work.clean
      /\ b \in Blocks /\ b # Genesis /\ i \in DOMAIN Vtx[b] /\ work \in Works
      /\ blockundo \in BlockUndo
  BY DEF IInv, SpendInput, Connecting, CoinsInv, IndexInv, WorkInv, OtherTypes, Works
<1>2. /\ k \in DOMAIN Vin[Vtx[b][i]] /\ Modify(o[1], left) /\ o[2] \in coins.outs
      /\ blockundo' = [blockundo EXCEPT ![o] = UndoHeight(coins, left)]
      /\ work' = [work EXCEPT !.j = @ + 1]
      /\ UNCHANGED <<index, indexDisk>>
  BY DEF SpendInput, CurrentTx, Input, indexVars
<1>3. /\ k \in Nat /\ k # 0 /\ k - 1 \in Nat /\ k \in 1..Len(Vin[Vtx[b][i]])
      /\ Len(Vin[Vtx[b][i]]) \in Nat /\ o[1] \in TxIds /\ o[2] \in Nat
      /\ i \in 1..Len(Vtx[b]) + 1
  BY <1>1, <1>2, InputParts
<1>4. coins \in Coins /\ left \in Coins /\ left = [height |-> coins.height, outs |-> coins.outs \ {o[2]}]
  <2>1. coins \in Coins
    BY <1>1, TipType, ReadType
  <2> HIDE DEF coins, o
  <2> QED BY <2>1 DEF Coins
<1>5. Layer(ViewCoins) = before /\ Connected(b, i, k - 1, blockundo)
  <2>1. InputsSpent = k - 1
    BY <1>3 DEF InputsSpent
  <2> QED BY <1>1, <2>1 DEF ConnectInv
<1>6. before[o[1]] = coins
  <2>1. Layer(ViewCoins)[o[1]] = Value(coins)
    BY <1>3 DEF Layer
  <2>2. ~IsPruned(coins)
    BY <1>2 DEF IsPruned
  <2> HIDE DEF coins, before, o
  <2> QED BY <1>5, <2>1, <2>2, PrunedValue
<1>7. /\ Stage(b, i, k) = [before EXCEPT ![o[1]] = Less(@, {o[2]})]
      /\ before \in Pure
  BY <1>1, <1>2, <1>3, StageSpends, StagePure
<1>8. /\ Less(before[o[1]], {o[2]}) = Value(left)
      /\ Stage(b, i, k)[o[1]] = Value(left)
  <2>1. Less(before[o[1]], {o[2]}) = Value(left)
    BY <1>6 DEF Less
  <2>2. DOMAIN before = TxIds
    BY <1>7 DEF Pure
  <2> HIDE DEF before, o, left
  <2> QED BY <1>3, <1>7, <2>1, <2>2
<1>9. UndoHeight(coins, left) = UndoHeight(before[o[1]], Stage(b, i, k)[o[1]])
  <2>1. IsPruned(Value(left)) <=> IsPruned(left)
    BY PrunedValue
  <2> HIDE DEF coins, left, before, o
  <2> QED BY <1>6, <1>8, <2>1 DEF UndoHeight
<1>10. SetsDraft(o[1], left)
  <2> HIDE DEF o, left
  <2> QED BY <1>1, <1>2, <1>3, <1>4, LayerModified
<1>11. Layer(ViewCoins)' = Stage(b, i, k)
  <2>1. Layer(ViewCoins)' = [before EXCEPT ![o[1]] = Value(left)]
    BY <1>5, <1>10 DEF SetsDraft
  <2> HIDE DEF before, o, left
  <2> QED BY <1>7, <1>8, <2>1
<1>12. Connected(b, i, k, blockundo')
  <2>1. o[2] \in before[o[1]].outs
    BY <1>2, <1>6
  <2>2. Connected(b, i, k, [blockundo EXCEPT ![o] =
                               UndoHeight(before[o[1]], Stage(b, i, k)[o[1]])])
    BY <1>1, <1>2, <1>5, <2>1, ConnectedSpends
  <2> QED BY <1>2, <1>9, <2>2
<1> HIDE DEF o, coins, left, before
<1>13. /\ work'.op = "connect" /\ work'.block = b /\ work'.i = i /\ work'.j = k + 1
       /\ work'.clean = work.clean
  BY <1>1, <1>2 DEF Works
<1>14. CurrentTx' = Vtx[b][i] /\ InputsSpent' = k /\ k + 1 # 0
       /\ k + 1 \in 1..Len(Vin[Vtx[b][i]]) + 1
  BY <1>3, <1>13 DEF CurrentTx, InputsSpent
<1>15. ConnectInv'
  BY <1>1, <1>3, <1>11, <1>12, <1>13, <1>14 DEF ConnectInv
<1>16. SameCoins /\ SameUndo /\ UNCHANGED <<cacheBest, savedBest>>
  BY <1>2, <1>10 DEF SetsDraft, SameUndo, Modify
<1> QED BY <1>1, <1>13, <1>15, <1>16, CoinsKept

LEMMA AddOutputsCoins ==
  ASSUME IInv, IndexInv, CoinsInv, AddOutputs
  PROVE  CoinsInv'
<1> DEFINE b == work.block
           i == work.i
           t == Vtx[b][i]
           coins == FromTx(t, Height[b])
           n == Len(Vin[t])
<1>1. /\ CoinTypes /\ FlagsTrue /\ OtherTypes /\ work.op = "connect" /\ ConnectInv /\ work.clean
      /\ b \in Blocks /\ b # Genesis /\ i \in DOMAIN Vtx[b] /\ work \in Works
      /\ IsPruned(Read(TipCoins, t))
  BY DEF IInv, DraftInv, AddOutputs, Connecting, CoinsInv, IndexInv, WorkInv, OtherTypes, Works
<1>2. /\ work' = [work EXCEPT !.i = @ + 1, !.j = 0]
      /\ UNCHANGED <<blockundo, index, indexDisk>>
      /\ IsCoinBase(t) => Modify(t, coins)
      /\ ~IsCoinBase(t) => /\ work.j = n + 1 /\ view' = ModifyNewCoins(view, t, coins)
                           /\ UNCHANGED coinVars
  BY DEF AddOutputs, CurrentTx, indexVars
<1>3. t \in TxIds /\ i \in Nat /\ i \in 1..Len(Vtx[b]) /\ Len(Vtx[b]) \in Nat /\ n \in Nat
  BY <1>1, TxType, BlockLength, InputIndex
<1>4. coins \in Coins
  BY <1>1, <1>3, NewCoinsPure
<1>5. SetsDraft(t, coins) /\ UNCHANGED <<cacheBest, savedBest>>
  <2> HIDE DEF t, coins
  <2>1. CASE IsCoinBase(t)
    BY <1>1, <1>2, <1>3, <1>4, <2>1, LayerModified DEF Modify
  <2>2. CASE ~IsCoinBase(t)
    BY <1>1, <1>2, <1>3, <1>4, <2>2, LayerAdded DEF coinVars
  <2> QED BY <2>1, <2>2
<1>6. InputsSpent = n
  <2>1. work.j = 0 \/ work.j \in 1..n + 1
    BY <1>1 DEF ConnectInv, CurrentTx
  <2>2. CASE IsCoinBase(t)
    <3>1. n = 0
      BY <2>2 DEF IsCoinBase
    <3> HIDE DEF n
    <3> QED BY <2>1, <3>1 DEF InputsSpent
  <2>3. CASE ~IsCoinBase(t)
    <3>1. work.j = n + 1
      BY <1>2, <2>3
    <3> HIDE DEF n
    <3> QED BY <1>3, <3>1 DEF InputsSpent
  <2> QED BY <2>2, <2>3
<1>7. Layer(ViewCoins) = Stage(b, i, n) /\ Connected(b, i, n, blockundo)
  BY <1>1, <1>6 DEF ConnectInv
<1>8. Stage(b, i + 1, 0) = [Stage(b, i, n) EXCEPT ![t] = Value(coins)]
      /\ Connected(b, i + 1, 0, blockundo)
  BY <1>1, <1>7, StageAdds, ConnectedAdds
<1> HIDE DEF t, coins, n
<1>9. Layer(ViewCoins)' = Stage(b, i + 1, 0)
  BY <1>5, <1>7, <1>8 DEF SetsDraft
<1>10. /\ work'.op = "connect" /\ work'.block = b /\ work'.i = i + 1 /\ work'.j = 0
       /\ work'.clean = work.clean
  BY <1>1, <1>2 DEF Works
<1>11. ConnectInv'
  <2>1. InputsSpent' = 0 /\ i + 1 \in 1..Len(Vtx[b]) + 1
    BY <1>3, <1>10 DEF InputsSpent
  <2> QED BY <1>2, <1>8, <1>9, <1>10, <2>1 DEF ConnectInv
<1>12. SameCoins /\ SameUndo
  BY <1>2, <1>5 DEF SetsDraft, SameUndo
<1> QED BY <1>1, <1>5, <1>10, <1>11, <1>12, CoinsKept

LEMMA FinishConnectCoins ==
  ASSUME IInv, IndexInv, CoinsInv, FinishConnect
  PROVE  CoinsInv'
<1> DEFINE b == work.block
<1>1. /\ CoinTypes /\ FlagsTrue /\ OtherTypes /\ ConnectInv /\ FitsAll(index) /\ FitsAll(indexDisk)
      /\ b \in Blocks /\ b # Genesis /\ work.i = Len(Vtx[b]) + 1 /\ Len(Vtx[b]) \in Nat
  BY BlockLength
  DEF IInv, FinishConnect, Connecting, CoinsInv, IndexInv, WorkInv, OtherTypes, Works
<1>2. /\ cache' = BatchWrite(cache, view) /\ cacheBest' = b
      /\ work' = [Idle EXCEPT !.op = "update", !.block = b]
      /\ UNCHANGED <<saved, savedBest>>
  BY DEF FinishConnect
<1>3. work.j = 0
  <2>1. work.i \notin DOMAIN Vtx[b]
    BY <1>1, BlockAssumption
  <2> QED BY <1>1, <2>1 DEF ConnectInv
<1>4. Layer(ViewCoins) = UtxoOf[b] /\ Fits(b, blockundo)
  <2>1. InputsSpent = 0
    BY <1>3 DEF InputsSpent
  <2>2. Layer(ViewCoins) = Stage(b, Len(Vtx[b]) + 1, 0)
        /\ Connected(b, Len(Vtx[b]) + 1, 0, blockundo)
    BY <1>1, <2>1 DEF ConnectInv
  <2> QED BY <1>1, <2>2, StageLast, ConnectedAll
<1>5. Layer(saved)' = Layer(saved) /\ Layer(TipCoins)' = Layer(ViewCoins)
  BY <1>1, <1>2, LayerCommitted
<1>6. FitsAll(index') /\ FitsAll(indexDisk')
  <2>1. CASE index[b].hasUndo
    BY <1>1, <2>1 DEF FinishConnect, indexVars
  <2>2. CASE ~index[b].hasUndo
    <3>1. index' = [index EXCEPT ![b].hasUndo = TRUE, ![b].undo = blockundo]
          /\ indexDisk' = indexDisk
      BY <2>2 DEF FinishConnect
    <3>2. ASSUME NEW a \in Blocks
          PROVE  /\ a # b => index'[a] = index[a]
                 /\ a = b => index'[a].undo = blockundo
      BY <1>1, <3>1 DEF OtherTypes, IndexEntries
    <3> HIDE DEF b
    <3> QED BY <1>1, <1>4, <3>1, <3>2 DEF FitsAll
  <2> QED BY <2>1, <2>2
<1>7. work'.op = "update" /\ work'.clean
  BY <1>2 DEF Idle
<1> QED BY <1>2, <1>4, <1>5, <1>6, <1>7 DEF CoinsInv

LEMMA StartDisconnectCoins ==
  ASSUME IInv, CoinsInv, StartDisconnect
  PROVE  CoinsInv'
<1>1. /\ CoinTypes /\ FlagsTrue /\ OtherTypes /\ view = Empty /\ cacheBest = tip
      /\ tip \in Blocks /\ index[tip].hasUndo /\ FitsAll(index)
  BY DEF IInv, DraftInv, StartDisconnect, Free, CoinsInv, OtherTypes
<1>2. /\ work' = [op |-> "disconnect", block |-> tip, i |-> Len(Vtx[tip]), j |-> 0,
                  clean |-> TRUE]
      /\ UNCHANGED <<saved, cache, view, cacheBest, savedBest>>
  BY DEF StartDisconnect, coinVars
<1>3. SameUndo
  <2>1. CASE invalidating = None
    BY <2>1 DEF StartDisconnect, indexVars, SameUndo
  <2>2. CASE invalidating # None
    <3>1. MarkFailed({tip}) /\ {tip} \in SUBSET Blocks
      BY <1>1, <2>2 DEF StartDisconnect
    <3> QED BY <1>1, <3>1, MarkKeepsUndo
  <2> QED BY <2>1, <2>2
<1>4. SameCoins /\ Layer(ViewCoins)' = UtxoOf[tip]
  BY <1>1, <1>2, LayerUnchanged, LayerIdle DEF CoinsInv
<1>5. Stage(tip, Len(Vtx[tip]) + 1, 0) = UtxoOf[tip] /\ Len(Vtx[tip]) \in Nat
  BY <1>1, StageLast, BlockLength DEF FitsAll, Fits
<1>6. DisconnectInv'
  BY <1>2, <1>4, <1>5 DEF DisconnectInv
<1> QED BY <1>2, <1>3, <1>4, <1>6, CoinsKept

LEMMA RemoveOutputsCoins ==
  ASSUME IInv, IndexInv, CoinsInv, RemoveOutputs
  PROVE  CoinsInv'
<1> DEFINE b == work.block
           i == work.i
           t == Vtx[b][i]
           n == Len(Vin[t])
           intact == Value(Read(ViewCoins, t)) = Value(FromTx(t, Height[b]))
<1>1. /\ CoinTypes /\ FlagsTrue /\ OtherTypes /\ DisconnectInv /\ work.clean
      /\ work.op = "disconnect" /\ b \in Blocks /\ i \in DOMAIN Vtx[b] /\ work \in Works
      /\ work.j = 0 /\ Fits(b, index[b].undo)
  BY DEF IInv, RemoveOutputs, Disconnecting, CoinsInv, FitsAll, IndexInv, WorkInv,
     OtherTypes, Works
<1>2. /\ Modify(t, Clear)
      /\ work' = IF IsCoinBase(t) THEN [work EXCEPT !.i = @ - 1, !.clean = @ /\ intact]
                 ELSE [work EXCEPT !.j = n, !.clean = @ /\ intact]
      /\ UNCHANGED <<index, indexDisk>>
  BY DEF RemoveOutputs, CurrentTx, indexVars
<1>3. /\ t \in TxIds /\ i \in Nat /\ i \in 1..Len(Vtx[b]) /\ Len(Vtx[b]) \in Nat
      /\ n \in Nat /\ DOMAIN Vin[t] = 1..n /\ Clear \in Coins
  BY <1>1, TxType, BlockLength, InputIndex DEF Clear, Coins
<1>4. /\ b # Genesis
      /\ Stage(b, i + 1, 0)[t] = Value(FromTx(t, Height[b]))
      /\ Stage(b, i, n) = [Stage(b, i + 1, 0) EXCEPT ![t] = Value(Clear)]
  BY <1>1, TakeBack DEF Fits
<1>5. Layer(ViewCoins) = Stage(b, i + 1, 0)
  BY <1>1 DEF DisconnectInv
<1>6. intact
  <2>1. Layer(ViewCoins)[t] = Value(Read(ViewCoins, t))
    BY <1>3 DEF Layer
  <2> HIDE DEF t
  <2> QED BY <1>4, <1>5, <2>1
<1>7. SetsDraft(t, Clear)
  BY <1>1, <1>2, <1>3, LayerModified
<1> HIDE DEF intact
<1>8. Layer(ViewCoins)' = Stage(b, i, n)
  BY <1>4, <1>5, <1>7 DEF SetsDraft
<1>9. work'.op = "disconnect" /\ work'.block = b /\ work'.clean
      /\ IF IsCoinBase(t) THEN work'.i = i - 1 /\ work'.j = 0
         ELSE work'.i = i /\ work'.j = n
  BY <1>1, <1>2, <1>6 DEF Works
<1>10. DisconnectInv'
  <2>1. CASE IsCoinBase(t)
    <3>1. n = 0
      BY <2>1 DEF IsCoinBase
    <3>2. work'.i + 1 = i /\ work'.i \in 0..Len(Vtx[b])
      BY <1>3, <1>9, <2>1
    <3>3. Stage(b, work'.i + 1, 0) = Stage(b, i, n)
      BY <3>1, <3>2
    <3> QED BY <1>8, <1>9, <2>1, <3>2, <3>3 DEF DisconnectInv
  <2>2. CASE ~IsCoinBase(t)
    <3>1. n # 0
      BY <1>3, <2>2, TransactionAssumption DEF IsCoinBase
    <3>2. CurrentTx' = t /\ n \in DOMAIN Vin[t] /\ i \in 0..Len(Vtx[b])
      BY <1>3, <1>9, <2>2, <3>1 DEF CurrentTx
    <3> HIDE DEF n, t
    <3> QED BY <1>1, <1>8, <1>9, <2>2, <3>1, <3>2 DEF DisconnectInv
  <2> QED BY <2>1, <2>2
<1>11. SameCoins /\ SameUndo /\ UNCHANGED <<cacheBest, savedBest>>
  BY <1>2, <1>7 DEF SetsDraft, SameUndo, Modify
<1> QED BY <1>9, <1>10, <1>11, CoinsKept

LEMMA RestoreInputCoins ==
  ASSUME IInv, IndexInv, CoinsInv, RestoreInput
  PROVE  CoinsInv'
<1> DEFINE b == work.block
           i == work.i
           k == work.j
           o == Input(b, i, k)
           nHeight == index[b].undo[o]
           coins == Read(ViewCoins, o[1])
           base == Base(nHeight, coins)
           clean == /\ nHeight # 0 <=> IsPruned(coins)
                    /\ o[2] \notin base.outs
           restored == With(base, o[2])
           before == Stage(b, i, k - 1)
           now == Stage(b, i, k)
<1>1. /\ CoinTypes /\ FlagsTrue /\ OtherTypes /\ DisconnectInv /\ work.clean
      /\ work.op = "disconnect" /\ b \in Blocks /\ i \in DOMAIN Vtx[b] /\ work \in Works
      /\ k \in DOMAIN Vin[Vtx[b][i]] /\ Fits(b, index[b].undo)
  BY DEF IInv, RestoreInput, Disconnecting, CoinsInv, FitsAll, IndexInv, WorkInv,
     OtherTypes, Works, CurrentTx
<1>2. /\ Modify(o[1], restored)
      /\ work' = IF k = 1 THEN [work EXCEPT !.i = @ - 1, !.j = 0, !.clean = @ /\ clean]
                 ELSE [work EXCEPT !.j = @ - 1, !.clean = @ /\ clean]
      /\ UNCHANGED <<index, indexDisk>>
  BY DEF RestoreInput, CurrentTx, Input, indexVars, Base, With
<1>3. /\ k \in Nat /\ k # 0 /\ k - 1 \in Nat /\ k \in 1..Len(Vin[Vtx[b][i]])
      /\ Len(Vin[Vtx[b][i]]) \in Nat /\ DOMAIN Vin[Vtx[b][i]] = 1..Len(Vin[Vtx[b][i]])
      /\ o[1] \in TxIds /\ o[2] \in Nat /\ i \in Nat /\ Len(Vtx[b]) \in Nat
      /\ i \in 1..Len(Vtx[b]) /\ i \in 1..Len(Vtx[b]) + 1
  <2>1. Vtx[b][i] \in TxIds /\ i \in 1..Len(Vtx[b]) /\ Len(Vtx[b]) \in Nat
        /\ o[1] \in TxIds /\ o[2] \in Nat
    BY <1>1, InputParts
  <2>2. Len(Vin[Vtx[b][i]]) \in Nat /\ DOMAIN Vin[Vtx[b][i]] = 1..Len(Vin[Vtx[b][i]])
    BY <2>1, InputIndex
  <2> HIDE DEF o
  <2> QED BY <1>1, <2>1, <2>2
<1>4. /\ b # Genesis /\ o[2] \in before[o[1]].outs
      /\ nHeight = UndoHeight(before[o[1]], now[o[1]])
  BY <1>1 DEF Fits, Recorded
<1>5. before \in Pure /\ now = [before EXCEPT ![o[1]] = Less(@, {o[2]})]
  <2>1. before \in Pure
    BY <1>1, <1>3, <1>4, StagePure
  <2>2. now = [before EXCEPT ![o[1]] = Less(@, {o[2]})]
    BY <1>1, <1>4, StageSpends
  <2> QED BY <2>1, <2>2
<1>6. before[o[1]] \in PureCoins /\ now[o[1]] = Less(before[o[1]], {o[2]})
      /\ before = [now EXCEPT ![o[1]] = before[o[1]]]
  <2> HIDE DEF before, now, o
  <2> QED BY <1>3, <1>5 DEF Pure
<1>7. Layer(ViewCoins) = now
  BY <1>1, <1>3 DEF DisconnectInv
<1>8. coins \in Coins /\ Value(coins) = now[o[1]]
  <2>1. coins \in Coins
    BY <1>1, TipType, ReadType
  <2>2. Layer(ViewCoins)[o[1]] = Value(coins)
    BY <1>3 DEF Layer
  <2> HIDE DEF coins, now, o
  <2> QED BY <1>7, <2>1, <2>2
<1> HIDE DEF o, coins, before, now
<1>9. clean /\ restored \in Coins /\ Value(restored) = before[o[1]]
  <2>1. Value(coins) = Less(before[o[1]], {o[2]})
        /\ nHeight = UndoHeight(before[o[1]], Less(before[o[1]], {o[2]}))
    BY <1>4, <1>6, <1>8
  <2> DEFINE prev == before[o[1]]
             n == o[2]
  <2>3. /\ prev \in PureCoins /\ n \in prev.outs /\ coins \in Coins
        /\ Value(coins) = Less(prev, {n})
    BY <1>4, <1>6, <1>8, <2>1
  <2>2. nHeight = UndoHeight(prev, Less(prev, {n})) /\ base = Base(nHeight, coins)
    BY <2>1
  <2> HIDE DEF base, nHeight, prev, n
  <2>4. /\ nHeight # 0 <=> IsPruned(coins)
        /\ n \notin base.outs
        /\ With(base, n) \in Coins /\ Value(With(base, n)) = prev
    BY <2>2, <2>3, GiveBack
  <2> QED BY <2>4 DEF prev, n
<1> HIDE DEF clean, restored
<1>10. SetsDraft(o[1], restored)
  BY <1>1, <1>2, <1>3, <1>9, LayerModified
<1>11. Layer(ViewCoins)' = before
  BY <1>6, <1>7, <1>9, <1>10 DEF SetsDraft
<1>12. work'.op = "disconnect" /\ work'.block = b /\ work'.clean
       /\ IF k = 1 THEN work'.i = i - 1 /\ work'.j = 0 ELSE work'.i = i /\ work'.j = k - 1
  BY <1>1, <1>2, <1>9 DEF Works
<1>13. DisconnectInv'
  <2>1. CASE k = 1
    <3>1. work'.i + 1 = i /\ work'.i \in 0..Len(Vtx[b]) /\ k - 1 = 0
      BY <1>3, <1>12, <2>1
    <3>2. Stage(b, work'.i + 1, 0) = before
      BY <3>1 DEF before
    <3> QED BY <1>11, <1>12, <2>1, <3>1, <3>2 DEF DisconnectInv
  <2>2. CASE k # 1
    <3>1. CurrentTx' = Vtx[b][i] /\ k - 1 # 0 /\ k - 1 \in DOMAIN Vin[Vtx[b][i]]
          /\ i \in 0..Len(Vtx[b])
      BY <1>3, <1>12, <2>2 DEF CurrentTx
    <3> QED BY <1>1, <1>11, <1>12, <2>2, <3>1 DEF DisconnectInv, before
  <2> QED BY <2>1, <2>2
<1>14. SameCoins /\ SameUndo /\ UNCHANGED <<cacheBest, savedBest>>
  BY <1>2, <1>10 DEF SetsDraft, SameUndo, Modify
<1> QED BY <1>12, <1>13, <1>14, CoinsKept

LEMMA FinishDisconnectCoins ==
  ASSUME IInv, IndexInv, CoinsInv, FinishDisconnect
  PROVE  CoinsInv'
<1> DEFINE b == work.block
<1>1. /\ CoinTypes /\ FlagsTrue /\ OtherTypes /\ DisconnectInv /\ work.clean /\ b \in Blocks
      /\ work.i = 0 /\ FitsAll(index) /\ FitsAll(indexDisk)
  BY DEF IInv, FinishDisconnect, CoinsInv, OtherTypes, Works
<1>2. /\ cache' = BatchWrite(cache, view) /\ cacheBest' = Parent[b]
      /\ work' = [Idle EXCEPT !.op = "update", !.block = Parent[b]]
      /\ UNCHANGED <<saved, savedBest, index, indexDisk>>
  BY <1>1 DEF FinishDisconnect, BestAfterDisconnect, indexVars
<1>3. Layer(ViewCoins) = UtxoOf[Parent[b]]
  <2>1. work.j = 0
    <3>1. 0 \notin DOMAIN Vtx[b]
      BY <1>1, BlockAssumption
    <3> QED BY <1>1, <3>1 DEF DisconnectInv
  <2>2. Layer(ViewCoins) = Stage(b, work.i + 1, 0)
    BY <1>1, <2>1 DEF DisconnectInv
  <2>3. work.i + 1 = 1
    BY <1>1
  <2>4. Layer(ViewCoins) = Stage(b, 1, 0)
    BY <2>2, <2>3
  <2> QED BY <1>1, <2>4, StageFirst
<1>4. Layer(saved)' = Layer(saved) /\ Layer(TipCoins)' = Layer(ViewCoins)
  BY <1>1, <1>2, LayerCommitted
<1>5. work'.op = "update" /\ work'.clean
  BY <1>2 DEF Idle
<1> QED BY <1>1, <1>2, <1>3, <1>4, <1>5 DEF CoinsInv

LEMMA CoinsStep ==
  ASSUME IInv, BestInv, IndexInv, CoinsInv, [Next]_vars, failures' = 0
  PROVE  CoinsInv'
<1>0. CoinTypes /\ FlagsTrue /\ OtherTypes /\ work.clean /\ work.block \in Blocks
      /\ (work.op \in {"idle", "update"} => view = Empty)
      /\ (flushing => work.op \in {"idle", "update"})
  BY DEF IInv, DraftInv, CoinsInv, OtherTypes, Works
<1> DEFINE Quiet == UNCHANGED <<coinVars, draftVars, index, indexDisk>>
<1>1. ASSUME Quiet PROVE CoinsInv'
  <2>1. SameCoins /\ Layer(ViewCoins)' = Layer(ViewCoins) /\ SameUndo
    BY <1>1, LayerUnchanged DEF coinVars, draftVars, SameUndo
  <2> QED BY <1>1, <2>1, CoinsQuiet DEF coinVars, draftVars
<1>2. ASSUME UNCHANGED <<coinVars, draftVars>>, NEW bs \in SUBSET Blocks, MarkFailed(bs)
      PROVE  CoinsInv'
  <2>1. SameCoins /\ Layer(ViewCoins)' = Layer(ViewCoins) /\ SameUndo
    BY <1>0, <1>2, LayerUnchanged, MarkKeepsUndo DEF coinVars, draftVars
  <2> QED BY <1>2, <2>1, CoinsQuiet DEF coinVars, draftVars
<1>3. CASE UNCHANGED vars
  BY <1>1, <1>3 DEF vars, indexVars
<1>4. ASSUME NEW b \in Blocks, StartConnect(b) PROVE CoinsInv'
  BY <1>4, StartConnectCoins
<1>5. ASSUME NEW b \in Blocks, ReconsiderBlock(b) PROVE CoinsInv'
  <2>1. SameUndo /\ UNCHANGED <<coinVars, draftVars>>
    BY <1>0, <1>5 DEF ReconsiderBlock, OtherTypes, IndexEntries, SameUndo
  <2>2. SameCoins /\ Layer(ViewCoins)' = Layer(ViewCoins)
    BY <2>1, LayerUnchanged DEF coinVars, draftVars
  <2> QED BY <2>1, <2>2, CoinsQuiet DEF coinVars, draftVars
<1>6. ASSUME NEW b \in Disputed, StartInvalidate(b) PROVE CoinsInv'
  <2>1. UNCHANGED <<coinVars, draftVars>> /\ MarkFailed({b}) /\ {b} \in SUBSET Blocks
    BY <1>6, BlockAssumption DEF StartInvalidate
  <2> QED BY <1>2, <2>1
<1>7. CASE CheckInputs \/ SpendInput \/ AddOutputs \/ FinishConnect
  BY <1>7, CheckInputsCoins, SpendInputCoins, AddOutputsCoins, FinishConnectCoins
<1>8. CASE FailConnect
  <2>1. UNCHANGED <<saved, cache, cacheBest, savedBest>> /\ work' = Idle
        /\ MarkFailed({work.block}) /\ {work.block} \in SUBSET Blocks
    BY <1>0, <1>8 DEF FailConnect, coinVars, DropView
  <2>2. SameCoins /\ SameUndo
    BY <1>0, <2>1, MarkKeepsUndo DEF SameCoins, Layer, TipCoins
  <2> QED BY <2>1, <2>2, CoinsIdle
<1>9. CASE UpdateTip
  <2>1. UNCHANGED <<saved, cache, cacheBest, savedBest, index, indexDisk>> /\ work' = Idle
    BY <1>9 DEF UpdateTip, coinVars, indexVars
  <2>2. SameCoins /\ SameUndo
    BY <2>1 DEF SameCoins, Layer, TipCoins, SameUndo
  <2> QED BY <2>1, <2>2, CoinsIdle
<1>10. CASE StartDisconnect \/ RemoveOutputs \/ RestoreInput \/ FinishDisconnect
  BY <1>10, StartDisconnectCoins, RemoveOutputsCoins, RestoreInputCoins, FinishDisconnectCoins
<1>11. CASE EndInvalidate
  <2>1. UNCHANGED <<coinVars, draftVars>>
    BY <1>11 DEF EndInvalidate
  <2>2. CASE invalidating \in ChainOf[tip]
    <3>1. MarkFailed({tip}) /\ {tip} \in SUBSET Blocks
      BY <1>0, <1>11, <2>2 DEF EndInvalidate, OtherTypes
    <3> QED BY <1>2, <2>1, <3>1
  <2>3. CASE invalidating \notin ChainOf[tip]
    BY <1>1, <1>11, <2>1, <2>3 DEF EndInvalidate, indexVars
  <2> QED BY <2>2, <2>3
<1>12. ASSUME NEW t \in TxIds, NEW n, NEW accepted \in BOOLEAN,
              AcceptToMemoryPool(t, n, accepted)
       PROVE  CoinsInv'
  <2> DEFINE ids == {t} \cup {Vin[t][k][1] : k \in 1..n}
             gone == ids \ DOMAIN cache
  <2>1. /\ UNCHANGED <<saved, cacheBest, savedBest, work, blockundo, index, indexDisk>>
        /\ work.op \notin {"connect", "disconnect"}
        /\ cache' = IF accepted THEN FetchCoins(cache, saved, ids)
                    ELSE Uncache(FetchCoins(cache, saved, ids), gone)
    BY <1>12 DEF AcceptToMemoryPool, Free, draftVars, indexVars
  <2> HIDE DEF ids, gone
  <2>2. SameCoins
    BY <1>0, <2>1, LayerRead, LayerUncached
  <2>3. SameUndo
    BY <2>1 DEF SameUndo
  <2> QED BY <2>1, <2>2, <2>3, CoinsQuiet
<1>13. ASSUME NEW full \in BOOLEAN, WriteIndex(full) PROVE CoinsInv'
  <2>1. /\ UNCHANGED <<coinVars, draftVars, index>>
        /\ indexDisk' = [b \in Blocks |-> IF b \in setDirtyBlockIndex THEN index[b]
                                          ELSE indexDisk[b]]
    BY <1>13 DEF WriteIndex
  <2>2. FitsAll(indexDisk')
    BY <2>1 DEF CoinsInv, FitsAll
  <2>3. SameCoins /\ Layer(ViewCoins)' = Layer(ViewCoins)
    BY <2>1, LayerUnchanged DEF coinVars, draftVars
  <2>4. UNCHANGED <<cacheBest, savedBest, work, blockundo>>
    BY <2>1 DEF coinVars, draftVars
  <2>5. work.op = "connect" => ConnectInv'
    BY <2>3, <2>4 DEF CoinsInv, ConnectInv, InputsSpent, CurrentTx
  <2>6. work.op = "disconnect" => DisconnectInv'
    BY <2>3, <2>4 DEF CoinsInv, DisconnectInv, CurrentTx
  <2> QED BY <2>1, <2>2, <2>3, <2>4, <2>5, <2>6 DEF CoinsInv, SameCoins
<1>14. ASSUME NEW full \in BOOLEAN, FailWriteIndex(full) \/ NoDiskSpace(full) PROVE CoinsInv'
  <2>1. FALSE
    BY <1>0, <1>14 DEF FailWriteIndex, NoDiskSpace, Abort, OtherTypes
  <2> QED BY <2>1
<1>15. CASE FlushCoins
  <2>1. /\ saved' = WriteToDatabase(saved, cache) /\ cache' = Empty
        /\ savedBest' = cacheBest /\ UNCHANGED <<cacheBest, work, index, indexDisk>>
        /\ work.op \notin {"connect", "disconnect"}
    BY <1>0, <1>15 DEF FlushCoins, draftVars, indexVars
  <2>2. Layer(saved)' = Layer(TipCoins) /\ Layer(TipCoins)' = Layer(TipCoins)
    BY <1>0, <2>1, LayerSaved
  <2> QED BY <2>1, <2>2 DEF CoinsInv
<1>16. CASE FailFlushCoins
  <2>1. FALSE
    BY <1>0, <1>16 DEF FailFlushCoins, Abort, OtherTypes
  <2> QED BY <2>1
<1>17. CASE Stop
  BY <1>1, <1>17 DEF Stop, indexVars
<1>18. CASE Restart
  <2>1. /\ UNCHANGED <<saved, savedBest, indexDisk>> /\ cache' = Empty
        /\ cacheBest' = savedBest /\ index' = indexDisk /\ work' = Idle
    BY <1>18 DEF Restart, DropView
  <2>2. Layer(saved)' = Layer(saved) /\ Layer(TipCoins)' = Layer(saved)
    BY <1>0, <2>1, LayerLost
  <2>3. work'.clean /\ work'.op = "idle"
    BY <2>1 DEF Idle
  <2> QED BY <2>1, <2>2, <2>3 DEF CoinsInv
<1> QED
  BY <1>3, <1>4, <1>5, <1>6, <1>7, <1>8, <1>9, <1>10, <1>11, <1>12, <1>13, <1>14,
     <1>15, <1>16, <1>17, <1>18 DEF Next

LEMMA InitCoins == Init => CoinsInv
<1> SUFFICES ASSUME Init PROVE CoinsInv
  OBVIOUS
<1>1. saved = Empty /\ IsMap(saved, Coins) /\ DOMAIN saved = {}
  BY DEF Init, Empty, IsMap
<1>2. TipCoins = saved
  BY <1>1, EmptyCache DEF Init, TipCoins
<1>3. Layer(saved) = NoCoins
  BY <1>1 DEF Layer, Read, Value, IsPruned, Clear, NoCoins
<1>4. UtxoOf[Genesis] = NoCoins
  BY UtxoOfEach, BlockAssumption DEF BlockCoins
<1>5. FitsAll(index) /\ FitsAll(indexDisk)
  BY DEF Init, FitsAll
<1>6. work.clean /\ work.op = "idle" /\ cacheBest = Genesis /\ savedBest = Genesis
  BY DEF Init, Idle
<1> QED BY <1>2, <1>3, <1>4, <1>5, <1>6 DEF CoinsInv

LEMMA CoinsInductive == Spec => [](failures = 0 => IndexInv /\ CoinsInv)
<1> DEFINE Both == failures = 0 => IndexInv /\ CoinsInv
<1>1. Init => BestInv /\ Both
  BY InitCoins, IdleType, BlockAssumption DEF Init, BestInv, IndexInv, WorkInv, Closed, Covered
<1>2. ASSUME IInv, BestInv, Both, [Next]_vars
      PROVE  Both'
  <2>1. failures' = 0 => failures = 0
    BY <1>2, FailuresStay
  <2> QED BY <1>2, <2>1, IndexStep, CoinsStep
<1>3. IInv /\ BestInv /\ Both /\ [Next]_vars => Both'
  BY <1>2
<1> HIDE DEF Both
<1>4. Spec => []Both
  BY <1>1, <1>3, BestStep, Inductive, PTL DEF Spec
<1> QED BY <1>4 DEF Both

\* Whatever was connected, disconnected, flushed and lost on the way, the
\* coins of pcoinsTip and of the database are those of the chain that ends in
\* the best block beside them.
THEOREM CoinsOfBestBlockHolds == Spec => []CoinsOfBestBlock
<1>1. (failures = 0 => IndexInv /\ CoinsInv) => CoinsOfBestBlock
  BY DEF CoinsInv, CoinsOfBestBlock
<1> QED BY <1>1, CoinsInductive, PTL

\* DisconnectBlock never finds that undo data does not fit the coins.
THEOREM UndoIsCleanHolds == Spec => []UndoIsClean
<1>1. (failures = 0 => IndexInv /\ CoinsInv) => UndoIsClean
  BY DEF CoinsInv, UndoIsClean
<1> QED BY <1>1, CoinsInductive, PTL

-----------------------------------------------------------------------------
(***************************************************************************)
(* The check queue, to which ConnectBlock gives the scripts of a block:    *)
(* for every set of workers, every set of checks and every batch size.     *)
(* The argument: every critical section starts with a clean-up that leaves *)
(* the counters, fAllOk and the set of threads in Loop in step with one    *)
(* another (Cleaned), and from there each of its three ends (Leave, Sleep, *)
(* Take) re-establishes QueueInv.                                          *)
(***************************************************************************)

\* The fields in their basic types, without the bounds on the counters.
QueueShape ==
  /\ queue \in SUBSET Checks
  /\ nIdle \in Int /\ nTotal \in Int /\ nTodo \in Int
  /\ fAllOk \in BOOLEAN
  /\ pc \in [Threads -> Place]
  /\ batch \in [Threads -> SUBSET Checks]
  /\ fOk \in [Threads -> BOOLEAN]
  /\ open \in BOOLEAN
  /\ added \in SUBSET Checks
  /\ bad \in SUBSET Checks
  /\ verdict \in BOOLEAN

QueueSound == QueueShape /\ Counted /\ Owned /\ Controlled /\ Known

\* Any set of checks, or of threads, is finite.
LEMMA FiniteChecks ==
  /\ \A S \in SUBSET Checks : IsFiniteSet(S) /\ Cardinality(S) \in Nat
                              /\ Cardinality(S) <= Cardinality(Checks)
  /\ \A S \in SUBSET Threads : IsFiniteSet(S) /\ Cardinality(S) \in Nat
                               /\ Cardinality(S) <= Cardinality(Threads)
  /\ Cardinality(Checks) \in Nat /\ Cardinality(Threads) \in Nat
<1>1. IsFiniteSet(Threads)
  BY CheckQueueAssumption, FS_AddElement DEF Threads
<1> QED BY <1>1, CheckQueueAssumption, FS_Subset, FS_CardinalityType

\* The counters never leave their ranges: they count subsets.
LEMMA QueueSoundIsInv == QueueSound => QueueInv
<1> SUFFICES ASSUME QueueSound PROVE QueueTypeOK
  BY DEF QueueSound, QueueInv
<1>1. Inside \in SUBSET Threads /\ Parked \in SUBSET Threads
  BY DEF Inside, Parked
<1>2. Outstanding \in SUBSET Checks
  BY DEF Outstanding, QueueSound, QueueShape
<1> QED BY <1>1, <1>2, FiniteChecks DEF QueueSound, QueueShape, Counted, QueueTypeOK

\* A batch is never empty and never larger than the queue.
LEMMA BatchSizeBounds ==
  ASSUME NEW size \in Nat \ {0}, NEW total \in Nat, NEW idle \in Nat
  PROVE  BatchSize(size, total, idle) \in Nat \ {0}
<1> DEFINE q == size \div (total + idle + 1)
<1>1. q \in Int
  OBVIOUS
<1> HIDE DEF q
<1> QED BY <1>1, CheckQueueAssumption DEF BatchSize, q, Max2, Min2

-----------------------------------------------------------------------------
\* What the clean-up at the start of a critical section of thread t leaves:
\* t no longer owns a batch, is not idle, and is counted in total.
Cleaned(t, where, total, idle, todo, allOk) ==
  /\ where \in [Threads -> Place] /\ total \in Int /\ idle \in Int
  /\ todo \in Int /\ allOk \in BOOLEAN
  /\ \A u \in Threads \ {t} :
       \/ where[u] = pc[u]
       \/ pc[u] = "wait" /\ where[u] = "notified"
  /\ pc[t] \in {"enter", "wait", "notified", "run"}
  /\ total = Cardinality(Inside \cup {t})
  /\ idle = Cardinality(Parked \ {t})
  /\ todo = Cardinality(Outstanding \ batch[t])
  /\ allOk => fAllOk /\ (added \ (Outstanding \ batch[t])) \cap bad = {}
  /\ ~allOk => added \cap bad # {}
  /\ ~open => allOk

LEMMA LeaveInv ==
  ASSUME QueueSound, NEW t \in Threads, NEW where, NEW total, NEW idle, NEW todo,
         NEW allOk, Cleaned(t, where, total, idle, todo, allOk),
         Leave(t, where, total, idle, todo, allOk)
  PROVE  QueueSound' /\ verdict' = (added \cap bad = {})
<1> USE DEF Cleaned, Leave, MayLeave, QueueSound
<1>1. Outstanding \ batch[t] = {}
  BY FiniteChecks, FS_EmptySet DEF Outstanding, QueueShape
<1>2. \A u \in Threads : batch'[u] = {}
  BY <1>1 DEF Owned, Outstanding, QueueShape
<1>3. QueueShape'
  <2>1. fAllOk' \in BOOLEAN /\ verdict' \in BOOLEAN /\ open' \in BOOLEAN
    BY Zenon
  <2>2. pc' \in [Threads -> Place]
    BY DEF Place, QueueShape
  <2>3. batch' \in [Threads -> SUBSET Checks]
    BY DEF QueueShape
  <2> QED BY <2>1, <2>2, <2>3 DEF QueueShape
<1>4. Counted'
  <2>1. Inside' = (Inside \cup {t}) \ {t} /\ Parked' = Parked \ {t}
    BY DEF Inside, Parked, QueueShape, Place
  <2>a. IsFiniteSet(Inside \cup {t}) /\ t \in Inside \cup {t}
    BY FiniteChecks DEF Inside
  <2>2. Cardinality(Inside') = total - 1
    BY <2>1, <2>a, FS_RemoveElement
  <2>3. Outstanding' = {}
    BY <1>2 DEF Outstanding
  <2> QED BY <2>1, <2>2, <2>3, FS_EmptySet DEF Counted
<1>5. Owned'
  BY <1>2 DEF Owned, Outstanding, QueueShape, Place
<1>6. Controlled'
  BY Zenon DEF Controlled, QueueShape
<1>7. Known'
  BY <1>2 DEF Known, Outstanding, QueueShape, Owned
<1>8. verdict' = (added \cap bad = {})
  BY <1>1
<1> QED BY <1>3, <1>4, <1>5, <1>6, <1>7, <1>8

LEMMA SleepInv ==
  ASSUME QueueSound, NEW t \in Threads, NEW where, NEW total, NEW idle, NEW todo,
         NEW allOk, Cleaned(t, where, total, idle, todo, allOk),
         Sleep(t, where, total, idle, todo, allOk)
  PROVE  QueueSound'
<1> USE DEF Cleaned, Sleep, QueueSound
<1>1. QueueShape'
  BY DEF QueueShape, Place, Threads
<1>2. Outstanding' = Outstanding \ batch[t]
  BY DEF Owned, Outstanding, QueueShape
<1>3. Counted'
  <2>1. Inside' = Inside \cup {t} /\ Parked' = (Parked \ {t}) \cup {t}
    BY DEF Inside, Parked, QueueShape, Place
  <2>2. Cardinality(Parked') = idle + 1
    BY <2>1, FiniteChecks, FS_AddElement DEF Parked
  <2> QED BY <1>2, <2>1, <2>2 DEF Counted
<1>4. Owned'
  <2>1. \A u \in Threads : batch'[u] = IF u = t THEN {} ELSE batch[u]
    BY DEF QueueShape
  <2>2. \A u \in Threads : pc'[u] = IF u = t THEN "wait" ELSE where[u]
    OBVIOUS
  <2>3. Outstanding' \subseteq added'
    BY <1>2 DEF Owned
  <2>4. \A u \in Threads : pc'[u] = "run" <=> batch'[u] # {}
    BY <2>1, <2>2 DEF Owned
  <2> QED BY <2>1, <2>3, <2>4 DEF Owned
<1>5. Controlled'
  <2>1. Master \in Threads
    BY DEF Threads
  <2>2. pc'[Master] = IF t = Master THEN pc'[t] ELSE where[Master]
    BY <2>1
  <2>3. pc'[Master] # "gone"
    BY <2>1, <2>2 DEF Controlled
  <2>4. ~open => t # Master /\ pc'[Master] = "out" /\ added' = {} /\ allOk
    BY <2>1, <2>2 DEF Controlled
  <2> QED BY <2>3, <2>4 DEF Controlled
<1>6. Known'
  BY <1>2 DEF Known, QueueShape
<1> QED BY <1>1, <1>3, <1>4, <1>5, <1>6

LEMMA TakeInv ==
  ASSUME QueueSound, NEW t \in Threads, NEW where, NEW total, NEW idle, NEW todo,
         NEW allOk, Cleaned(t, where, total, idle, todo, allOk),
         Take(t, where, total, idle, todo, allOk)
  PROVE  QueueSound'
<1> USE DEF Cleaned, Take, QueueSound
<1>1. PICK S \in SUBSET queue :
         /\ Cardinality(S) = BatchSize(Cardinality(queue), total, idle)
         /\ queue' = queue \ S
         /\ batch' = [batch EXCEPT ![t] = S]
  OBVIOUS
<1>2. S # {} /\ S \subseteq Checks
  <2>1. Cardinality(queue) \in Nat \ {0}
    BY FiniteChecks, FS_EmptySet DEF QueueShape
  <2>2. total \in Nat /\ idle \in Nat
    BY FiniteChecks DEF Inside, Parked
  <2>3. Cardinality(S) # 0
    BY <1>1, <2>1, <2>2, BatchSizeBounds
  <2> QED BY <2>3, FS_EmptySet DEF QueueShape
<1>3. QueueShape'
  BY <1>1 DEF QueueShape, Place, Threads
<1>4. Outstanding' = Outstanding \ batch[t]
  BY <1>1 DEF Owned, Outstanding, QueueShape
<1>5. Counted'
  <2>1. Inside' = Inside \cup {t} /\ Parked' = Parked \ {t}
    BY DEF Inside, Parked, QueueShape, Place
  <2> QED BY <1>4, <2>1 DEF Counted
<1>6. Owned'
  <2>1. \A u \in Threads : batch'[u] = IF u = t THEN S ELSE batch[u]
    BY <1>1 DEF QueueShape
  <2>2. \A u \in Threads : pc'[u] = IF u = t THEN "run" ELSE where[u]
    OBVIOUS
  <2>3. Outstanding' \subseteq added'
    BY <1>4 DEF Owned
  <2>4. \A u \in Threads : pc'[u] = "run" <=> batch'[u] # {}
    BY <1>2, <2>1, <2>2 DEF Owned
  <2>5. \A u \in Threads : batch'[u] \cap queue' = {}
    BY <1>1, <2>1 DEF Owned
  <2>6. \A u, v \in Threads : u # v => batch'[u] \cap batch'[v] = {}
    BY <1>1, <2>1 DEF Owned
  <2> QED BY <2>3, <2>4, <2>5, <2>6 DEF Owned
<1>7. Controlled'
  <2>1. Master \in Threads
    BY DEF Threads
  <2>2. pc'[Master] = IF t = Master THEN pc'[t] ELSE where[Master]
    BY <2>1
  <2>3. pc'[Master] # "gone"
    BY <2>1, <2>2 DEF Controlled
  <2>4. ~open => t # Master /\ pc'[Master] = "out" /\ added' = {} /\ allOk
    BY <2>1, <2>2 DEF Controlled
  <2> QED BY <2>3, <2>4 DEF Controlled
<1>8. Known'
  BY <1>4 DEF Known, QueueShape
<1> QED BY <1>3, <1>5, <1>6, <1>7, <1>8

\* A critical section keeps the invariant, and if it ends Loop for the master
\* the verdict it returns is the right one.
LEMMA ContinueInv ==
  ASSUME QueueSound, NEW t \in Threads, NEW where, NEW total, NEW idle, NEW todo,
         NEW allOk, Cleaned(t, where, total, idle, todo, allOk),
         Continue(t, where, total, idle, todo, allOk)
  PROVE  /\ QueueSound'
         /\ \/ /\ open /\ open' = FALSE
               /\ added' = {}
               /\ verdict' = (added \cap bad = {})
               /\ bad' = bad
            \/ UNCHANGED <<open, added, bad, verdict>>
<1>1. CASE Leave(t, where, total, idle, todo, allOk)
  <2>1. open
    BY <1>1 DEF Leave, MayLeave, Cleaned, QueueSound, Controlled
  <2> QED BY <1>1, <2>1, LeaveInv DEF Leave
<1>2. CASE Sleep(t, where, total, idle, todo, allOk)
  BY <1>2, SleepInv DEF Sleep
<1>3. CASE Take(t, where, total, idle, todo, allOk)
  BY <1>3, TakeInv DEF Take
<1> QED BY <1>1, <1>2, <1>3 DEF Continue

-----------------------------------------------------------------------------
\* The three clean-ups: of a first iteration, after cond.wait, after a batch.
LEMMA EnterCleaned ==
  ASSUME QueueSound, NEW t \in Threads, Enter(t)
  PROVE  Cleaned(t, pc, nTotal + 1, nIdle, nTodo, fAllOk)
<1> USE DEF QueueSound
<1>0. pc[t] = "enter"
  BY DEF Enter
<1>1. t \notin Inside /\ Parked \ {t} = Parked
  BY <1>0 DEF Inside, Parked
<1>2. nTotal + 1 = Cardinality(Inside \cup {t})
  BY <1>1, FiniteChecks, FS_AddElement DEF Inside, Counted
<1>3. batch[t] = {}
  BY <1>0 DEF Owned
<1>4. Outstanding \ batch[t] = Outstanding
  BY <1>3
<1>5. /\ fAllOk => (added \ Outstanding) \cap bad = {}
      /\ ~fAllOk => added \cap bad # {}
      /\ ~open => fAllOk
  BY DEF Known, Controlled
<1>6. /\ pc \in [Threads -> Place] /\ fAllOk \in BOOLEAN
      /\ nTotal + 1 \in Int /\ nIdle \in Int /\ nTodo \in Int
      /\ pc[t] \in {"enter", "wait", "notified", "run"}
      /\ nIdle = Cardinality(Parked \ {t})
      /\ nTodo = Cardinality(Outstanding \ batch[t])
  <2>1. pc \in [Threads -> Place] /\ fAllOk \in BOOLEAN
    BY Zenon DEF QueueShape
  <2>2. nTotal + 1 \in Int /\ nIdle \in Int /\ nTodo \in Int
    BY DEF QueueShape
  <2>3. pc[t] \in {"enter", "wait", "notified", "run"}
    BY <1>0
  <2> QED BY <1>1, <1>4, <2>1, <2>2, <2>3, Zenon DEF Counted
<1> QED BY <1>2, <1>4, <1>5, <1>6, Zenon DEF Cleaned

LEMMA WakeCleaned ==
  ASSUME QueueSound, NEW t \in Threads, Wake(t)
  PROVE  Cleaned(t, pc, nTotal, IdleAfterWait, nTodo, fAllOk)
<1> USE DEF QueueSound
<1>0. pc[t] \in {"wait", "notified"}
  BY DEF Wake
<1>1. t \in Parked /\ Inside \cup {t} = Inside
  BY <1>0 DEF Inside, Parked
<1>2. IdleAfterWait = Cardinality(Parked \ {t})
  BY <1>1, FiniteChecks, FS_RemoveElement DEF Parked, Counted, IdleAfterWait
<1>3. batch[t] = {}
  BY <1>0 DEF Owned
<1>4. Outstanding \ batch[t] = Outstanding
  BY <1>3
<1>5. /\ fAllOk => (added \ Outstanding) \cap bad = {}
      /\ ~fAllOk => added \cap bad # {}
      /\ ~open => fAllOk
  BY DEF Known, Controlled
<1>6. /\ pc \in [Threads -> Place] /\ fAllOk \in BOOLEAN
      /\ nTotal \in Int /\ IdleAfterWait \in Int /\ nTodo \in Int
      /\ pc[t] \in {"enter", "wait", "notified", "run"}
      /\ nTotal = Cardinality(Inside \cup {t})
      /\ nTodo = Cardinality(Outstanding \ batch[t])
  <2>1. pc \in [Threads -> Place] /\ fAllOk \in BOOLEAN
    BY Zenon DEF QueueShape
  <2>2. nTotal \in Int /\ IdleAfterWait \in Int /\ nTodo \in Int
    BY DEF QueueShape, IdleAfterWait
  <2>3. pc[t] \in {"enter", "wait", "notified", "run"}
    BY <1>0
  <2> QED BY <1>1, <1>4, <2>1, <2>2, <2>3, Zenon DEF Counted
<1> QED BY <1>2, <1>4, <1>5, <1>6, Zenon DEF Cleaned

LEMMA ReportCleaned ==
  ASSUME QueueSound, NEW t \in Threads, pc[t] = "run",
         NEW todo, todo = nTodo - Cardinality(batch[t]),
         NEW where,
         where = IF WakesMaster(t, todo)
                   THEN [pc EXCEPT ![Master] = "notified"] ELSE pc
  PROVE  Cleaned(t, where, nTotal, nIdle, todo, Merged(t))
<1> USE DEF QueueSound
<1>1. t \notin Parked /\ Parked \ {t} = Parked /\ Inside \cup {t} = Inside
  BY DEF Inside, Parked
<1>2. batch[t] \in SUBSET Checks /\ batch[t] \subseteq Outstanding
  BY DEF Outstanding, QueueShape
<1>3. todo \in Int /\ todo = Cardinality(Outstanding \ batch[t])
  <2>1. Outstanding \in SUBSET Checks
    BY DEF Outstanding, QueueShape
  <2>2. Outstanding \cap batch[t] = batch[t]
    BY <1>2
  <2>3. IsFiniteSet(Outstanding) /\ Cardinality(batch[t]) \in Nat
    BY <1>2, <2>1, FiniteChecks
  <2>4. Cardinality(Outstanding \ batch[t])
          = Cardinality(Outstanding) - Cardinality(batch[t])
    <3>1. Cardinality(Outstanding \ batch[t])
            = Cardinality(Outstanding) - Cardinality(Outstanding \cap batch[t])
      BY <2>3, FS_Difference
    <3> QED BY <2>2, <3>1
  <2>5. nTodo = Cardinality(Outstanding) /\ nTodo \in Int
    BY DEF Counted, QueueShape
  <2> QED BY <2>3, <2>4, <2>5
<1>4. where \in [Threads -> Place]
  BY DEF QueueShape, Place
<1>5. \A u \in Threads \ {t} :
        where[u] = pc[u] \/ (pc[u] = "wait" /\ where[u] = "notified")
  <2>1. CASE WakesMaster(t, todo)
    <3>1. where = [pc EXCEPT ![Master] = "notified"]
      BY <2>1
    <3>2. pc[Master] = "wait"
      BY <2>1 DEF WakesMaster
    <3> QED BY <3>1, <3>2 DEF QueueShape
  <2>2. CASE ~WakesMaster(t, todo)
    BY <2>2
  <2> QED BY <2>1, <2>2
<1>6. Merged(t) \in BOOLEAN
  BY Zenon DEF Merged
<1>7. Merged(t) => fAllOk /\ (added \ (Outstanding \ batch[t])) \cap bad = {}
  BY <1>2 DEF Merged, BatchOk, Known
<1>8. ~Merged(t) => added \cap bad # {}
  BY <1>2 DEF Merged, BatchOk, Known, Owned
<1>9. open
  BY <1>2 DEF Controlled, Owned
<1>10. /\ nTotal \in Int /\ nIdle \in Int
       /\ nTotal = Cardinality(Inside \cup {t})
       /\ nIdle = Cardinality(Parked \ {t})
       /\ pc[t] \in {"enter", "wait", "notified", "run"}
  BY <1>1 DEF Counted, QueueShape
<1> QED BY <1>3, <1>4, <1>5, <1>6, <1>7, <1>8, <1>9, <1>10, Zenon DEF Cleaned

-----------------------------------------------------------------------------
\* Every step keeps the invariant and is a step of BatchVerifier or none.
LEMMA QueueStepSound ==
  ASSUME QueueSound, [QueueNext]_queueVars
  PROVE  QueueSound' /\ [Verifier!Next]_(Verifier!vars)
<1> DEFINE Good == QueueSound' /\ [Verifier!Next]_(Verifier!vars)
           Quiet == UNCHANGED <<open, added, bad, verdict>>
           Closes == /\ open /\ open' = FALSE /\ added' = {} /\ bad' = bad
                     /\ verdict' = (added \cap bad = {})
<1>a. Quiet => [Verifier!Next]_(Verifier!vars)
  BY DEF Verifier!vars
<1>b. Closes => [Verifier!Next]_(Verifier!vars)
  BY Zenon DEF Verifier!Next, Verifier!Close
<1>1. ASSUME NEW t \in Threads, Enter(t) PROVE Good
  BY <1>1, <1>a, <1>b, EnterCleaned, ContinueInv, Zenon DEF Enter
<1>2. ASSUME NEW t \in Threads, Wake(t) PROVE Good
  BY <1>2, <1>a, <1>b, WakeCleaned, ContinueInv, Zenon DEF Wake
<1>3. ASSUME NEW t \in Threads, Report(t) PROVE Good
  BY <1>3, <1>a, <1>b, ReportCleaned, ContinueInv, Zenon DEF Report
<1>4. ASSUME NEW w \in Workers, StartWorker(w) \/ Interrupt(w) PROVE Good
  <2> USE <1>4 DEF StartWorker, Interrupt, QueueSound
  <2>1. QueueShape' /\ Quiet
    BY DEF QueueShape, Place, Threads
  <2>2. Inside' = Inside /\ Parked' = Parked /\ Outstanding' = Outstanding
    BY DEF Inside, Parked, Outstanding, QueueShape, Threads
  <2>3. Counted'
    BY <2>2 DEF Counted
  <2>4. Owned'
    BY <2>2 DEF Owned, QueueShape, Threads
  <2>5. Controlled' /\ Known'
    BY <2>2, CheckQueueAssumption DEF Controlled, Known, QueueShape, Threads
  <2> QED BY <2>1, <2>3, <2>4, <2>5, <1>a
<1>5. ASSUME Construct PROVE Good
  <2> USE <1>5 DEF Construct, QueueSound
  <2>1. Inside' = Inside /\ Parked' = Parked /\ Outstanding' = Outstanding
    BY DEF Inside, Parked, Outstanding
  <2>2. QueueShape' /\ Counted' /\ Owned' /\ Controlled'
    BY <2>1 DEF QueueShape, Counted, Owned, Controlled
  <2>3. Known'
    BY <2>1 DEF Known, Controlled
  <2>4. [Verifier!Next]_(Verifier!vars)
    BY Zenon DEF Verifier!Next, Verifier!Open
  <2> QED BY <2>2, <2>3, <2>4
<1>6. ASSUME NEW S \in SUBSET (Checks \ added), Add(S) PROVE Good
  <2> USE <1>6 DEF Add, QueueSound
  <2>1. pc' = pc \/ \E W \in SUBSET Waiting(pc) : pc' = Woken(W)
    BY DEF Waiting
  <2>2. \A u \in Threads : \/ pc'[u] = pc[u]
                           \/ u # Master /\ pc[u] = "wait"
                              /\ pc'[u] = "notified"
    BY <2>1, CheckQueueAssumption DEF Woken, Waiting, Threads
  <2>3. pc' \in [Threads -> Place]
    BY <2>1 DEF Woken, Place, QueueShape
  <2>4. QueueShape'
    <3>1. Cardinality(S) \in Nat
      BY FiniteChecks
    <3> QED BY <3>1, <2>3 DEF QueueShape
  <2>5. Inside' = Inside /\ Parked' = Parked
    BY <2>2 DEF Inside, Parked
  <2>6. Outstanding' = Outstanding \cup S /\ Outstanding \cap S = {}
    BY DEF Outstanding, Owned, QueueShape
  <2>7. Cardinality(Outstanding') = nTodo + Cardinality(S)
    <3>1. IsFiniteSet(Outstanding) /\ IsFiniteSet(S)
      BY FiniteChecks DEF Outstanding, QueueShape
    <3>2. Cardinality(Outstanding) \in Nat /\ Cardinality(S) \in Nat
      BY <3>1, FS_CardinalityType
    <3>3. Cardinality(Outstanding \cup S)
            = Cardinality(Outstanding) + Cardinality(S)
      <4>1. Cardinality(Outstanding \cup S)
              = Cardinality(Outstanding) + Cardinality(S)
                  - Cardinality(Outstanding \cap S)
        BY <3>1, FS_Union
      <4>2. Cardinality(Outstanding \cap S) = 0
        BY <2>6, FS_EmptySet
      <4> QED BY <3>2, <4>1, <4>2
    <3> QED BY <2>6, <3>3 DEF Counted
  <2>8. Counted'
    BY <2>5, <2>7 DEF Counted
  <2>9. Owned'
    BY <2>2, <2>6 DEF Owned, Outstanding
  <2>10. Controlled'
    BY <2>2 DEF Controlled, Threads
  <2>11. Known'
    BY <2>2, <2>6 DEF Known
  <2>12. [Verifier!Next]_(Verifier!vars)
    BY Zenon DEF Verifier!Next, Verifier!Collect
  <2> QED BY <2>4, <2>8, <2>9, <2>10, <2>11, <2>12
<1>7. ASSUME CallWait PROVE Good
  <2> USE <1>7 DEF CallWait, QueueSound
  <2>1. QueueShape' /\ Quiet
    BY DEF QueueShape, Place, Threads
  <2>2. Inside' = Inside /\ Parked' = Parked /\ Outstanding' = Outstanding
    BY DEF Inside, Parked, Outstanding, QueueShape, Threads
  <2>3. Counted' /\ Controlled'
    BY <2>2 DEF Counted, Controlled, QueueShape, Threads
  <2>4. Owned' /\ Known'
    BY <2>2 DEF Owned, Known, QueueShape, Threads
  <2> QED BY <2>1, <2>3, <2>4, <1>a
<1>8. ASSUME UNCHANGED queueVars PROVE Good
  BY <1>8, <1>a DEF queueVars, QueueSound, QueueShape, Counted, Owned, Controlled, Known,
                    Inside, Parked, Outstanding
<1> QED BY <1>1, <1>2, <1>3, <1>4, <1>5, <1>6, <1>7, <1>8 DEF QueueNext

LEMMA QueueInitSound == QueueInit => QueueSound /\ Verifier!Init
<1> SUFFICES ASSUME QueueInit PROVE QueueSound /\ Verifier!Init
  OBVIOUS
<1> USE DEF QueueInit
<1>1. QueueShape
  <2>1. fAllOk \in BOOLEAN /\ open \in BOOLEAN /\ verdict \in BOOLEAN
    BY Zenon
  <2>2. fOk \in [Threads -> BOOLEAN]
    BY Zenon
  <2>3. pc \in [Threads -> Place] /\ batch \in [Threads -> SUBSET Checks]
    BY DEF Place
  <2> QED BY <2>1, <2>2, <2>3 DEF QueueShape
<1>2. Inside = {} /\ Parked = {} /\ Outstanding = {}
  BY DEF Inside, Parked, Outstanding
<1>3. Counted
  BY <1>2, FS_EmptySet DEF Counted
<1>4. Owned
  BY <1>2 DEF Owned
<1>5. Controlled /\ Known
  BY DEF Controlled, Known, Threads
<1>6. Verifier!Init
  BY Zenon DEF Verifier!Init
<1> QED BY <1>1, <1>3, <1>4, <1>5, <1>6 DEF QueueSound

LEMMA QueueAlwaysSound == QueueSpec => []QueueSound
<1>1. QueueInit => QueueSound
  BY QueueInitSound
<1>2. QueueSound /\ [QueueNext]_queueVars => QueueSound'
  BY QueueStepSound
<1> QED BY <1>1, <1>2, PTL DEF QueueSpec

-----------------------------------------------------------------------------
\* Every reachable state is well typed; the counters stay in their ranges.
THEOREM QueueTypeCorrect == QueueSpec => []QueueTypeOK
<1>1. QueueSound => QueueTypeOK
  BY QueueSoundIsInv DEF QueueInv
<1> QED BY <1>1, QueueAlwaysSound, PTL

\* The inductive invariant as TLC checks it.
THEOREM QueueInvCorrect == QueueSpec => []QueueInv
BY QueueSoundIsInv, QueueAlwaysSound, PTL

\* The assertion in the constructor of CCheckQueueControl never fires, for
\* any number of workers and any batch size: with no controller alive every
\* thread in Loop is parked.
THEOREM ConstructorAssertionHolds == QueueSpec => []ConstructorAssertion
<1>1. QueueSound => ConstructorAssertion
  <2> SUFFICES ASSUME QueueSound, ~open PROVE IsIdle
    BY DEF ConstructorAssertion
  <2>1. Outstanding = {} /\ \A t \in Threads : batch[t] = {}
    BY DEF QueueSound, Controlled, Owned, Outstanding, QueueShape
  <2>2. Inside = Parked
    BY <2>1 DEF Inside, Parked, QueueSound, Owned
  <2>3. nTodo = 0
    BY <2>1, FS_EmptySet DEF QueueSound, Counted
  <2> QED BY <2>2, <2>3 DEF IsIdle, QueueSound, Counted, Controlled
<1> QED BY <1>1, QueueAlwaysSound, PTL

\* Once Wait has returned no thread holds or can find a check of that block.
THEOREM NoWorkAfterWaitHolds == QueueSpec => []NoWorkAfterWait
<1>1. QueueSound => NoWorkAfterWait
  BY DEF NoWorkAfterWait, QueueSound, Controlled, Owned, Outstanding, QueueShape
<1> QED BY <1>1, QueueAlwaysSound, PTL

\* Wait returns TRUE exactly when no check of the block fails: CheckQueue
\* implements BatchVerifier.
THEOREM QueueRefinesVerifier == QueueSpec => ImplementsVerifier
<1>1. QueueInit => Verifier!Init
  BY QueueInitSound
<1>2. QueueSound /\ [QueueNext]_queueVars => [Verifier!Next]_(Verifier!vars)
  BY QueueStepSound
<1> QED BY <1>1, <1>2, QueueAlwaysSound, PTL DEF QueueSpec, Verifier!Spec, ImplementsVerifier
=============================================================================

----------------------------- MODULE CoinsCache -----------------------------
(***************************************************************************)
(* CCoinsViewCache (src/coins.cpp): one layer of a stack of views on the   *)
(* unspent outputs.  A CCoins keeps the height of its transaction (which   *)
(* stands for fCoinBase and nVersion too: the three travel together) and   *)
(* the positions of the outputs that are unspent.  A cache is a partial    *)
(* function from transaction ids to entries; the view below it is a        *)
(* partial function from transaction ids to coins.                         *)
(*                                                                         *)
(* A CCoinsModifier is taken, used and released within one operation: what *)
(* ModifyCoins and ~CCoinsModifier do is one operator of the new coins.    *)
(***************************************************************************)
EXTENDS Naturals

\* CCoins::Clear, and the coins a missing entry stands for.
Clear == [height |-> 0, outs |-> {}]

IsPruned(coins) == coins.outs = {}

\* operator== of CCoins: two pruned CCoins are equal whatever else they hold.
Value(coins) == IF IsPruned(coins) THEN Clear ELSE coins

\* What GetCoins yields, a miss read as empty coins.
Read(base, t) == IF t \in DOMAIN base THEN base[t] ELSE Clear

Entry(coins, dirty, fresh) == [coins |-> coins, dirty |-> dirty, fresh |-> fresh]

Put(cache, t, entry) ==
    [u \in DOMAIN cache \cup {t} |-> IF u = t THEN entry ELSE cache[u]]

Erase(cache, ids) == [u \in DOMAIN cache \ ids |-> cache[u]]

\* The view that a cache and the view below it are together.
Stacked(cache, base) ==
    [t \in DOMAIN cache \cup DOMAIN base |->
        IF t \in DOMAIN cache THEN cache[t].coins ELSE base[t]]

\* FetchCoins of each of ids: a miss copies what the base has.
FetchCoins(cache, base, ids) ==
    [t \in DOMAIN cache \cup (ids \cap DOMAIN base) |->
        IF t \in DOMAIN cache
        THEN cache[t]
        ELSE Entry(base[t], FALSE, IsPruned(base[t]))]

\* A new entry of ModifyCoins is fresh when the base has nothing unspent.
FreshBelow(cache, base, t) ==
    IF t \in DOMAIN cache THEN cache[t].fresh ELSE IsPruned(Read(base, t))

Released(cache, t, coins, fresh) ==
    IF fresh /\ IsPruned(coins)
    THEN Erase(cache, {t})
    ELSE Put(cache, t, Entry(coins, TRUE, fresh))

ModifyCoins(cache, base, t, coins) ==
    Released(cache, t, coins, FreshBelow(cache, base, t))

\* Does not ask the base: the caller knows that it has nothing unspent.
ModifyNewCoins(cache, t, coins) == Released(cache, t, coins, TRUE)

\* What a flush passes on.
\* Fault: coins without unspent outputs are taken for unchanged.
UnprunedChanges(child) == {t \in DOMAIN child : child[t].dirty /\ ~IsPruned(child[t].coins)}
Changes(child) == {t \in DOMAIN child : child[t].dirty}

\* An entry that comes and goes between two flushes needs no trace.
\* Fault: whether the entry is fresh is not asked.
CancelsPruned(ours, child, t) == IsPruned(child[t].coins)
Cancels(ours, child, t) ==
    /\ IsPruned(child[t].coins)
    /\ IF t \in DOMAIN ours THEN ours[t].fresh ELSE child[t].fresh

\* Fault: the child's flag replaces ours.
FreshOfChild(ours, child, t) == child[t].fresh
FreshAfter(ours, child, t) ==
    IF t \in DOMAIN ours THEN ours[t].fresh ELSE child[t].fresh

\* BatchWrite of the entries of a child cache into ours.
BatchWrite(ours, child) ==
    LET changed == Changes(child)
    IN  [t \in (DOMAIN ours \cup changed) \ {t \in changed : Cancels(ours, child, t)} |->
            IF t \in changed
            THEN Entry(child[t].coins, TRUE, FreshAfter(ours, child, t))
            ELSE ours[t]]

\* Uncache: forget the entries of ids that nobody changed.
Uncache(cache, ids) ==
    Erase(cache, {t \in ids \cap DOMAIN cache : ~cache[t].dirty /\ ~cache[t].fresh})

\* CCoinsViewDB::BatchWrite: pruned coins are erased from the database.
WriteToDatabase(db, child) ==
    LET changed == Changes(child)
        erased == {t \in changed : IsPruned(child[t].coins)}
    IN  [t \in (DOMAIN db \cup changed) \ erased |->
            IF t \in changed THEN child[t].coins ELSE db[t]]
=============================================================================

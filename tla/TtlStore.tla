------------------------------- MODULE TtlStore -------------------------------
(***************************************************************************)
(* The bounded stores of a translate provider: ThreadStore (record, resume)*)
(* of src/services/thread_store.py and ReasoningCache (store, get) of      *)
(* src/services/reasoning_cache.py, which keep the same ordered dict of    *)
(* timestamped entries and evict from its front.                           *)
(*                                                                         *)
(* The dict holds the keys in `items`, ordered by the numbers of their last *)
(* stores; its entries are `last` restricted to them.  What `last` says of *)
(* a key that is not held is history, which no action reads.  Every method *)
(* runs without an await and is one action.                                *)
(***************************************************************************)
EXTENDS RecentWrites

CONSTANT MaxStores   \* bound: number of stores a behaviour makes

VARIABLE items   \* the keys in _entries

storeVars == <<promiseVars, items>>

StoreTypeOK ==
    /\ now \in Nat /\ serial \in Nat
    /\ last \in [Keys -> Stores]
    /\ answer \in Answers
    /\ items \subseteq Keys

StoreInit == PromiseInit /\ items = {}

-----------------------------------------------------------------------------
\* _evict's first loop, on the keys S with their stores at: entries go from the
\* front of the dict up to the first one that is not expired.
Unexpired(S, at) == {k \in S : \E m \in S : at[m].number <= at[k].number /\ now - at[m].at <= Ttl}

\* Mutant of Newest: one entry too many goes.
NewestButOne(S, at) ==
    {k \in S : Cardinality({m \in S : at[m].number > at[k].number}) + 1 < MaxEntries}

\* Its second loop: entries go from the front until MaxEntries are left.
Newest(S, at) ==
    {k \in S : Cardinality({m \in S : at[m].number > at[k].number}) < MaxEntries}

\* Mutant of Store: overwriting an entry leaves it at its old place in the dict.
StoreInPlace(k, v) ==
    /\ serial < MaxStores
    /\ serial' = serial + 1
    /\ last' = [last EXCEPT ![k] = [number |-> IF k \in items THEN last[k].number ELSE serial + 1,
                                    at |-> now, value |-> v]]
    /\ items' = Newest(Unexpired(items \cup {k}, last'), last')
    /\ UNCHANGED <<now, answer>>

\* record(), store(): the entry goes to the end of the dict, then _evict().
Store(k, v) ==
    /\ serial < MaxStores
    /\ Written(k, v)
    /\ items' = Newest(Unexpired(items \cup {k}, last'), last')
    /\ UNCHANGED <<now, answer>>

\* resume(), get(): an expired entry is deleted and not found.
Lookup(k) ==
    /\ IF k \in items /\ Fresh(k)
       THEN Answer(k, last[k].value) /\ UNCHANGED items
       ELSE Answer(k, Miss) /\ items' = items \ {k}
    /\ UNCHANGED <<now, serial, last>>

Tick == PromiseTick /\ UNCHANGED items

StoreNext ==
    \/ Tick
    \/ \E k \in Keys : Lookup(k) \/ \E v \in Values : Store(k, v)

StoreSpec == StoreInit /\ [][StoreNext]_storeVars

-----------------------------------------------------------------------------
(* Properties.                                                             *)

\* The dict is bounded by MaxEntries.
SizeBounded == Cardinality(items) <= MaxEntries

\* The early stop of _evict's first loop is sound: although it looks no further
\* than the first unexpired entry, no expired entry is left behind a store.
StoreLeavesOnlyFresh ==
    [][serial' # serial => \A k \in items' : now - last'[k].at <= Ttl]_storeVars

\* The store with its evictions keeps the promise of RecentWrites: in particular
\* a lookup never finds a value that was overwritten or has expired, and a miss is
\* never due to an eviction of one of the MaxEntries last keys.
StoreKeepsPromise == PromiseSpec

\* The inductive invariant: stores are numbered and timed in the same order, a key
\* forgotten was not recent, and a key held and fresh is among the newest.
OrderInv ==
    /\ \A k \in Keys : last[k].number <= serial /\ last[k].at <= now
    /\ \A k, m \in Keys : Stored(k) /\ last[k].number = last[m].number => k = m
    /\ \A k, m \in Keys : Stored(k) /\ last[k].number <= last[m].number => last[k].at <= last[m].at
    /\ \A k \in Keys : Stored(k) => last[k].value \in Values

ItemsInv == \A k \in items : Stored(k) /\ (Fresh(k) => Cardinality(Newer(k)) < MaxEntries)

ForgottenInv == \A k \in Keys \ items : ~Recent(k)

StoreInv == StoreTypeOK /\ OrderInv /\ ItemsInv /\ ForgottenInv
=============================================================================

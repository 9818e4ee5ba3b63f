---------------------------- MODULE RecentWrites ----------------------------
(***************************************************************************)
(* What the two bounded stores of a translate provider promise, without    *)
(* the evictions by which they keep it: a lookup finds the last value      *)
(* stored under its key if that is recent, i.e. no older than Ttl and not  *)
(* followed by MaxEntries other keys, and finds nothing otherwise.         *)
(***************************************************************************)
EXTENDS Integers, FiniteSets

CONSTANTS
    Keys, Values,
    MaxEntries,   \* most recently stored keys that are remembered
    Ttl,          \* how long
    Miss          \* the answer of a lookup that finds nothing

ASSUME StoreAssumption ==
    /\ IsFiniteSet(Keys)
    /\ MaxEntries \in Nat /\ Ttl \in Nat
    /\ Miss \notin Values

VARIABLES
    now,      \* time.monotonic()
    serial,   \* number of stores so far
    last,     \* per key the last store: its place among the stores, when, what
    answer    \* of the last lookup, with its key; `turn` tells it from the one before

promiseVars == <<now, serial, last, answer>>

\* A store is numbered from 1; number 0 stands for a key never stored.
Stores == [number : Nat, at : Nat, value : Values \cup {Miss}]
Never == [number |-> 0, at |-> 0, value |-> Miss]

Answers == [key : Keys \cup {Miss}, value : Values \cup {Miss}, turn : {0, 1}]

\* The lookup of k found v.
Answer(k, v) == answer' = [key |-> k, value |-> v, turn |-> 1 - answer.turn]

Stored(k) == last[k].number > 0
Newer(k) == {m \in Keys : last[m].number > last[k].number}
Fresh(k) == now - last[k].at <= Ttl
Recent(k) == Stored(k) /\ Fresh(k) /\ Cardinality(Newer(k)) < MaxEntries

PromiseInit ==
    /\ now = 0 /\ serial = 0
    /\ last = [k \in Keys |-> Never]
    /\ answer = [key |-> Miss, value |-> Miss, turn |-> 0]

\* The bookkeeping of a store of v under k.
Written(k, v) ==
    /\ serial' = serial + 1
    /\ last' = [last EXCEPT ![k] = [number |-> serial + 1, at |-> now, value |-> v]]

PromiseStore(k, v) == Written(k, v) /\ UNCHANGED <<now, answer>>

PromiseLookup(k) ==
    /\ Answer(k, IF Recent(k) THEN last[k].value ELSE Miss)
    /\ UNCHANGED <<now, serial, last>>

PromiseTick == now' = now + 1 /\ UNCHANGED <<serial, last, answer>>

PromiseNext ==
    \/ PromiseTick
    \/ \E k \in Keys : PromiseLookup(k) \/ \E v \in Values : PromiseStore(k, v)

PromiseSpec == PromiseInit /\ [][PromiseNext]_promiseVars
=============================================================================

----------------------------- MODULE StoreProofs -----------------------------
(***************************************************************************)
(* Proofs about the stores.  TtlStore: for any finite set of keys, any     *)
(* size and any lifetime of the store.  RequestLog: for any requests, any  *)
(* finite log of an older version, any clock and any number of faults; the *)
(* counts and sums over its rows, and that the panels of one answer add    *)
(* up, by well-founded induction on finite sets.                           *)
(***************************************************************************)
EXTENDS TtlStore, RequestLog, FiniteSetTheorems, WellFoundedInduction, TLAPS

\* A part of a set of keys is no larger than the set.
LEMMA PartIsSmaller ==
    ASSUME NEW T \in SUBSET Keys, NEW S \in SUBSET T
    PROVE  Cardinality(S) \in Nat /\ Cardinality(T) \in Nat /\ Cardinality(S) <= Cardinality(T)
<1>1. IsFiniteSet(T)
  BY StoreAssumption, FS_Subset
<1>2. IsFiniteSet(S) /\ Cardinality(S) <= Cardinality(T)
  BY <1>1, FS_Subset
<1>. QED BY <1>1, <1>2, FS_CardinalityType

-----------------------------------------------------------------------------
(* A store keeps the invariant.                                            *)

\* What a store of v under k does to the numbers and times of the keys.
LEMMA WrittenFacts ==
    ASSUME StoreInv, NEW k \in Keys, NEW v \in Values, Store(k, v)
    PROVE  /\ now' = now /\ serial' = serial + 1
           /\ last' \in [Keys -> Stores]
           /\ last'[k] = [number |-> serial + 1, at |-> now, value |-> v]
           /\ \A m \in Keys \ {k} : last'[m] = last[m]
           /\ items' = Newest(Unexpired(items \cup {k}, last'), last')
           /\ items' \subseteq items \cup {k}
           /\ StoreTypeOK'
<1>1. serial + 1 \in Nat /\ now \in Nat /\ last \in [Keys -> Stores] /\ items \subseteq Keys
  BY DEF StoreInv, StoreTypeOK
<1>2. [number |-> serial + 1, at |-> now, value |-> v] \in Stores
  BY <1>1 DEF Stores
<1>3. last' = [last EXCEPT ![k] = [number |-> serial + 1, at |-> now, value |-> v]]
  BY DEF Store, Written
<1>4. last' \in [Keys -> Stores]
  BY <1>1, <1>2, <1>3
<1>5. items' \subseteq items \cup {k}
  BY DEF Store, Newest, Unexpired
<1>6. StoreTypeOK'
  BY <1>1, <1>4, <1>5 DEF StoreInv, StoreTypeOK, Store, Written
<1>. QED BY <1>1, <1>3, <1>4, <1>5, <1>6 DEF Store, Written

\* Stores are numbered and timed in one order.
LEMMA StoreKeepsOrder ==
    ASSUME StoreInv, NEW k \in Keys, NEW v \in Values, Store(k, v)
    PROVE  OrderInv'
<1>1. StoreTypeOK /\ OrderInv
  BY DEF StoreInv
<1>2. /\ now' = now /\ serial' = serial + 1
      /\ last'[k] = [number |-> serial + 1, at |-> now, value |-> v]
      /\ \A m \in Keys \ {k} : last'[m] = last[m]
  BY WrittenFacts
<1>3. \A m \in Keys : last[m].number \in Nat /\ last[m].at \in Nat
  BY <1>1 DEF StoreTypeOK, Stores
<1>4. last'[k].number = serial + 1 /\ last'[k].at = now /\ last'[k].value = v
  BY <1>2
<1>5. \A m \in Keys : (last[m].number <= serial /\ last[m].at <= now)'
  BY <1>1, <1>2, <1>3, <1>4 DEF StoreTypeOK, OrderInv
<1>6. \A m, n \in Keys : (Stored(m) /\ last[m].number = last[n].number => m = n)'
  BY <1>1, <1>2, <1>3, <1>4 DEF StoreTypeOK, OrderInv, Stored
<1>7. \A m, n \in Keys :
         (Stored(m) /\ last[m].number <= last[n].number => last[m].at <= last[n].at)'
  BY <1>1, <1>2, <1>3, <1>4 DEF StoreTypeOK, OrderInv, Stored
<1>8. \A m \in Keys : (Stored(m) => last[m].value \in Values)'
  BY <1>1, <1>2, <1>4 DEF OrderInv, Stored
<1>. QED BY <1>5, <1>6, <1>7, <1>8 DEF OrderInv

\* The keys stored after m become those and k.
LEMMA NewerAfterStore ==
    ASSUME StoreInv, NEW k \in Keys, NEW v \in Values, Store(k, v), NEW m \in Keys
    PROVE  Newer(m)' = IF m = k THEN {} ELSE Newer(m) \cup {k}
<1>1. StoreTypeOK /\ OrderInv
  BY DEF StoreInv
<1>2. /\ last'[k] = [number |-> serial + 1, at |-> now, value |-> v]
      /\ \A n \in Keys \ {k} : last'[n] = last[n]
  BY WrittenFacts
<1>3. \A n \in Keys : last[n].number \in Nat /\ last[n].number <= serial /\ serial \in Nat
  BY <1>1 DEF StoreTypeOK, Stores, OrderInv
<1>4. last'[k].number = serial + 1
  BY <1>2
<1>5. CASE m = k
  BY <1>2, <1>3, <1>4, <1>5 DEF Newer
<1>6. CASE m # k
  <2>1. \A n \in Keys : last'[n].number > last'[m].number <=> (n = k \/ last[n].number > last[m].number)
    BY <1>2, <1>3, <1>4, <1>6
  <2>. QED BY <2>1, <1>6 DEF Newer
<1>. QED BY <1>5, <1>6

\* What is newer than a fresh entry of the dict is in the dict, and fresh.
LEMMA NewerThanFreshIsHeld ==
    ASSUME StoreInv, NEW m \in items, Fresh(m), NEW n \in Newer(m)
    PROVE  n \in items /\ Fresh(n)
<1>1. StoreTypeOK /\ OrderInv /\ m \in Keys /\ n \in Keys
  BY DEF StoreInv, StoreTypeOK, Newer
<1>2. \A x \in Keys : last[x].number \in Nat /\ last[x].at \in Nat
  BY <1>1 DEF StoreTypeOK, Stores
<1>3. Stored(m) /\ Cardinality(Newer(m)) < MaxEntries
  BY DEF StoreInv, ItemsInv
<1>4. Stored(n) /\ last[m].number <= last[n].number
  BY <1>1, <1>2, <1>3 DEF Newer, Stored
<1>5. Fresh(n)
  BY <1>1, <1>2, <1>3, <1>4, StoreAssumption DEF Fresh, OrderInv, StoreTypeOK
<1>6. Newer(n) \subseteq Newer(m) /\ Newer(m) \subseteq Keys
  BY <1>1, <1>2, <1>4 DEF Newer
<1>7. Cardinality(Newer(n)) < MaxEntries
  BY <1>3, <1>6, PartIsSmaller, StoreAssumption
<1>. QED BY <1>1, <1>4, <1>5, <1>7 DEF StoreInv, ForgottenInv, Recent

\* Eviction spares what a lookup would find and everything newer.
LEMMA FreshIsUnexpired ==
    ASSUME StoreInv, NEW k \in Keys, NEW v \in Values, Store(k, v),
           NEW m \in items \cup {k}, Fresh(m)'
    PROVE  (Newer(m)') \cup {m} \subseteq Unexpired(items \cup {k}, last')
<1>. DEFINE H == items \cup {k}
<1>1. StoreTypeOK /\ H \subseteq Keys /\ m \in Keys
  BY DEF StoreInv, StoreTypeOK
<1>2. /\ now' = now /\ last' \in [Keys -> Stores]
      /\ last'[k] = [number |-> serial + 1, at |-> now, value |-> v]
      /\ \A n \in Keys \ {k} : last'[n] = last[n]
  BY WrittenFacts
<1>3. \A n \in Keys : last'[n].number \in Nat
  BY <1>2 DEF Stores
<1>4. ASSUME NEW n \in H, now - last'[n].at <= Ttl
      PROVE  n \in Unexpired(H, last')
  BY <1>1, <1>3, <1>4 DEF Unexpired
<1>5. k \in Unexpired(H, last')
  <2>1. last'[k].at = now /\ now - now <= Ttl
    BY <1>1, <1>2, StoreAssumption DEF StoreTypeOK
  <2>. QED BY <1>4, <2>1
<1>6. m \in Unexpired(H, last')
  BY <1>2, <1>4 DEF Fresh
<1>7. CASE m = k
  BY <1>1, <1>6, <1>7, NewerAfterStore
<1>8. CASE m # k
  <2>1. m \in items /\ Fresh(m)
    BY <1>1, <1>2, <1>8 DEF Fresh
  <2>2. Newer(m)' = Newer(m) \cup {k}
    BY <1>1, <1>8, NewerAfterStore
  <2>3. ASSUME NEW n \in Newer(m), n # k
        PROVE  n \in Unexpired(H, last')
    <3>1. n \in items /\ Fresh(n)
      BY <2>1, NewerThanFreshIsHeld
    <3>. QED BY <1>1, <1>2, <1>4, <2>3, <3>1 DEF Fresh
  <2>. QED BY <1>5, <1>6, <2>2, <2>3
<1>. QED BY <1>7, <1>8

\* An entry left by the eviction that is fresh is among the newest of all keys.
LEMMA StoreKeepsHeld ==
    ASSUME StoreInv, NEW k \in Keys, NEW v \in Values, Store(k, v)
    PROVE  ItemsInv'
<1>. DEFINE U == Unexpired(items \cup {k}, last')
<1> SUFFICES ASSUME NEW m \in items'
             PROVE  Stored(m)' /\ (Fresh(m)' => Cardinality(Newer(m)') < MaxEntries)
  BY DEF ItemsInv
<1>1. /\ last'[k] = [number |-> serial + 1, at |-> now, value |-> v]
      /\ \A n \in Keys \ {k} : last'[n] = last[n]
      /\ items' = Newest(U, last') /\ m \in items \cup {k}
  BY WrittenFacts
<1>2. StoreTypeOK /\ m \in Keys /\ serial \in Nat
  BY <1>1 DEF StoreInv, StoreTypeOK
<1>3. Stored(m)'
  <2>1. CASE m = k
    BY <1>1, <1>2, <2>1 DEF Stored
  <2>2. CASE m # k
    BY <1>1, <1>2, <2>2 DEF Stored, StoreInv, ItemsInv
  <2>. QED BY <2>1, <2>2
<1>4. ASSUME Fresh(m)'
      PROVE  Cardinality(Newer(m)') < MaxEntries
  <2>1. Newer(m)' \subseteq U
    BY <1>1, <1>4, FreshIsUnexpired
  <2>2. U \subseteq Keys
    BY <1>2 DEF Unexpired, StoreTypeOK
  <2>3. Newer(m)' = {n \in U : last'[n].number > last'[m].number}
    BY <2>1, <2>2 DEF Newer
  <2>. QED BY <1>1, <2>3 DEF Newest
<1>. QED BY <1>3, <1>4

\* A key the eviction forgets was not recent.
LEMMA StoreKeepsForgotten ==
    ASSUME StoreInv, NEW k \in Keys, NEW v \in Values, Store(k, v)
    PROVE  ForgottenInv'
<1>. DEFINE H == items \cup {k}
            U == Unexpired(H, last')
<1> SUFFICES ASSUME NEW m \in Keys, m \notin items'
             PROVE  ~Recent(m)'
  BY DEF ForgottenInv
<1>1. /\ now' = now /\ \A n \in Keys \ {k} : last'[n] = last[n]
      /\ items' = Newest(U, last')
  BY WrittenFacts
<1>2. H \subseteq Keys /\ U \subseteq Keys /\ Newer(m)' \subseteq Keys /\ Newer(m) \subseteq Keys
  BY DEF StoreInv, StoreTypeOK, Unexpired, Newer
<1>3. CASE m \notin H
  <2>1. ~Recent(m) /\ last'[m] = last[m]
    BY <1>1, <1>3 DEF StoreInv, ForgottenInv
  <2>2. Newer(m) \subseteq Newer(m)'
    BY <1>3, NewerAfterStore
  <2>3. Cardinality(Newer(m)') < MaxEntries => Cardinality(Newer(m)) < MaxEntries
    BY <1>2, <2>2, PartIsSmaller, StoreAssumption
  <2>. QED BY <1>1, <2>1, <2>3 DEF Recent, Stored, Fresh
<1>4. CASE m \in H /\ m \notin U
  BY <1>4, FreshIsUnexpired DEF Recent
<1>5. CASE m \in U
  <2>. DEFINE N == {n \in U : last'[n].number > last'[m].number}
  <2>1. ~(Cardinality(N) < MaxEntries)
    BY <1>1, <1>5 DEF Newest
  <2>2. N \subseteq Newer(m)'
    BY <1>2 DEF Newer
  <2>. HIDE DEF N
  <2>3. ~(Cardinality(Newer(m)') < MaxEntries)
    BY <1>2, <2>1, <2>2, PartIsSmaller, StoreAssumption
  <2>. QED BY <2>3 DEF Recent
<1>. QED BY <1>3, <1>4, <1>5

\* A store keeps the invariant.
LEMMA StoreKeepsInv ==
    ASSUME StoreInv, NEW k \in Keys, NEW v \in Values, Store(k, v)
    PROVE  StoreInv'
BY WrittenFacts, StoreKeepsOrder, StoreKeepsHeld, StoreKeepsForgotten DEF StoreInv

-----------------------------------------------------------------------------
(* The other actions, and the invariant.                                   *)

\* A lookup deletes only what has expired.
LEMMA LookupKeepsInv ==
    ASSUME StoreInv, NEW k \in Keys, Lookup(k)
    PROVE  StoreInv'
<1>1. /\ now' = now /\ serial' = serial /\ last' = last /\ items' \subseteq items
      /\ \A m \in items \ items' : ~Fresh(m)
  BY DEF Lookup
<1>2. StoreTypeOK'
  <2>1. \E v \in Values \cup {Miss} : Answer(k, v)
    <3>1. k \in items => Stored(k)
      BY DEF StoreInv, ItemsInv
    <3>. QED BY <3>1 DEF Lookup, StoreInv, StoreTypeOK, OrderInv
  <2>2. answer' \in Answers
    BY <2>1 DEF Answer, Answers, StoreInv, StoreTypeOK
  <2>. QED BY <1>1, <2>2 DEF StoreInv, StoreTypeOK
<1>3. OrderInv'
  BY <1>1 DEF StoreInv, OrderInv, Stored
<1>4. ItemsInv'
  BY <1>1 DEF StoreInv, ItemsInv, Stored, Fresh, Newer
<1>5. ForgottenInv'
  BY <1>1 DEF StoreInv, ForgottenInv, Recent, Stored, Fresh, Newer
<1>. QED BY <1>2, <1>3, <1>4, <1>5 DEF StoreInv

\* Time makes entries expire, never fresh again.
LEMMA TickKeepsInv ==
    ASSUME StoreInv, Tick
    PROVE  StoreInv'
<1>1. /\ now' = now + 1 /\ serial' = serial /\ last' = last /\ items' = items /\ answer' = answer
  BY DEF Tick, PromiseTick
<1>2. StoreTypeOK'
  BY <1>1 DEF StoreInv, StoreTypeOK
<1>3. OrderInv'
  BY <1>1 DEF StoreInv, OrderInv, Stored, StoreTypeOK, Stores
<1>4. \A m \in Keys : Fresh(m)' => Fresh(m)
  BY <1>1, StoreAssumption DEF Fresh, StoreInv, StoreTypeOK, Stores
<1>5. \A m \in Keys : Newer(m)' = Newer(m) /\ Stored(m)' = Stored(m)
  BY <1>1 DEF Newer, Stored
<1>6. ItemsInv'
  BY <1>1, <1>4, <1>5 DEF StoreInv, ItemsInv, StoreTypeOK
<1>7. ForgottenInv'
  BY <1>1, <1>4, <1>5 DEF StoreInv, ForgottenInv, Recent
<1>. QED BY <1>2, <1>3, <1>6, <1>7 DEF StoreInv

\* The invariant holds initially.
LEMMA InitInv == StoreInit => StoreInv
<1> SUFFICES ASSUME StoreInit PROVE StoreInv
  OBVIOUS
<1>1. /\ now = 0 /\ serial = 0 /\ items = {} /\ last = [k \in Keys |-> Never]
      /\ answer = [key |-> Miss, value |-> Miss, turn |-> 0]
  BY DEF StoreInit, PromiseInit
<1>2. Never \in Stores /\ Never.number = 0 /\ Never.at = 0
  BY DEF Never, Stores
<1>3. \A k \in Keys : last[k] = Never /\ ~Stored(k)
  BY <1>1, <1>2 DEF Stored
<1>4. StoreTypeOK
  BY <1>1, <1>2 DEF StoreTypeOK, Answers
<1>5. OrderInv
  BY <1>1, <1>2, <1>3 DEF OrderInv
<1>6. ItemsInv /\ ForgottenInv
  BY <1>1, <1>3 DEF ItemsInv, ForgottenInv, Recent
<1>. QED BY <1>4, <1>5, <1>6 DEF StoreInv

\* Every step keeps the invariant.
LEMMA NextKeepsInv ==
    ASSUME StoreInv, [StoreNext]_storeVars
    PROVE  StoreInv'
<1>1. CASE Tick
  BY <1>1, TickKeepsInv
<1>2. ASSUME NEW k \in Keys, Lookup(k)
      PROVE  StoreInv'
  BY <1>2, LookupKeepsInv
<1>3. ASSUME NEW k \in Keys, NEW v \in Values, Store(k, v)
      PROVE  StoreInv'
  BY <1>3, StoreKeepsInv
<1>4. CASE UNCHANGED storeVars
  BY <1>4 DEF StoreInv, StoreTypeOK, OrderInv, ItemsInv, ForgottenInv, Recent, Stored, Fresh,
     Newer, storeVars, promiseVars
<1>. QED BY <1>1, <1>2, <1>3, <1>4 DEF StoreNext

\* The inductive invariant of the store holds in every reachable state: what is
\* forgotten was not recent, what is held and fresh is among the newest.
THEOREM StoreInvariance == StoreSpec => []StoreInv
<1>1. StoreInit => StoreInv
  BY InitInv
<1>2. StoreInv /\ [StoreNext]_storeVars => StoreInv'
  BY NextKeepsInv
<1>. QED BY <1>1, <1>2, PTL DEF StoreSpec

-----------------------------------------------------------------------------
(* What the invariant gives.                                               *)

\* The second loop of the eviction leaves at most MaxEntries entries: the number
\* of newer entries tells any two of them apart.
LEMMA NewestAreFew ==
    ASSUME NEW S \in SUBSET Keys, NEW at \in [Keys -> Stores],
           \A k, m \in S : at[k].number = at[m].number => k = m
    PROVE  Cardinality(Newest(S, at)) <= MaxEntries
<1>. DEFINE N == Newest(S, at)
            behind(k) == {m \in S : at[m].number > at[k].number}
            rank == [k \in N |-> Cardinality(behind(k))]
<1>1. \A k \in S : at[k].number \in Nat
  BY DEF Stores
<1>2. \A k \in N : k \in S /\ behind(k) \in SUBSET S /\ rank[k] = Cardinality(behind(k))
  BY DEF Newest
<1>3. \A k \in N : rank[k] \in 0..(MaxEntries - 1)
  <2>1. \A k \in N : rank[k] \in Nat /\ rank[k] < MaxEntries
    BY <1>2, PartIsSmaller DEF Newest
  <2>. QED BY <2>1, StoreAssumption
<1>4. ASSUME NEW k \in N, NEW m \in N, at[k].number < at[m].number
      PROVE  rank[k] # rank[m]
  <2>1. behind(m) \cup {m} \subseteq behind(k)
    BY <1>1, <1>2, <1>4
  <2>2. m \notin behind(m)
    BY <1>1, <1>2
  <2>3. IsFiniteSet(behind(m)) /\ Cardinality(behind(m)) \in Nat
    BY <1>2, StoreAssumption, FS_Subset, FS_CardinalityType
  <2>4. Cardinality(behind(m) \cup {m}) = Cardinality(behind(m)) + 1
    BY <2>2, <2>3, FS_AddElement
  <2>5. Cardinality(behind(m) \cup {m}) <= Cardinality(behind(k)) /\ Cardinality(behind(k)) \in Nat
    BY <1>2, <2>1, PartIsSmaller
  <2>. HIDE DEF behind
  <2>. QED BY <1>2, <2>3, <2>4, <2>5
<1>5. rank \in Injection(N, 0..(MaxEntries - 1))
  <2>1. \A k, m \in N : rank[k] = rank[m] => k = m
    <3> SUFFICES ASSUME NEW k \in N, NEW m \in N, rank[k] = rank[m]
                 PROVE  k = m
      OBVIOUS
    <3>1. ~(at[k].number < at[m].number) /\ ~(at[m].number < at[k].number)
      BY <1>4
    <3>2. at[k].number = at[m].number
      BY <1>1, <1>2, <3>1
    <3>. QED BY <1>2, <3>2
  <2>2. rank \in [N -> 0..(MaxEntries - 1)]
    BY <1>3
  <2>. HIDE DEF rank, N
  <2>. QED BY <2>1, <2>2 DEF Injection, IsInjective
<1>6. IsFiniteSet(0..(MaxEntries - 1)) /\ Cardinality(0..(MaxEntries - 1)) = MaxEntries
  BY StoreAssumption, FS_Interval
<1>. HIDE DEF rank, N
<1>7. Cardinality(N) <= MaxEntries
  BY <1>5, <1>6, FS_Injection
<1>. QED BY <1>7 DEF N

\* A step keeps the size bounded.
LEMMA NextKeepsSize ==
    ASSUME StoreInv, SizeBounded, [StoreNext]_storeVars
    PROVE  SizeBounded'
<1>0. StoreTypeOK /\ IsFiniteSet(items)
  BY StoreAssumption, FS_Subset DEF StoreInv, StoreTypeOK
<1>1. CASE items' \subseteq items
  <2>1. Cardinality(items') <= Cardinality(items) /\ Cardinality(items') \in Nat /\ Cardinality(items) \in Nat
    BY <1>0, <1>1, PartIsSmaller DEF StoreTypeOK
  <2>. QED BY <2>1, StoreAssumption DEF SizeBounded
<1>2. ASSUME NEW k \in Keys, NEW v \in Values, Store(k, v)
      PROVE  SizeBounded'
  <2>. DEFINE U == Unexpired(items \cup {k}, last')
  <2>1. items' = Newest(U, last') /\ last' \in [Keys -> Stores]
    BY <1>2, WrittenFacts
  <2>2. U \subseteq items \cup {k} /\ U \subseteq Keys
    BY <1>0 DEF Unexpired, StoreTypeOK
  <2>3. ItemsInv /\ OrderInv'
    BY <1>2, StoreKeepsOrder DEF StoreInv
  <2>4. /\ serial \in Nat /\ \A m \in Keys \ {k} : last'[m] = last[m]
        /\ last'[k] = [number |-> serial + 1, at |-> now, value |-> v]
    BY <1>0, <1>2, WrittenFacts DEF StoreTypeOK
  <2>. HIDE DEF U
  <2>5. ASSUME NEW m \in U
        PROVE  Stored(m)'
    <3>1. last'[k].number > 0
      BY <2>4
    <3>2. m \in items \ {k} => last'[m].number > 0
      BY <1>0, <2>3, <2>4 DEF ItemsInv, Stored, StoreTypeOK
    <3>. QED BY <2>2, <3>1, <3>2 DEF Stored
  <2>6. \A m, n \in U : last'[m].number = last'[n].number => m = n
    BY <2>2, <2>3, <2>5 DEF OrderInv
  <2>. QED BY <2>1, <2>2, <2>6, NewestAreFew DEF SizeBounded
<1>3. items' \subseteq items \/ \E k \in Keys, v \in Values : Store(k, v)
  BY DEF StoreNext, Tick, Lookup, storeVars
<1>. QED BY <1>1, <1>2, <1>3

\* The dict never holds more than MaxEntries entries.
THEOREM StoreIsBounded == StoreSpec => []SizeBounded
<1>1. StoreInit => SizeBounded
  BY FS_EmptySet, StoreAssumption DEF StoreInit, SizeBounded
<1>2. StoreInv /\ SizeBounded /\ [StoreNext]_storeVars => SizeBounded'
  BY NextKeepsSize
<1>. QED BY <1>1, <1>2, StoreInvariance, PTL DEF StoreSpec

\* Although eviction stops at the first unexpired entry, it leaves no expired one.
THEOREM EvictionIsComplete == StoreSpec => StoreLeavesOnlyFresh
<1>. DEFINE A == serial' # serial => \A k \in items' : now - last'[k].at <= Ttl
<1>1. StoreInv /\ [StoreNext]_storeVars => [A]_storeVars
  <2> SUFFICES ASSUME StoreInv, [StoreNext]_storeVars, serial' # serial, NEW m \in items'
               PROVE  now - last'[m].at <= Ttl
    OBVIOUS
  <2>1. PICK k \in Keys, v \in Values : Store(k, v)
    BY DEF StoreNext, Tick, PromiseTick, Lookup, storeVars, promiseVars
  <2>2. /\ items' = Newest(Unexpired(items \cup {k}, last'), last')
        /\ last' \in [Keys -> Stores] /\ OrderInv' /\ ItemsInv
        /\ last'[k] = [number |-> serial + 1, at |-> now, value |-> v]
        /\ \A n \in Keys \ {k} : last'[n] = last[n]
        /\ StoreTypeOK
    BY <2>1, WrittenFacts, StoreKeepsOrder DEF StoreInv
  <2>3. PICK n \in items \cup {k} : last'[n].number <= last'[m].number /\ now - last'[n].at <= Ttl
    BY <2>2 DEF Newest, Unexpired
  <2>4. m \in Keys /\ n \in Keys
    BY <2>2 DEF StoreTypeOK, Newest, Unexpired
  <2>5. Stored(n)'
    BY <2>2, <2>4 DEF ItemsInv, Stored, StoreTypeOK
  <2>6. last'[n].at <= last'[m].at
    BY <2>2, <2>3, <2>4, <2>5 DEF OrderInv
  <2>7. last'[n].at \in Nat /\ last'[m].at \in Nat /\ now \in Nat
    BY <2>2, <2>4 DEF Stores, StoreTypeOK
  <2>. QED BY <2>3, <2>6, <2>7, StoreAssumption
<1>. QED BY <1>1, StoreInvariance, PTL DEF StoreSpec, StoreLeavesOnlyFresh

\* A lookup answers as the promise says, although it only sees the dict.
LEMMA LookupKeepsPromise ==
    ASSUME StoreInv, NEW k \in Keys, Lookup(k)
    PROVE  PromiseLookup(k)
<1>1. (k \in items /\ Fresh(k)) <=> Recent(k)
  BY DEF StoreInv, ItemsInv, ForgottenInv, Recent
<1>. QED BY <1>1 DEF Lookup, PromiseLookup

\* The store with its evictions implements the promise: evictions are never seen.
THEOREM StoreImplementsPromise == StoreSpec => StoreKeepsPromise
<1>1. StoreInit => PromiseInit
  BY DEF StoreInit
<1>2. StoreInv /\ [StoreNext]_storeVars => [PromiseNext]_promiseVars
  <2> SUFFICES ASSUME StoreInv, [StoreNext]_storeVars
               PROVE  [PromiseNext]_promiseVars
    OBVIOUS
  <2>1. CASE Tick
    BY <2>1 DEF Tick, PromiseNext
  <2>2. ASSUME NEW k \in Keys, Lookup(k)
        PROVE  PromiseNext
    BY <2>2, LookupKeepsPromise DEF PromiseNext
  <2>3. ASSUME NEW k \in Keys, NEW v \in Values, Store(k, v)
        PROVE  PromiseNext
    BY <2>3 DEF Store, PromiseStore, PromiseNext
  <2>4. CASE UNCHANGED storeVars
    BY <2>4 DEF storeVars
  <2>. QED BY <2>1, <2>2, <2>3, <2>4 DEF StoreNext
<1>. QED BY <1>1, <1>2, StoreInvariance, PTL DEF StoreSpec, StoreKeepsPromise, PromiseSpec

-----------------------------------------------------------------------------
(* Sums over finite sets.                                                  *)

\* A set of parts of a finite set has a member none of whose proper parts is in it.
LEMMA SmallestPart ==
    ASSUME NEW U, IsFiniteSet(U), NEW T \in SUBSET (SUBSET U), T # {}
    PROVE  \E s \in T : \A p \in T : ~(p \subseteq s /\ p # s)
<1>1. IsWellFoundedOn(StrictSubsetOrdering(U), FiniteSubsetsOf(U))
  BY FS_StrictSubsetOrderingWellFounded
<1>2. T \subseteq FiniteSubsetsOf(U)
  BY FS_FiniteSubsetsOfFinite
<1>3. PICK s \in T : \A p \in T : <<p, s>> \notin StrictSubsetOrdering(U)
  BY <1>1, <1>2, WFMin
<1>. QED BY <1>3 DEF StrictSubsetOrdering

\* The element the folds of the community modules take out of a set first.
Pick(s) == CHOOSE x \in s : TRUE

\* g sums f up over the parts of U, the way the folds of the community modules do.
Sums(g, f, U) ==
    g = [s \in SUBSET U |-> IF s = {} THEN 0 ELSE f[Pick(s)] + g[s \ {Pick(s)}]]

\* Such a function, and the sum of f over all of U.
SumsOf(f, U) == CHOOSE g : Sums(g, f, U)

SumOf(f, U) == SumsOf(f, U)[U]

\* It is one of the set.
LEMMA PickIsElement ==
    ASSUME NEW s, s # {}
    PROVE  Pick(s) \in s
BY DEF Pick

\* Two such functions agree where they sum the same.
LEMMA SumsAgree ==
    ASSUME NEW U, IsFiniteSet(U), NEW V, U \subseteq V, NEW f, NEW e, \A x \in U : f[x] = e[x],
           NEW g, Sums(g, f, U), NEW h, Sums(h, e, V)
    PROVE  \A s \in SUBSET U : g[s] = h[s]
<1>. DEFINE T == {s \in SUBSET U : g[s] # h[s]}
<1>1. SUFFICES ASSUME T # {} PROVE FALSE
  OBVIOUS
<1>2. PICK s \in T : \A p \in T : ~(p \subseteq s /\ p # s)
  <2>1. T \in SUBSET (SUBSET U)
    OBVIOUS
  <2>. HIDE DEF T
  <2>. QED BY <1>1, <2>1, SmallestPart
<1>3. g[s] = IF s = {} THEN 0 ELSE f[Pick(s)] + g[s \ {Pick(s)}]
  BY <1>2 DEF Sums
<1>4. h[s] = IF s = {} THEN 0 ELSE e[Pick(s)] + h[s \ {Pick(s)}]
  BY <1>2 DEF Sums
<1>5. s # {} /\ Pick(s) \in s
  BY <1>2, <1>3, <1>4, PickIsElement
<1>6. s \ {Pick(s)} \notin T /\ s \ {Pick(s)} \subseteq U
  BY <1>2, <1>5
<1>. QED BY <1>2, <1>3, <1>4, <1>5, <1>6

\* Over every finite set there is one: it is made of those over the smaller sets.
LEMMA SumsExist ==
    ASSUME NEW U, IsFiniteSet(U), NEW f
    PROVE  Sums(SumsOf(f, U), f, U)
<1>. DEFINE T == {V \in SUBSET U : ~\E g : Sums(g, f, V)}
<1>1. SUFFICES ASSUME T # {} PROVE FALSE
  BY DEF SumsOf
<1>2. PICK V \in T : \A p \in T : ~(p \subseteq V /\ p # V)
  <2>1. T \in SUBSET (SUBSET U)
    OBVIOUS
  <2>. HIDE DEF T
  <2>. QED BY <1>1, <2>1, SmallestPart
<1>3. ASSUME NEW W, W \subseteq V, W # V
      PROVE  IsFiniteSet(W) /\ Sums(SumsOf(f, W), f, W)
  BY <1>2, <1>3, FS_Subset DEF SumsOf
<1>. DEFINE Rest(s) == s \ {Pick(s)}
            g == [s \in SUBSET V |-> IF s = {} THEN 0 ELSE f[Pick(s)] + SumsOf(f, Rest(s))[Rest(s)]]
<1>4. ASSUME NEW W, W \subseteq V, W # V
      PROVE  g[W] = SumsOf(f, W)[W]
  <2>1. SumsOf(f, W)[W] = IF W = {} THEN 0 ELSE f[Pick(W)] + SumsOf(f, W)[Rest(W)]
    BY <1>3, <1>4 DEF Sums
  <2>2. CASE W # {}
    <3>1. Rest(W) \subseteq W /\ Rest(W) # V /\ Rest(W) \subseteq V
      BY <1>4
    <3>2. SumsOf(f, Rest(W))[Rest(W)] = SumsOf(f, W)[Rest(W)]
      <4>1. /\ IsFiniteSet(Rest(W)) /\ Sums(SumsOf(f, Rest(W)), f, Rest(W))
            /\ Sums(SumsOf(f, W), f, W)
        BY <1>3, <1>4, <3>1
      <4>. HIDE DEF Rest
      <4>. QED BY <3>1, <4>1, SumsAgree
    <3>. QED BY <1>4, <2>1, <3>2
  <2>. QED BY <1>4, <2>1, <2>2
<1>5. ASSUME NEW s \in SUBSET V
      PROVE  g[s] = IF s = {} THEN 0 ELSE f[Pick(s)] + g[Rest(s)]
  <2>1. CASE s # {}
    <3>1. Rest(s) \subseteq V /\ Rest(s) # V
      BY <2>1, PickIsElement
    <3>. QED BY <1>4, <2>1, <3>1
  <2>. QED BY <2>1
<1>6. Sums(g, f, V)
  BY <1>5 DEF Sums
<1>. QED BY <1>2, <1>6

\* The sum of f over a finite set, element by element.
LEMMA SumStep ==
    ASSUME NEW U, IsFiniteSet(U), NEW f
    PROVE  SumOf(f, U) = IF U = {} THEN 0 ELSE f[Pick(U)] + SumOf(f, U \ {Pick(U)})
<1>1. SumOf(f, U) = IF U = {} THEN 0 ELSE f[Pick(U)] + SumsOf(f, U)[U \ {Pick(U)}]
  <2>1. Sums(SumsOf(f, U), f, U) /\ U \in SUBSET U
    BY SumsExist
  <2>. QED BY <2>1 DEF Sums, SumOf
<1>2. IsFiniteSet(U \ {Pick(U)})
  BY FS_Subset
<1>3. SumsOf(f, U)[U \ {Pick(U)}] = SumOf(f, U \ {Pick(U)})
  <2>1. /\ Sums(SumsOf(f, U), f, U)
        /\ Sums(SumsOf(f, U \ {Pick(U)}), f, U \ {Pick(U)})
    BY <1>2, SumsExist
  <2>. QED BY <1>2, <2>1, SumsAgree DEF SumOf
<1>. QED BY <1>1, <1>3

\* Functions that agree on a set have one sum over it.
LEMMA SumsSame ==
    ASSUME NEW U, IsFiniteSet(U), NEW f, NEW e, \A x \in U : f[x] = e[x]
    PROVE  SumOf(f, U) = SumOf(e, U)
BY SumsExist, SumsAgree DEF SumOf

\* A sum of integers is an integer.
LEMMA SumIsInteger ==
    ASSUME NEW U, IsFiniteSet(U), NEW f, \A x \in U : f[x] \in Int
    PROVE  SumOf(f, U) \in Int
<1>. DEFINE T == {s \in SUBSET U : SumOf(f, s) \notin Int}
<1>1. SUFFICES ASSUME T # {} PROVE FALSE
  OBVIOUS
<1>2. PICK s \in T : \A p \in T : ~(p \subseteq s /\ p # s)
  <2>1. T \in SUBSET (SUBSET U)
    OBVIOUS
  <2>. HIDE DEF T
  <2>. QED BY <1>1, <2>1, SmallestPart
<1>3. IsFiniteSet(s)
  BY <1>2, FS_Subset
<1>4. SumOf(f, s) = IF s = {} THEN 0 ELSE f[Pick(s)] + SumOf(f, s \ {Pick(s)})
  BY <1>3, SumStep
<1>5. s # {} /\ Pick(s) \in s
  BY <1>2, <1>4, PickIsElement
<1>6. SumOf(f, s \ {Pick(s)}) \in Int
  BY <1>2, <1>5
<1>. QED BY <1>2, <1>4, <1>5, <1>6

\* It does not matter which element comes first.
LEMMA SumRemoves ==
    ASSUME NEW U, IsFiniteSet(U), NEW f, \A x \in U : f[x] \in Int, NEW x \in U
    PROVE  SumOf(f, U) = f[x] + SumOf(f, U \ {x})
<1>. DEFINE T == {s \in SUBSET U : \E y \in s : SumOf(f, s) # f[y] + SumOf(f, s \ {y})}
<1>1. SUFFICES ASSUME T # {} PROVE FALSE
  OBVIOUS
<1>2. PICK s \in T : \A p \in T : ~(p \subseteq s /\ p # s)
  <2>1. T \in SUBSET (SUBSET U)
    OBVIOUS
  <2>. HIDE DEF T
  <2>. QED BY <1>1, <2>1, SmallestPart
<1>3. PICK y \in s : SumOf(f, s) # f[y] + SumOf(f, s \ {y})
  BY <1>2
<1>. DEFINE z == Pick(s)
            rest == s \ {y, z}
<1>4. z \in s /\ IsFiniteSet(s) /\ IsFiniteSet(rest)
  BY <1>2, <1>3, PickIsElement, FS_Subset
<1>5. SumOf(f, s) = f[z] + SumOf(f, s \ {z})
  BY <1>3, <1>4, SumStep
<1>6. y # z
  BY <1>3, <1>5
<1>7. s \ {z} \notin T /\ s \ {y} \notin T
  BY <1>2, <1>3, <1>4
<1>8. SumOf(f, s \ {z}) = f[y] + SumOf(f, rest)
  <2>1. (s \ {z}) \ {y} = rest /\ y \in s \ {z} /\ s \ {z} \in SUBSET U
    BY <1>2, <1>3, <1>6
  <2>. QED BY <1>7, <2>1
<1>9. SumOf(f, s \ {y}) = f[z] + SumOf(f, rest)
  <2>1. (s \ {y}) \ {z} = rest /\ z \in s \ {y} /\ s \ {y} \in SUBSET U
    BY <1>2, <1>4, <1>6
  <2>. QED BY <1>7, <2>1
<1>10. SumOf(f, rest) \in Int /\ f[y] \in Int /\ f[z] \in Int
  BY <1>2, <1>3, <1>4, SumIsInteger
<1>. QED BY <1>3, <1>5, <1>8, <1>9, <1>10

\* The tokens of rows are such a sum.
LEMMA TokensAreSum ==
    ASSUME NEW U, IsFiniteSet(U)
    PROVE  TokensOf(U) = SumOf([row \in U |-> row.tokens], U)
<1>. DEFINE f == [row \in U |-> row.tokens]
            A(g) == [s \in SUBSET U |-> IF s = {} THEN 0 ELSE Pick(s).tokens + g[s \ {Pick(s)}]]
            B(g) == [s \in SUBSET U |-> IF s = {} THEN 0 ELSE f[Pick(s)] + g[s \ {Pick(s)}]]
<1>1. \A g : A(g) = B(g)
  BY PickIsElement
<1>2. TokensOf(U) = (CHOOSE g : g = A(g))[U]
  BY DEF TokensOf, MapThenSumSet, MapThenFoldSet, Pick
<1>3. (CHOOSE g : g = A(g)) = (CHOOSE g : g = B(g))
  BY <1>1
<1>. QED BY <1>2, <1>3 DEF SumOf, SumsOf, Sums

-----------------------------------------------------------------------------
(* The invariant of the log.                                               *)

\* The cutoff of the retention is an hour.
LEMMA RetentionIsInteger == Hours(RetentionDays) \in Int
BY LogAssumption DEF Hours

\* The invariant holds initially.
LEMMA RowsBegun == LogInit => RowsInv
<1>. SUFFICES ASSUME LogInit PROVE RowsInv
  OBVIOUS
<1>1. storageError \in BOOLEAN
  BY DEF LogInit
<1>. QED
  BY <1>1, LogAssumption, FS_EmptySet DEF LogInit, RowsInv, LogTypeOK, RowsAreFinished,
     OpenTransactionShows

\* A prune keeps rows that were there, and those it deletes are too old.
LEMMA PruningIsDue ==
    ASSUME RowsInv, NEW rows \in SUBSET finished
    PROVE  /\ Kept(rows) \subseteq rows
           /\ \A row \in rows \ Kept(rows) : row.ts < hour - Hours(RetentionDays)
BY RetentionIsInteger DEF RowsInv, LogTypeOK, RowsAreFinished, OpenTransactionShows, Kept

\* Every step keeps the invariant: what a failed write leaves in the open transaction
\* is a row that finished, or the lack of one that is too old.
LEMMA RowsKeepInv ==
    ASSUME RowsInv, [LogNext]_logVars
    PROVE  RowsInv'
<1>. USE DEF memVars, dbVars, lifeVars
<1>0. storageError' \in BOOLEAN
  BY DEF RowsInv, LogTypeOK, LogNext, logVars, OpenStore, OpenStoreFails, FinishRequest, Record,
     WriteOk, WriteFails, PruneDaily, Prune, LifespanEnds, ProcessEnds, AskDashboard, RunQuery,
     QueryFails, QueryInert, SendAnswer, HourPasses
<1>1. CASE OpenStore
  <2>1. /\ Kept(durable) \subseteq finished
        /\ \A row \in durable \ Kept(durable) : row.ts < hour - Hours(RetentionDays)
    BY PruningIsDue DEF RowsInv, RowsAreFinished
  <2>2. LogTypeOK' /\ RowsAreFinished'
    BY <1>0, <1>1, <2>1, LogAssumption DEF OpenStore, WriteOk, WriteFails, RowsInv, LogTypeOK,
       RowsAreFinished, OpenTransactionShows
  <2>3. OpenTransactionShows'
    BY <1>1, <2>1 DEF OpenStore, WriteOk, WriteFails, RowsInv, LogTypeOK, RowsAreFinished,
       OpenTransactionShows
  <2>. QED BY <2>2, <2>3 DEF RowsInv
<1>2. CASE OpenStoreFails
  BY <1>0, <1>2, LogAssumption DEF OpenStoreFails, RowsInv, LogTypeOK, RowsAreFinished,
     OpenTransactionShows
<1>3. CASE PruneDaily
  <2>1. /\ Kept(seen) \subseteq finished
        /\ \A row \in seen \ Kept(seen) : row.ts < hour - Hours(RetentionDays)
    BY PruningIsDue DEF RowsInv, RowsAreFinished
  <2>2. LogTypeOK' /\ RowsAreFinished'
    BY <1>0, <1>3, <2>1, LogAssumption DEF PruneDaily, Prune, WriteOk, WriteFails, RowsInv,
       LogTypeOK, RowsAreFinished, OpenTransactionShows
  <2>3. OpenTransactionShows'
    BY <1>3, <2>1 DEF PruneDaily, Prune, WriteOk, WriteFails, RowsInv, LogTypeOK,
       RowsAreFinished, OpenTransactionShows
  <2>. QED BY <2>2, <2>3 DEF RowsInv
<1>4. CASE LifespanEnds
  BY <1>0, <1>4, LogAssumption DEF LifespanEnds, RowsInv, LogTypeOK, RowsAreFinished,
     OpenTransactionShows
<1>5. CASE ProcessEnds
  BY <1>0, <1>5, LogAssumption, FS_EmptySet DEF ProcessEnds, RowsInv, LogTypeOK,
     RowsAreFinished, OpenTransactionShows
<1>6. ASSUME NEW r \in Routed, NEW k \in Kinds, FinishRequest(r, k)
      PROVE  RowsInv'
  <2>1. RowOf(r, k).id = r /\ RowOf(r, k).ts = hour
    BY DEF RowOf
  <2>2. IsFiniteSet(finished')
    BY <1>6, FS_AddElement DEF FinishRequest, RowsInv, RowsAreFinished
  <2>3. \A row \in mine' : row.tokens \in Nat
    BY <1>6, LogAssumption DEF FinishRequest, RowOf, RowsInv, RowsAreFinished
  <2>. QED
    BY <1>0, <1>6, <2>1, <2>2, <2>3 DEF FinishRequest, Record, WriteOk, WriteFails, RowsInv,
       LogTypeOK, RowsAreFinished, OpenTransactionShows
<1>7. CASE (\E ask \in Asks : AskDashboard(ask)) \/ RunQuery \/ QueryFails \/ QueryInert \/ SendAnswer
  BY <1>0, <1>7 DEF AskDashboard, RunQuery, QueryFails, QueryInert, SendAnswer, RowsInv,
     LogTypeOK, RowsAreFinished, OpenTransactionShows
<1>8. CASE HourPasses
  BY <1>8, RetentionIsInteger DEF HourPasses, RowsInv, LogTypeOK, RowsAreFinished,
     OpenTransactionShows
<1>9. CASE UNCHANGED logVars
  BY <1>9 DEF logVars, RowsInv, LogTypeOK, RowsAreFinished, OpenTransactionShows
<1>. QED BY <1>1, <1>2, <1>3, <1>4, <1>5, <1>6, <1>7, <1>8, <1>9 DEF LogNext

\* A query reads rows of finished requests, and what it reads differs from the first
\* query's by requests that finished since, or that is noted.
LEMMA ReadKeepsAnswer ==
    ASSUME RowsInv, AnswerInv, Querying, NEW rows \in SUBSET finished,
           NEW failed \in BOOLEAN, ReadBy(rows, failed),
           UNCHANGED <<hour, finished>>
    PROVE  AnswerInv'
<1>1. /\ dash \notin {Idle, Sent} /\ dash.step \in 0..(Queries - 1)
      /\ Queries \in Nat
  BY LogAssumption DEF Querying, Idle, Sent
<1>. DEFINE Dashes == [step : 0..Queries, askedAt : Int, known : SUBSET finished,
                       window : {ResolveWindow(ask, dash.askedAt) : ask \in Asks} \ {Refused},
                       first : SUBSET finished, latest : SUBSET finished,
                       failed : BOOLEAN, shifted : BOOLEAN]
            shift == \/ dash.shifted
                     \/ ~(dash.latest \subseteq rows)
                     \/ dash.step > 0 /\ (rows \ dash.latest) \cap dash.known # {}
<1>2. /\ dash \in Dashes
      /\ dash.askedAt <= hour
      /\ \A row \in finished \ dash.known : row.ts >= dash.askedAt
      /\ dash.step = 0 => dash.first = {} /\ dash.latest = {}
      /\ ~dash.shifted => /\ dash.first \subseteq dash.latest
                          /\ (dash.latest \ dash.first) \cap dash.known = {}
  BY <1>1 DEF AnswerInv
<1>3. dash' = [step |-> dash.step + 1, askedAt |-> dash.askedAt, known |-> dash.known,
               window |-> dash.window,
               first |-> IF dash.step = 0 THEN rows ELSE dash.first, latest |-> rows,
               failed |-> dash.failed \/ failed, shifted |-> shift]
  BY <1>2 DEF ReadBy
<1>4. /\ dash'.step = dash.step + 1 /\ dash'.askedAt = dash.askedAt
      /\ dash'.known = dash.known /\ dash'.window = dash.window
      /\ dash'.first = (IF dash.step = 0 THEN rows ELSE dash.first) /\ dash'.latest = rows
  BY <1>3
<1>5. dash'.shifted <=> shift
  BY <1>3
<1>6. dash' \in Dashes'
  BY <1>1, <1>2, <1>3, <1>4
<1>7. ~shift => /\ dash'.first \subseteq dash'.latest
                /\ (dash'.latest \ dash'.first) \cap dash'.known = {}
  BY <1>1, <1>2, <1>4
<1>. HIDE DEF shift
<1>. QED BY <1>1, <1>2, <1>4, <1>5, <1>6, <1>7 DEF AnswerInv

\* What is read for an answer keeps its invariant while rows finish and time passes.
LEMMA AnswerKeepsInv ==
    ASSUME RowsInv, AnswerInv, [LogNext]_logVars
    PROVE  AnswerInv'
<1>. USE DEF memVars, dbVars, lifeVars
<1>1. ASSUME NEW ask \in Asks, AskDashboard(ask)
      PROVE  AnswerInv'
  BY <1>1, LogAssumption DEF AskDashboard, AnswerInv, RowsInv, LogTypeOK
<1>2. CASE RunQuery
  BY <1>2, ReadKeepsAnswer DEF RunQuery, RowsInv, RowsAreFinished
<1>3. CASE QueryFails \/ QueryInert
  BY <1>3, ReadKeepsAnswer DEF QueryFails, QueryInert
<1>4. CASE SendAnswer
  BY <1>4 DEF SendAnswer, AnswerInv
<1>5. CASE ProcessEnds
  BY <1>5 DEF ProcessEnds, AnswerInv
<1>6. ASSUME NEW r \in Routed, NEW k \in Kinds, FinishRequest(r, k)
      PROVE  AnswerInv'
  <2>1. RowOf(r, k).ts = hour /\ hour \in Int
    BY DEF RowOf, RowsInv, LogTypeOK
  <2>. QED BY <1>6, <2>1 DEF FinishRequest, AnswerInv
<1>7. CASE HourPasses
  BY <1>7 DEF HourPasses, AnswerInv, RowsInv, LogTypeOK
<1>8. CASE UNCHANGED <<hour, finished, dash>>
  BY <1>8 DEF AnswerInv
<1>. QED
  BY <1>1, <1>2, <1>3, <1>4, <1>5, <1>6, <1>7, <1>8 DEF LogNext, OpenStore, OpenStoreFails,
     PruneDaily, LifespanEnds, logVars

\* In every reachable state of the log, its inductive invariant.
THEOREM LogInvariance == LogSpec => []LogInv
<1>1. LogInit => LogInv
  BY RowsBegun DEF LogInit, LogInv, AnswerInv
<1>2. LogInv /\ [LogNext]_logVars => LogInv'
  BY RowsKeepInv, AnswerKeepsInv DEF LogInv
<1>. QED BY <1>1, <1>2, PTL DEF LogSpec

\* What SQLite has committed is given up only for its age.
THEOREM LogIsKept == LogSpec => LogOnlyAges
<1>1. ASSUME RowsInv, [LogNext]_logVars
      PROVE  [\A row \in durable \ durable' : row.ts < hour - Hours(RetentionDays)]_logVars
  <2>1. CASE UNCHANGED durable
    BY <2>1
  <2>2. CASE OpenStore \/ PruneDaily
    BY <1>1, <2>2, PruningIsDue DEF OpenStore, PruneDaily, Prune, WriteOk, WriteFails, RowsInv,
       LogTypeOK, RowsAreFinished, OpenTransactionShows
  <2>3. ASSUME NEW r \in Routed, NEW k \in Kinds, FinishRequest(r, k)
        PROVE  \A row \in durable \ durable' : row.ts < hour - Hours(RetentionDays)
    BY <1>1, <2>3 DEF FinishRequest, Record, WriteOk, WriteFails, RowsInv, LogTypeOK,
       RowsAreFinished, OpenTransactionShows
  <2>4. CASE UNCHANGED logVars
    BY <2>4
  <2>. QED
    BY <1>1, <2>1, <2>2, <2>3, <2>4 DEF LogNext, OpenStoreFails, LifespanEnds, ProcessEnds,
       AskDashboard, RunQuery, QueryFails, QueryInert, SendAnswer, HourPasses, dbVars
<1>. QED BY <1>1, LogInvariance, PTL DEF LogSpec, LogInv, LogOnlyAges

-----------------------------------------------------------------------------
(* The counters in memory and the statistics of the log.                   *)

\* The tokens of no rows, and of one more.
LEMMA TokensAdd ==
    ASSUME NEW S, IsFiniteSet(S), NEW x, x \notin S, x.tokens \in Nat,
           \A row \in S : row.tokens \in Nat
    PROVE  TokensOf(S \cup {x}) = TokensOf(S) + x.tokens /\ TokensOf(S) \in Int
<1>. DEFINE f == [row \in S |-> row.tokens]
            e == [row \in S \cup {x} |-> row.tokens]
<1>1. IsFiniteSet(S \cup {x})
  BY FS_AddElement
<1>2. TokensOf(S) = SumOf(f, S) /\ TokensOf(S \cup {x}) = SumOf(e, S \cup {x})
  BY <1>1, TokensAreSum
<1>3. SumOf(e, S \cup {x}) = e[x] + SumOf(e, S)
  <2>1. (S \cup {x}) \ {x} = S /\ x \in S \cup {x} /\ \A row \in S \cup {x} : e[row] \in Int
    OBVIOUS
  <2>. HIDE DEF e
  <2>. QED BY <1>1, <2>1, SumRemoves
<1>4. SumOf(e, S) = SumOf(f, S)
  <2>1. \A row \in S : e[row] = f[row]
    OBVIOUS
  <2>. HIDE DEF e, f
  <2>. QED BY <2>1, SumsSame
<1>5. SumOf(f, S) \in Int
  <2>1. \A row \in S : f[row] \in Int
    OBVIOUS
  <2>. HIDE DEF f
  <2>. QED BY <2>1, SumIsInteger
<1>. HIDE DEF f
<1>6. e[x] = x.tokens
  OBVIOUS
<1>. HIDE DEF e
<1>. QED BY <1>2, <1>3, <1>4, <1>5, <1>6

\* No rows have no tokens.
LEMMA NoTokens == TokensOf({}) = 0
BY FS_EmptySet, TokensAreSum, SumStep

\* What the rows count of no requests, and of one more.
LEMMA CountersOfNone == Counters({}) = NoStats
BY NoTokens, FS_EmptySet DEF Counters, NoStats

LEMMA CountersAdd ==
    ASSUME NEW S, IsFiniteSet(S), \A row \in S : row.tokens \in Nat,
           NEW r, NEW k \in Kinds, RowOf(r, k) \notin S
    PROVE  Counters(S \cup {RowOf(r, k)}) = Counted(Counters(S), k)
<1>. DEFINE x == RowOf(r, k)
<1>1. /\ x.error = k.error /\ x.status = k.status /\ x.rejected = k.rejected
      /\ x.priced = k.priced /\ x.tokens = k.tokens /\ x.tokens \in Nat
  BY LogAssumption DEF RowOf
<1>2. IsError(x) <=> Failed(k)
  BY <1>1 DEF IsError, Failed
<1>. HIDE DEF x
<1>3. Cardinality(S \cup {x}) = Cardinality(S) + 1
  BY FS_AddElement DEF x
<1>4. Cardinality({row \in S \cup {x} : IsError(row)}) =
         IF Failed(k) THEN Cardinality({row \in S : IsError(row)}) + 1
         ELSE Cardinality({row \in S : IsError(row)})
  <2>1. IsFiniteSet({row \in S : IsError(row)}) /\ x \notin {row \in S : IsError(row)}
    BY FS_Subset DEF x
  <2>2. {row \in S \cup {x} : IsError(row)} =
           IF Failed(k) THEN {row \in S : IsError(row)} \cup {x} ELSE {row \in S : IsError(row)}
    BY <1>2
  <2>. QED BY <2>1, <2>2, FS_AddElement
<1>5. Cardinality({row \in S \cup {x} : row.priced}) =
         IF k.priced THEN Cardinality({row \in S : row.priced}) + 1
         ELSE Cardinality({row \in S : row.priced})
  <2>1. IsFiniteSet({row \in S : row.priced}) /\ x \notin {row \in S : row.priced}
    BY FS_Subset DEF x
  <2>2. {row \in S \cup {x} : row.priced} =
           IF k.priced THEN {row \in S : row.priced} \cup {x} ELSE {row \in S : row.priced}
    BY <1>1
  <2>. QED BY <2>1, <2>2, FS_AddElement
<1>6. TokensOf(S \cup {x}) = TokensOf(S) + k.tokens
  BY <1>1, TokensAdd DEF x
<1>. QED BY <1>3, <1>4, <1>5, <1>6 DEF Counters, Counted, x

\* The counters of the rows grouped by what key says of them.
Grouped(S, key) == [n \in {key[row] : row \in S} |-> Counters({row \in S : key[row] = n})]

\* One more request in such groups: its group gains it, the others stay.
LEMMA GroupsAdd ==
    ASSUME NEW S, IsFiniteSet(S), \A row \in S : row.tokens \in Nat,
           NEW r, NEW k \in Kinds, RowOf(r, k) \notin S, NEW key
    PROVE  Grouped(S \cup {RowOf(r, k)}, key) = CountedAt(Grouped(S, key), key[RowOf(r, k)], k)
<1>. DEFINE x == RowOf(r, k)
            names == {key[row] : row \in S} \cup {key[x]}
            Group(T, n) == {row \in T : key[row] = n}
<1>1. {key[row] : row \in S \cup {x}} = names
  OBVIOUS
<1>2. ASSUME NEW n \in names, n # key[x]
      PROVE  Group(S \cup {x}, n) = Group(S, n) /\ n \in {key[row] : row \in S}
  BY <1>2
<1>3. Group(S \cup {x}, key[x]) = Group(S, key[x]) \cup {x}
  OBVIOUS
<1>4. Counters(Group(S, key[x]) \cup {x}) = Counted(Counters(Group(S, key[x])), k)
  <2>1. /\ IsFiniteSet(Group(S, key[x])) /\ x \notin Group(S, key[x])
        /\ \A row \in Group(S, key[x]) : row.tokens \in Nat
    BY FS_Subset
  <2>. HIDE DEF Group
  <2>. QED BY <2>1, CountersAdd
<1>5. key[x] \notin {key[row] : row \in S} => Counters(Group(S, key[x])) = NoStats
  <2>1. key[x] \notin {key[row] : row \in S} => Group(S, key[x]) = {}
    OBVIOUS
  <2>. HIDE DEF Group
  <2>. QED BY <2>1, CountersOfNone
<1>6. /\ DOMAIN Grouped(S, key) = {key[row] : row \in S}
      /\ \A n \in DOMAIN Grouped(S, key) : Grouped(S, key)[n] = Counters(Group(S, n))
  BY DEF Grouped
<1>7. Grouped(S \cup {x}, key) = [n \in names |-> Counters(Group(S \cup {x}, n))]
  BY <1>1 DEF Grouped
<1>8. CountedAt(Grouped(S, key), key[x], k) =
         [n \in names |->
             LET stats == IF n \in DOMAIN Grouped(S, key) THEN Grouped(S, key)[n] ELSE NoStats
             IN  IF n = key[x] THEN Counted(stats, k) ELSE stats]
  BY <1>6 DEF CountedAt
<1>9. ASSUME NEW n \in names
      PROVE  Counters(Group(S \cup {x}, n)) =
                LET stats == IF n \in DOMAIN Grouped(S, key) THEN Grouped(S, key)[n] ELSE NoStats
                IN  IF n = key[x] THEN Counted(stats, k) ELSE stats
  <2>1. CASE n = key[x]
    <3>. HIDE DEF x, Group
    <3>. QED BY <1>3, <1>4, <1>5, <1>6, <2>1
  <2>2. CASE n # key[x]
    <3>1. Group(S \cup {x}, n) = Group(S, n) /\ n \in {key[row] : row \in S}
      BY <1>2, <2>2
    <3>. HIDE DEF x, Group
    <3>. QED BY <1>6, <2>2, <3>1
  <2>. QED BY <2>1, <2>2
<1>. HIDE DEF names, Group, x
<1>. QED BY <1>7, <1>8, <1>9 DEF x

\* A function that says of each row its provider, or its model, groups them like that.
LEMMA GroupsByKey ==
    ASSUME NEW S
    PROVE  /\ GroupBy(S, ProviderOf, Counters) = Grouped(S, [row \in S |-> row.provider])
           /\ GroupBy(S, ModelOf, Counters) = Grouped(S, [row \in S |-> row.model])
BY DEF GroupBy, Grouped, ProviderOf, ModelOf

\* Functions that agree on the rows group them alike.
LEMMA GroupedAlike ==
    ASSUME NEW S, NEW f, NEW e, \A row \in S : f[row] = e[row]
    PROVE  Grouped(S, f) = Grouped(S, e)
<1>1. {f[row] : row \in S} = {e[row] : row \in S}
  OBVIOUS
<1>2. \A n : {row \in S : f[row] = n} = {row \in S : e[row] = n}
  OBVIOUS
<1>. QED BY <1>1, <1>2 DEF Grouped

\* A request that finishes is counted as the log will count its row.
LEMMA MonitorAdds ==
    ASSUME RowsInv, MonitorAgrees, NEW r \in Routed, NEW k \in Kinds, FinishRequest(r, k)
    PROVE  MonitorAgrees'
<1>. DEFINE x == RowOf(r, k)
            all == mine \cup {x}
<1>1. /\ mine' = all /\ monitor' = Bumped(monitor, k)
      /\ x \notin mine /\ IsFiniteSet(mine) /\ \A row \in mine : row.tokens \in Nat
  BY FS_Subset DEF FinishRequest, RowsInv, RowsAreFinished, RowOf
<1>2. x.provider = k.provider /\ x.model = k.model
  BY DEF RowOf
<1>3. monitor'.totals = Counters(all)
  BY <1>1, CountersAdd DEF MonitorAgrees, Bumped
<1>4. GroupBy(all, ProviderOf, Counters) =
         CountedAt(GroupBy(mine, ProviderOf, Counters), k.provider, k)
  <2>. DEFINE f == [row \in all |-> row.provider]
              e == [row \in mine |-> row.provider]
  <2>1. /\ GroupBy(all, ProviderOf, Counters) = Grouped(all, f)
        /\ GroupBy(mine, ProviderOf, Counters) = Grouped(mine, e)
    BY GroupsByKey
  <2>2. (\A row \in mine : f[row] = e[row]) /\ f[x] = k.provider
    BY <1>2
  <2>. HIDE DEF f, e
  <2>3. Grouped(mine, f) = Grouped(mine, e)
    BY <2>2, GroupedAlike
  <2>. QED BY <1>1, <2>1, <2>2, <2>3, GroupsAdd
<1>5. GroupBy(all, ModelOf, Counters) =
         CountedAt(GroupBy(mine, ModelOf, Counters), k.model, k)
  <2>. DEFINE f == [row \in all |-> row.model]
              e == [row \in mine |-> row.model]
  <2>1. /\ GroupBy(all, ModelOf, Counters) = Grouped(all, f)
        /\ GroupBy(mine, ModelOf, Counters) = Grouped(mine, e)
    BY GroupsByKey
  <2>2. (\A row \in mine : f[row] = e[row]) /\ f[x] = k.model
    BY <1>2
  <2>. HIDE DEF f, e
  <2>3. Grouped(mine, f) = Grouped(mine, e)
    BY <2>2, GroupedAlike
  <2>. QED BY <1>1, <2>1, <2>2, <2>3, GroupsAdd
<1>. HIDE DEF x
<1>. QED BY <1>1, <1>3, <1>4, <1>5 DEF MonitorAgrees, Bumped

\* A process that has finished nothing has counted nothing.
LEMMA NothingIsCounted ==
    /\ NoMonitor.totals = Counters({})
    /\ NoMonitor.providers = GroupBy({}, ProviderOf, Counters)
    /\ NoMonitor.models = GroupBy({}, ModelOf, Counters)
<1>1. GroupBy({}, ProviderOf, Counters) = <<>> /\ GroupBy({}, ModelOf, Counters) = <<>>
  BY DEF GroupBy
<1>. QED BY <1>1, CountersOfNone DEF NoMonitor

\* The counters in memory and the statistics of the log agree in every reachable state.
THEOREM MonitorIsRight == LogSpec => []MonitorAgrees
<1>1. LogInit => MonitorAgrees
  BY NothingIsCounted DEF LogInit, MonitorAgrees
<1>2. ASSUME RowsInv, MonitorAgrees, [LogNext]_logVars
      PROVE  MonitorAgrees'
  <2>1. CASE UNCHANGED memVars
    BY <1>2, <2>1 DEF memVars, MonitorAgrees
  <2>2. ASSUME NEW r \in Routed, NEW k \in Kinds, FinishRequest(r, k)
        PROVE  MonitorAgrees'
    BY <1>2, <2>2, MonitorAdds
  <2>3. CASE ProcessEnds
    BY <2>3, NothingIsCounted DEF ProcessEnds, MonitorAgrees
  <2>4. CASE LifespanEnds \/ PruneDaily \/ OpenStore
    BY <2>1, <2>4 DEF LifespanEnds, PruneDaily, OpenStore
  <2>. QED
    BY <1>2, <2>1, <2>2, <2>3, <2>4 DEF LogNext, OpenStoreFails, AskDashboard, RunQuery,
       QueryFails, QueryInert, SendAnswer, HourPasses, logVars
<1>. QED BY <1>1, <1>2, LogInvariance, PTL DEF LogSpec, LogInv

-----------------------------------------------------------------------------
(* The panels of an answer add up.                                         *)

\* The requests a table counts are such a sum.
LEMMA TotalIsSum ==
    ASSUME NEW table, IsFiniteSet(DOMAIN table)
    PROVE  Total(table) = SumOf([k \in DOMAIN table |-> table[k].requests], DOMAIN table)
<1>. DEFINE U == DOMAIN table
            f == [k \in U |-> table[k].requests]
            A(g) == [s \in SUBSET U |->
                        IF s = {} THEN 0 ELSE table[Pick(s)].requests + g[s \ {Pick(s)}]]
            B(g) == [s \in SUBSET U |-> IF s = {} THEN 0 ELSE f[Pick(s)] + g[s \ {Pick(s)}]]
<1>1. \A g : A(g) = B(g)
  BY PickIsElement
<1>2. Total(table) = (CHOOSE g : g = A(g))[U]
  BY DEF Total, MapThenSumSet, MapThenFoldSet, Pick
<1>3. (CHOOSE g : g = A(g)) = (CHOOSE g : g = B(g))
  BY <1>1
<1>. QED BY <1>2, <1>3 DEF SumOf, SumsOf, Sums

\* Counting the elements of a set key by key counts them all.
LEMMA CountByKey ==
    ASSUME NEW W, IsFiniteSet(W), NEW K, IsFiniteSet(K), NEW key, \A row \in W : key[row] \in K,
           NEW f, \A n \in K : f[n] = Cardinality({row \in W : key[row] = n})
    PROVE  SumOf(f, K) = Cardinality(W)
<1>. DEFINE Of(s) == {row \in W : key[row] \in s}
            T == {s \in SUBSET K : SumOf(f, s) # Cardinality(Of(s))}
<1>1. SUFFICES T = {}
  <2>1. Of(K) = W /\ K \in SUBSET K
    OBVIOUS
  <2>. QED BY <2>1
<1>2. SUFFICES ASSUME T # {} PROVE FALSE
  OBVIOUS
<1>3. PICK s \in T : \A p \in T : ~(p \subseteq s /\ p # s)
  <2>1. T \in SUBSET (SUBSET K)
    OBVIOUS
  <2>. HIDE DEF T
  <2>. QED BY <1>2, <2>1, SmallestPart
<1>. DEFINE n == Pick(s)
            rest == s \ {n}
<1>4. s \subseteq K /\ IsFiniteSet(s) /\ SumOf(f, s) # Cardinality(Of(s))
  BY <1>3, FS_Subset
<1>5. SumOf(f, s) = IF s = {} THEN 0 ELSE f[n] + SumOf(f, rest)
  BY <1>4, SumStep
<1>6. s # {}
  <2>1. s = {} => Of(s) = {}
    OBVIOUS
  <2>. QED BY <1>4, <1>5, <2>1, FS_EmptySet
<1>7. n \in s
  BY <1>6, PickIsElement
<1>8. SumOf(f, rest) = Cardinality(Of(rest))
  BY <1>3, <1>7
<1>9. f[n] = Cardinality(Of({n}))
  <2>1. Of({n}) = {row \in W : key[row] = n}
    OBVIOUS
  <2>. QED BY <1>4, <1>7, <2>1
<1>10. Cardinality(Of(s)) = Cardinality(Of({n})) + Cardinality(Of(rest))
  <2>1. Of(s) = Of({n}) \cup Of(rest) /\ Of({n}) \cap Of(rest) = {}
    BY <1>7
  <2>2. IsFiniteSet(Of({n})) /\ IsFiniteSet(Of(rest))
    BY FS_Subset
  <2>. HIDE DEF Of, n, rest
  <2>3. Cardinality(Of({n})) \in Nat /\ Cardinality(Of(rest)) \in Nat
    BY <2>2, FS_CardinalityType
  <2>4. Cardinality(Of({n}) \cup Of(rest)) =
           Cardinality(Of({n})) + Cardinality(Of(rest)) - Cardinality(Of({n}) \cap Of(rest))
    BY <2>2, FS_Union
  <2>5. Cardinality(Of({n}) \cap Of(rest)) = 0
    BY <2>1, FS_EmptySet
  <2>. QED BY <2>1, <2>3, <2>4, <2>5
<1>. HIDE DEF Of, n, rest
<1>. QED BY <1>4, <1>5, <1>6, <1>8, <1>9, <1>10

\* So a table with a count for each key adds up to the number of rows.
LEMMA TableAddsUp ==
    ASSUME NEW W, IsFiniteSet(W), NEW table, IsFiniteSet(DOMAIN table),
           NEW key, \A row \in W : key[row] \in DOMAIN table,
           \A n \in DOMAIN table : table[n].requests = Cardinality({row \in W : key[row] = n})
    PROVE  Total(table) = Cardinality(W)
<1>. DEFINE K == DOMAIN table
            f == [k \in K |-> table[k].requests]
<1>1. /\ IsFiniteSet(K) /\ \A row \in W : key[row] \in K
      /\ \A n \in K : f[n] = Cardinality({row \in W : key[row] = n})
  OBVIOUS
<1>2. Total(table) = SumOf(f, K)
  BY TotalIsSum
<1>. HIDE DEF f, K
<1>. QED BY <1>1, <1>2, CountByKey, SMTT(30)

\* A finite set of integers that is not empty has a least one.
LEMMA LeastInteger ==
    ASSUME NEW S, IsFiniteSet(S), S \subseteq Int, S # {}
    PROVE  Min(S) \in Int
<1>. DEFINE Least(s) == \E x \in s : \A y \in s : x <= y
            T == {s \in SUBSET S : s # {} /\ ~Least(s)}
<1>1. SUFFICES T = {}
  <2>1. S \in SUBSET S
    OBVIOUS
  <2>2. Least(S)
    BY <2>1
  <2>. QED BY <2>2 DEF Min
<1>2. SUFFICES ASSUME T # {} PROVE FALSE
  OBVIOUS
<1>3. PICK s \in T : \A p \in T : ~(p \subseteq s /\ p # s)
  <2>1. IsFiniteSet(S) /\ T \in SUBSET (SUBSET S) /\ T # {}
    BY <1>2
  <2>. HIDE DEF T
  <2>. QED BY ONLY <2>1, SmallestPart
<1>4. PICK x \in s : TRUE
  BY <1>3
<1>5. s \ {x} \notin T /\ s \subseteq Int
  BY <1>3, <1>4
<1>6. CASE s \ {x} = {}
  BY <1>3, <1>4, <1>5, <1>6
<1>7. CASE s \ {x} # {}
  <2>1. PICK y \in s \ {x} : \A z \in s \ {x} : y <= z
    BY <1>3, <1>5, <1>7
  <2>. QED BY <1>3, <1>4, <1>5, <2>1
<1>. QED BY <1>6, <1>7

\* Finitely many rows have finitely many keys.
LEMMA KeysAreFinite ==
    ASSUME NEW W, IsFiniteSet(W), NEW key
    PROVE  IsFiniteSet({key[row] : row \in W})
<1>. DEFINE f == [row \in W |-> key[row]]
<1>1. f \in Surjection(W, {key[row] : row \in W})
  BY DEF Surjection
<1>. HIDE DEF f
<1>. QED BY <1>1, FS_Surjection

\* A table with a row for each key that occurs.
LEMMA GroupsAddUp ==
    ASSUME NEW W, IsFiniteSet(W), NEW key, NEW table,
           DOMAIN table = {key[row] : row \in W},
           \A n \in DOMAIN table : table[n].requests = Cardinality({row \in W : key[row] = n})
    PROVE  Total(table) = Cardinality(W)
<1>1. IsFiniteSet({key[row] : row \in W})
  BY KeysAreFinite
<1>2. IsFiniteSet(DOMAIN table) /\ \A row \in W : key[row] \in DOMAIN table
  BY <1>1
<1>. QED BY <1>2, TableAddsUp

\* The panels of an answer all of whose queries read the same rows.
Alike(R, w) == Panels([i \in 1..10 |-> R], w)

\* They are what each query makes of the rows.
LEMMA PanelFields ==
    ASSUME NEW R, NEW w
    PROVE  LET a == Alike(R, w)
           IN  /\ a.totals = RangeTotals(R, w) /\ a.series = RangeSeries(R, w)
               /\ a.providers = ProviderTotals(R, w) /\ a.models = ModelTotals(R, w)
               /\ a.tps = SpeedAnswer(R, R, R, w) /\ a.breakdown = BreakdownAnswer(R, R, w)
               /\ a.data_since = FirstTs(R)
BY DEF Alike, Panels

\* Each table of counters adds up to the rows of the window.
LEMMA CountersAddUp ==
    ASSUME NEW R, IsFiniteSet(R), NEW w
    PROVE  /\ Total(RangeSeries(R, w)) = Cardinality(Within(R, w))
           /\ Total(ProviderTotals(R, w)) = Cardinality(Within(R, w))
           /\ Total(ModelTotals(R, w)) = Cardinality(Within(R, w))
           /\ RangeTotals(R, w).requests = Cardinality(Within(R, w))
<1>. DEFINE W == Within(R, w)
<1>1. IsFiniteSet(W)
  BY FS_Subset DEF Within
<1>. HIDE DEF W
<1>2. Total(RangeSeries(R, w)) = Cardinality(W)
  <2>. DEFINE key == [row \in W |-> BucketOf(row, w)]
              table == RangeSeries(R, w)
  <2>1. /\ DOMAIN table = {key[row] : row \in W}
        /\ \A n \in DOMAIN table : table[n].requests = Cardinality({row \in W : key[row] = n})
    BY DEF RangeSeries, GroupBy, Counters, W
  <2>. HIDE DEF key, table
  <2>2. Total(table) = Cardinality(W)
    BY <1>1, <2>1, GroupsAddUp
  <2>. QED BY <2>2 DEF table
<1>3. Total(ProviderTotals(R, w)) = Cardinality(W)
  <2>. DEFINE key == [row \in W |-> row.provider]
              table == ProviderTotals(R, w)
  <2>1. /\ DOMAIN table = {key[row] : row \in W}
        /\ \A n \in DOMAIN table : table[n].requests = Cardinality({row \in W : key[row] = n})
    BY DEF ProviderTotals, ProviderOf, GroupBy, Counters, W
  <2>. HIDE DEF key, table
  <2>2. Total(table) = Cardinality(W)
    BY <1>1, <2>1, GroupsAddUp
  <2>. QED BY <2>2 DEF table
<1>4. Total(ModelTotals(R, w)) = Cardinality(W)
  <2>. DEFINE key == [row \in W |-> row.model]
              table == ModelTotals(R, w)
  <2>1. /\ DOMAIN table = {key[row] : row \in W}
        /\ \A n \in DOMAIN table : table[n].requests = Cardinality({row \in W : key[row] = n})
    BY DEF ModelTotals, ModelOf, GroupBy, Counters, W
  <2>. HIDE DEF key, table
  <2>2. Total(table) = Cardinality(W)
    BY <1>1, <2>1, GroupsAddUp
  <2>. QED BY <2>2 DEF table
<1>. QED BY <1>2, <1>3, <1>4 DEF RangeTotals, Counters, W

\* No model of the window is missing among those of the whole log.
LEMMA SpeedsByModel ==
    ASSUME NEW R, NEW w
    PROVE  SpeedAnswer(R, R, R, w).by_model = ModelSpeeds(R, w)
<1>1. DOMAIN ModelSpeeds(R, w) \subseteq SpeedModels(R)
  BY DEF ModelSpeeds, ModelOf, GroupBy, SpeedModels, Qualifying, Within
<1>2. SpeedAnswer(R, R, R, w).by_model =
         [m \in SpeedModels(R) \cap DOMAIN ModelSpeeds(R, w) |-> ModelSpeeds(R, w)[m]]
  BY DEF SpeedAnswer
<1>3. ModelSpeeds(R, w) = [m \in DOMAIN ModelSpeeds(R, w) |-> ModelSpeeds(R, w)[m]]
  BY DEF ModelSpeeds, GroupBy
<1>4. SpeedModels(R) \cap DOMAIN ModelSpeeds(R, w) = DOMAIN ModelSpeeds(R, w)
  BY <1>1
<1>. QED BY <1>2, <1>3, <1>4

\* Each table of throughputs adds up to the rows of the window that qualify.
LEMMA SpeedsAddUp ==
    ASSUME NEW R, IsFiniteSet(R), NEW w
    PROVE  LET tps == SpeedAnswer(R, R, R, w)
           IN  /\ Total(tps.series) = Cardinality(Qualifying(Within(R, w)))
               /\ Total(tps.by_model) = Cardinality(Qualifying(Within(R, w)))
<1>. DEFINE Q == Qualifying(Within(R, w))
            tps == SpeedAnswer(R, R, R, w)
<1>1. IsFiniteSet(Q)
  BY FS_Subset DEF Within, Qualifying
<1>2. tps.series = SpeedSeries(R, w)
  BY DEF SpeedAnswer
<1>3. tps.by_model = ModelSpeeds(R, w)
  BY SpeedsByModel
<1>. HIDE DEF Q, tps
<1>4. Total(SpeedSeries(R, w)) = Cardinality(Q)
  <2>. DEFINE key == [row \in Q |-> <<BucketOf(row, w), row.model>>]
              table == SpeedSeries(R, w)
  <2>1. /\ DOMAIN table = {key[row] : row \in Q}
        /\ \A n \in DOMAIN table : table[n].requests = Cardinality({row \in Q : key[row] = n})
    BY DEF SpeedSeries, GroupBy, Speed, Q
  <2>. HIDE DEF key, table
  <2>2. Total(table) = Cardinality(Q)
    BY <1>1, <2>1, GroupsAddUp
  <2>. QED BY <2>2 DEF table
<1>5. Total(ModelSpeeds(R, w)) = Cardinality(Q)
  <2>. DEFINE key == [row \in Q |-> row.model]
              table == ModelSpeeds(R, w)
  <2>1. /\ DOMAIN table = {key[row] : row \in Q}
        /\ \A n \in DOMAIN table : table[n].requests = Cardinality({row \in Q : key[row] = n})
    BY DEF ModelSpeeds, ModelOf, GroupBy, Speed, Q
  <2>. HIDE DEF key, table
  <2>2. Total(table) = Cardinality(Q)
    BY <1>1, <2>1, GroupsAddUp
  <2>. QED BY <2>2 DEF table
<1>. QED BY <1>2, <1>3, <1>4, <1>5 DEF tps, Q

\* The groups of the breakdown add up to the rows of the window, their throughputs to
\* those that qualify, of which no group has more than rows.
LEMMA BreakdownAddsUp ==
    ASSUME NEW R, IsFiniteSet(R), NEW w
    PROVE  LET b      == BreakdownAnswer(R, R, w)
               shown  == [g \in DOMAIN b |-> b[g].counters]
               speeds == [g \in DOMAIN b |-> b[g].speed]
           IN  /\ Total(shown) = Cardinality(Within(R, w))
               /\ Total(speeds) = Cardinality(Qualifying(Within(R, w)))
               /\ \A g \in DOMAIN shown : speeds[g].requests <= shown[g].requests
<1>. DEFINE W == Within(R, w)
            Q == Qualifying(W)
            key == [row \in W |-> <<row.provider, row.model>>]
            b == BreakdownAnswer(R, R, w)
            shown == [g \in DOMAIN b |-> b[g].counters]
            speeds == [g \in DOMAIN b |-> b[g].speed]
            Rows(S, g) == {row \in S : key[row] = g}
<1>1. IsFiniteSet(W) /\ Q \subseteq W /\ IsFiniteSet(Q)
  BY FS_Subset DEF Within, Qualifying
<1>2. /\ DOMAIN Breakdown(R, w) = {key[row] : row \in W}
      /\ \A g \in DOMAIN Breakdown(R, w) : Breakdown(R, w)[g].requests = Cardinality(Rows(W, g))
  BY DEF Breakdown, GroupOf, GroupBy, Counters
<1>3. /\ DOMAIN BreakdownSpeeds(R, w) = {key[row] : row \in Q}
      /\ \A g \in DOMAIN BreakdownSpeeds(R, w) :
            BreakdownSpeeds(R, w)[g].requests = Cardinality(Rows(Q, g))
  <2>1. \A row \in Q : key[row] = GroupOf(row)
    BY <1>1 DEF GroupOf
  <2>. HIDE DEF key
  <2>2. DOMAIN BreakdownSpeeds(R, w) = {key[row] : row \in Q}
    BY <2>1 DEF BreakdownSpeeds, GroupBy
  <2>3. ASSUME NEW g \in DOMAIN BreakdownSpeeds(R, w)
        PROVE  BreakdownSpeeds(R, w)[g].requests = Cardinality(Rows(Q, g))
    <3>1. BreakdownSpeeds(R, w)[g] = Speed({row \in Q : GroupOf(row) = g})
      BY <2>3 DEF BreakdownSpeeds, GroupBy
    <3>2. {row \in Q : GroupOf(row) = g} = Rows(Q, g)
      BY <2>1
    <3>. QED BY <3>1, <3>2 DEF Speed
  <2>. QED BY <2>2, <2>3
<1>4. /\ DOMAIN b = DOMAIN Breakdown(R, w)
      /\ \A g \in DOMAIN b :
            /\ b[g].counters = Breakdown(R, w)[g]
            /\ b[g].speed = IF g \in DOMAIN BreakdownSpeeds(R, w)
                            THEN BreakdownSpeeds(R, w)[g] ELSE NoSpeed
  BY DEF BreakdownAnswer
<1>. HIDE DEF b, key, W, Q
<1>5. ASSUME NEW g \in DOMAIN shown
      PROVE  shown[g].requests = Cardinality(Rows(W, g)) /\ speeds[g].requests = Cardinality(Rows(Q, g))
  <2>1. shown[g].requests = Cardinality(Rows(W, g))
    BY <1>2, <1>4, <1>5
  <2>2. CASE g \in DOMAIN BreakdownSpeeds(R, w)
    BY <1>3, <1>4, <1>5, <2>1, <2>2
  <2>3. CASE g \notin DOMAIN BreakdownSpeeds(R, w)
    <3>1. Rows(Q, g) = {}
      BY <1>3, <2>3
    <3>2. speeds[g].requests = 0
      BY <1>4, <1>5, <2>3 DEF NoSpeed
    <3>. QED BY <2>1, <3>1, <3>2, FS_EmptySet
  <2>. QED BY <2>2, <2>3
<1>6. DOMAIN shown = {key[row] : row \in W} /\ DOMAIN speeds = {key[row] : row \in W}
  BY <1>2, <1>4
<1>7. IsFiniteSet({key[row] : row \in W})
  BY <1>1, KeysAreFinite
<1>8. ASSUME NEW g \in DOMAIN shown
      PROVE  speeds[g].requests <= shown[g].requests
  <2>1. Rows(Q, g) \subseteq Rows(W, g) /\ IsFiniteSet(Rows(W, g))
    BY <1>1, FS_Subset
  <2>. HIDE DEF Rows, shown, speeds
  <2>2. Cardinality(Rows(Q, g)) <= Cardinality(Rows(W, g))
    BY <2>1, FS_Subset
  <2>. QED BY <1>5, <1>8, <2>2
<1>. HIDE DEF shown, speeds
<1>9. Total(shown) = Cardinality(W)
  <2>1. \A n \in DOMAIN shown : shown[n].requests = Cardinality({row \in W : key[row] = n})
    BY <1>5
  <2>. QED BY <1>1, <1>6, <2>1, GroupsAddUp
<1>10. Total(speeds) = Cardinality(Q)
  <2>1. IsFiniteSet(DOMAIN speeds) /\ \A row \in Q : key[row] \in DOMAIN speeds
    BY <1>1, <1>6, <1>7
  <2>2. \A n \in DOMAIN speeds : speeds[n].requests = Cardinality({row \in Q : key[row] = n})
    BY <1>5, <1>6
  <2>. QED BY <1>1, <2>1, <2>2, TableAddsUp
<1>. QED BY <1>8, <1>9, <1>10 DEF shown, speeds, b, W, Q

\* Panels that read the same rows add up.
LEMMA PanelsOfOneReading ==
    ASSUME NEW R, IsFiniteSet(R), \A row \in R : row.ts \in Int, NEW w
    PROVE  AddUp(Alike(R, w))
<1>. DEFINE a == Alike(R, w)
            W == Within(R, w)
            b == a.breakdown
            shown == [g \in DOMAIN b |-> b[g].counters]
            speeds == [g \in DOMAIN b |-> b[g].speed]
<1>1. /\ a.totals = RangeTotals(R, w) /\ a.series = RangeSeries(R, w)
      /\ a.providers = ProviderTotals(R, w) /\ a.models = ModelTotals(R, w)
      /\ a.tps = SpeedAnswer(R, R, R, w) /\ b = BreakdownAnswer(R, R, w)
      /\ a.data_since = FirstTs(R)
  BY PanelFields
<1>. HIDE DEF a
<1>2. a.totals.requests = Cardinality(W)
  BY <1>1, CountersAddUp
<1>3. /\ Total(a.series) = Cardinality(W) /\ Total(a.providers) = Cardinality(W)
      /\ Total(a.models) = Cardinality(W)
  BY <1>1, CountersAddUp
<1>4. /\ Total(shown) = Cardinality(W) /\ Total(speeds) = Cardinality(Qualifying(W))
      /\ \A g \in DOMAIN shown : speeds[g].requests <= shown[g].requests
  <2>. HIDE DEF b, W
  <2>. QED BY <1>1, BreakdownAddsUp DEF W
<1>5. /\ Total(a.tps.series) = Cardinality(Qualifying(W))
      /\ Total(a.tps.by_model) = Cardinality(Qualifying(W))
  BY <1>1, SpeedsAddUp
<1>6. a.totals.requests > 0 => a.data_since # Null
  <2>1. SUFFICES ASSUME Cardinality(W) > 0 PROVE FirstTs(R) \in Int
    BY <1>1, <1>2, LogAssumption
  <2>2. R # {}
    BY <2>1, FS_EmptySet DEF Within
  <2>. DEFINE key == [row \in R |-> row.ts]
  <2>3. {row.ts : row \in R} = {key[row] : row \in R} /\ IsFiniteSet({key[row] : row \in R})
    BY KeysAreFinite
  <2>4. Min({row.ts : row \in R}) \in Int
    BY <2>2, <2>3, LeastInteger
  <2>. QED BY <2>2, <2>4 DEF FirstTs
<1>. HIDE DEF W
<1>7. /\ Total(a.series) = a.totals.requests /\ Total(shown) = a.totals.requests
      /\ Total(a.providers) = a.totals.requests /\ Total(a.models) = a.totals.requests
      /\ Total(speeds) = Total(a.tps.series) /\ Total(a.tps.by_model) = Total(a.tps.series)
  <2>. HIDE DEF shown, speeds
  <2>. QED BY <1>2, <1>3, <1>4, <1>5
<1>8. AddUp(a)
  BY <1>4, <1>6, <1>7 DEF AddUp
<1>. QED BY <1>8 DEF a

\* An answer with two of its fields replaced.
LEMMA FieldsReplaced ==
    ASSUME NEW totals, NEW series, NEW providers, NEW models, NEW names, NEW speeds,
           NEW byModel, NEW breakdown, NEW since, NEW names2, NEW since2,
           NEW old, old = [totals |-> totals, series |-> series, providers |-> providers,
                           models |-> models,
                           tps |-> [models |-> names, series |-> speeds, by_model |-> byModel],
                           breakdown |-> breakdown, data_since |-> since],
           NEW new, new = [old EXCEPT !.tps.models = names2, !.data_since = since2]
    PROVE  new = [totals |-> totals, series |-> series, providers |-> providers,
                  models |-> models,
                  tps |-> [models |-> names2, series |-> speeds, by_model |-> byModel],
                  breakdown |-> breakdown, data_since |-> since2]
<1>. DEFINE tps == [models |-> names, series |-> speeds, by_model |-> byModel]
            tps2 == [models |-> names2, series |-> speeds, by_model |-> byModel]
<1>1. [tps EXCEPT !.models = names2] = tps2
  OBVIOUS
<1>2. old.tps = tps
  OBVIOUS
<1>. HIDE DEF tps, tps2
<1>3. new = [old EXCEPT !.tps = tps2, !.data_since = since2]
  BY <1>1, <1>2
<1>4. /\ new.totals = totals /\ new.series = series /\ new.providers = providers
      /\ new.models = models /\ new.breakdown = breakdown
  BY <1>3
<1>5. new.tps = tps2 /\ new.data_since = since2
  BY <1>3
<1>6. new = [totals |-> new.totals, series |-> new.series, providers |-> new.providers,
             models |-> new.models, tps |-> new.tps, breakdown |-> new.breakdown,
             data_since |-> new.data_since]
  BY <1>3
<1>. QED BY <1>4, <1>5, <1>6 DEF tps2

\* An answer with the two panels about the whole log of another one.
WithLogOf(after, before) ==
    [after EXCEPT !.tps.models = before.tps.models, !.data_since = before.data_since]

\* All panels but the two about the whole log depend on the rows of the window only.
LEMMA PanelsOfTheWindow ==
    ASSUME NEW R, NEW S, NEW w, Within(R, w) = Within(S, w),
           NEW before, before = Alike(R, w), NEW after, after = Alike(S, w)
    PROVE  before = WithLogOf(after, before)
<1>. DEFINE Fields(T) == [totals |-> RangeTotals(R, w), series |-> RangeSeries(R, w),
                          providers |-> ProviderTotals(R, w), models |-> ModelTotals(R, w),
                          tps |-> [models |-> SpeedModels(T), series |-> SpeedSeries(R, w),
                                   by_model |-> ModelSpeeds(R, w)],
                          breakdown |-> BreakdownAnswer(R, R, w), data_since |-> FirstTs(T)]
<1>1. /\ RangeTotals(S, w) = RangeTotals(R, w) /\ RangeSeries(S, w) = RangeSeries(R, w)
      /\ ProviderTotals(S, w) = ProviderTotals(R, w) /\ ModelTotals(S, w) = ModelTotals(R, w)
      /\ SpeedSeries(S, w) = SpeedSeries(R, w) /\ ModelSpeeds(S, w) = ModelSpeeds(R, w)
  BY DEF RangeTotals, RangeSeries, ProviderTotals, ModelTotals, SpeedSeries, ModelSpeeds
<1>2. BreakdownAnswer(S, S, w) = BreakdownAnswer(R, R, w)
  BY DEF BreakdownAnswer, Breakdown, BreakdownSpeeds
<1>3. ASSUME NEW T
      PROVE  SpeedAnswer(T, T, T, w) = [models |-> SpeedModels(T), series |-> SpeedSeries(T, w),
                                        by_model |-> ModelSpeeds(T, w)]
  BY SpeedsByModel DEF SpeedAnswer
<1>4. before = Fields(R)
  BY <1>3 DEF Alike, Panels
<1>5. after = Fields(S)
  BY <1>1, <1>2, <1>3 DEF Alike, Panels
<1>6. Fields(R).tps.models = SpeedModels(R) /\ Fields(R).data_since = FirstTs(R)
  OBVIOUS
<1>7. WithLogOf(after, before) =
         [after EXCEPT !.tps.models = SpeedModels(R), !.data_since = FirstTs(R)]
  BY <1>4, <1>6 DEF WithLogOf
<1>8. ASSUME NEW old, old = Fields(S),
             NEW end, end = [old EXCEPT !.tps.models = SpeedModels(R), !.data_since = FirstTs(R)]
      PROVE  end = Fields(R)
  BY ONLY <1>8, FieldsReplaced
<1>. HIDE DEF Fields
<1>9. WithLogOf(after, before) = Fields(R)
  BY ONLY <1>5, <1>7, <1>8
<1>. QED BY <1>4, <1>9

\* The upper end of a window is an instant.
LEMMA WindowEnds ==
    ASSUME NEW ask \in Asks, NEW t \in Int, ResolveWindow(ask, t) # Refused,
           ResolveWindow(ask, t).end # Null
    PROVE  LET end == ResolveWindow(ask, t).end IN end.at \in Int /\ end.offset \in Int
<1>1. ask.start # Null /\ ask.end # Null
  BY DEF ResolveWindow, NamedWindow, CustomWindow
<1>2. ResolveWindow(ask, t).end = ParseBound(ask.end, TRUE)
  BY <1>1 DEF ResolveWindow, CustomWindow
<1>. QED BY <1>1, <1>2, LogAssumption DEF ParseBound, Hours, Utc

\* What was reached once is reached later on.
LEMMA ReachedStays ==
    ASSUME NEW bound, bound.at \in Int, bound.offset \in Int, NEW s \in Int, NEW t \in Int,
           s <= t, Reached(s, bound)
    PROVE  Reached(t, bound)
BY DEF Reached

\* The panels of one answer tell one story: this follows from the invariant.
LEMMA OneStory ==
    ASSUME LogInv
    PROVE  PanelsAddUp
<1>. DEFINE w == dash.window
            first == dash.first
            latest == dash.latest
            before == Alike(first, w)
            after == Alike(latest, w)
<1>1. SUFFICES ASSUME dash.step \in 1..Queries
               PROVE  IF latest = first THEN AddUp(before)
                      ELSE ~dash.failed /\ ~dash.shifted =>
                           /\ before.totals.requests <= Total(after.series)
                           /\ w.end # Null /\ Reached(dash.askedAt, w.end) =>
                              before = WithLogOf(after, before)
  BY DEF PanelsAddUp, Alike, WithLogOf
<1>2. dash \notin {Idle, Sent}
  BY <1>1, LogAssumption DEF Idle, Sent
<1>3. /\ first \subseteq finished /\ latest \subseteq finished
      /\ dash.askedAt \in Int
      /\ \E ask \in Asks : w = ResolveWindow(ask, dash.askedAt)
      /\ w # Refused
      /\ \A row \in finished \ dash.known : row.ts >= dash.askedAt
      /\ ~dash.shifted => first \subseteq latest /\ (latest \ first) \cap dash.known = {}
  BY <1>2 DEF LogInv, AnswerInv
<1>4. IsFiniteSet(finished) /\ \A row \in finished : row.ts \in Int
  BY DEF LogInv, RowsInv, LogTypeOK, RowsAreFinished
<1>5. IsFiniteSet(first) /\ IsFiniteSet(latest)
  BY <1>3, <1>4, FS_Subset
<1>6. AddUp(before)
  BY <1>3, <1>4, <1>5, PanelsOfOneReading
<1>7. ASSUME ~dash.shifted
      PROVE  before.totals.requests <= Total(after.series)
  <2>1. before.totals = RangeTotals(first, w) /\ after.series = RangeSeries(latest, w)
    BY PanelFields
  <2>2. before.totals.requests = Cardinality(Within(first, w))
    BY <1>5, <2>1, CountersAddUp
  <2>3. Total(after.series) = Cardinality(Within(latest, w))
    BY <1>5, <2>1, CountersAddUp
  <2>4. Within(first, w) \subseteq Within(latest, w) /\ IsFiniteSet(Within(latest, w))
    BY <1>3, <1>5, <1>7, FS_Subset DEF Within
  <2>5. Cardinality(Within(first, w)) <= Cardinality(Within(latest, w))
    BY <2>4, FS_Subset
  <2>. HIDE DEF before, after
  <2>. QED BY <2>2, <2>3, <2>5
<1>8. ASSUME ~dash.shifted, w.end # Null, Reached(dash.askedAt, w.end)
      PROVE  Within(first, w) = Within(latest, w)
  <2>1. w.end.at \in Int /\ w.end.offset \in Int
    BY <1>3, <1>8, WindowEnds
  <2>2. ASSUME NEW row \in latest \ first
        PROVE  ~InRange(row, w)
    <3>1. row.ts \in Int /\ dash.askedAt <= row.ts
      BY <1>3, <1>4, <1>8
    <3>2. Reached(row.ts, w.end)
      BY <1>3, <1>8, <2>1, <3>1, ReachedStays
    <3>. QED BY <1>8, <3>2 DEF InRange
  <2>. QED BY <1>3, <1>8, <2>2 DEF Within
<1>9. ASSUME Within(first, w) = Within(latest, w)
      PROVE  before = WithLogOf(after, before)
  <2>1. before = Alike(first, w) /\ after = Alike(latest, w)
    OBVIOUS
  <2>. HIDE DEF before, after, first, latest, w
  <2>. QED BY <1>9, <2>1, PanelsOfTheWindow
<1>. HIDE DEF before, after
<1>. QED BY <1>6, <1>7, <1>8, <1>9

\* The panels of one answer of the dashboard, read one after the other, tell one story.
THEOREM PanelsTellOneStory == LogSpec => []PanelsAddUp
<1>. QED BY OneStory, LogInvariance, PTL
=============================================================================

--------------------------- MODULE QuotaGateProofs ---------------------------
(***************************************************************************)
(* Proofs of QuotaGate's safety properties, for any number of requests and *)
(* any stagger, margin, wait budget and lag.                               *)
(***************************************************************************)
EXTENDS QuotaGate, TLAPS

\* Slot d keeps a stagger's distance from the slots of all requests but r.
ApartFromOthers(r, d) ==
    \A s \in Requests \ {r} :
        Waiting(s) => d + Stagger <= departure[s] \/ departure[s] + Stagger <= d

\* What any step of a request r with deadline dl leaves behind: the request is
\* in some phase, and if it waits then for a slot that is within its deadline,
\* already claimed from nextRelease, and apart from the slots of the others.
Settled(r, dl) ==
    \E p \in Phases, d \in Nat, t \in Nat, b \in BOOLEAN :
        /\ phase' = [phase EXCEPT ![r] = p]
        /\ departure' = [departure EXCEPT ![r] = d]
        /\ due' = [due EXCEPT ![r] = t]
        /\ event' = [event EXCEPT ![r] = b]
        /\ nextRelease' \in Nat /\ nextRelease' >= nextRelease
        /\ p \in Pending => now <= t
        /\ p = "backoff" => attempt'[r] < MaxRetries
        /\ p = "waiting" =>
             /\ d <= dl /\ t <= d /\ d + Stagger <= nextRelease'
             /\ ApartFromOthers(r, d)

-----------------------------------------------------------------------------
(* The helpers of the actions settle the request.                          *)

\* A request that ends is settled.
LEMMA EndSettles ==
    ASSUME TypeOK, NEW r \in Requests, NEW dl \in Nat, NEW f \in Final,
           EndAs(r, f), nextRelease' = nextRelease
    PROVE  Settled(r, dl)
<1>1. f \in Phases /\ f \notin Pending /\ f # "waiting" /\ f # "backoff"
  BY DEF Phases, Final, Pending
<1>2. 0 \in Nat /\ FALSE \in BOOLEAN /\ nextRelease' \in Nat /\ nextRelease' >= nextRelease
  BY DEF TypeOK
<1>. QED BY <1>1, <1>2 DEF EndAs, Settled

\* A request turned away with 499 or 429 is settled.
LEMMA GiveUpSettles ==
    ASSUME TypeOK, NEW r \in Requests, NEW dl \in Nat,
           GiveUp(r), nextRelease' = nextRelease
    PROVE  Settled(r, dl)
<1>. DEFINE f == IF event[r] THEN "cancelled499" ELSE "quota429"
<1>1. f \in Final
  BY DEF Final
<1>2. EndAs(r, f)
  BY DEF GiveUp
<1>. QED BY <1>1, <1>2, EndSettles

\* A request whose upstream call starts is settled.
LEMMA StartSettles ==
    ASSUME TypeOK, NEW r \in Requests, NEW dl \in Nat,
           StartCall(r), nextRelease' \in Nat, nextRelease' >= nextRelease
    PROVE  Settled(r, dl)
<1>1. now + CallMax \in Nat /\ now <= now + CallMax
  BY QuotaAssumption DEF TypeOK
<1>2. "calling" \in Phases /\ "calling" # "waiting" /\ "calling" # "backoff" /\ 0 \in Nat
  BY DEF Phases, Pending
<1>3. event' = [event EXCEPT ![r] = event[r]] /\ event[r] \in BOOLEAN
  BY DEF StartCall, TypeOK
<1>. QED BY <1>1, <1>2, <1>3 DEF StartCall, Settled

\* A request is settled whether its slot has come, it leaves cancelled, or it sleeps on,
\* provided the slot is claimed, within its deadline and apart from the others.
LEMMA FollowSettles ==
    ASSUME TypeOK, NEW r \in Requests, NEW dl \in Nat, NEW slot \in Nat,
           FollowSlot(r, slot),
           nextRelease' \in Nat, nextRelease' >= nextRelease,
           slot <= dl, slot + Stagger <= nextRelease', ApartFromOthers(r, slot)
    PROVE  Settled(r, dl)
<1>1. CASE slot <= now
  BY <1>1, StartSettles DEF FollowSlot
<1>2. CASE slot > now /\ event[r]
  <2>. DEFINE f == IF event[r] THEN "cancelled499" ELSE "quota429"
  <2>1. EndAs(r, f)
    BY <1>2 DEF FollowSlot, GiveUp, TypeOK
  <2>2. f \in Phases /\ f \notin Pending /\ f # "waiting" /\ f # "backoff" /\ 0 \in Nat /\ FALSE \in BOOLEAN
    BY DEF Phases, Final, Pending
  <2>. HIDE DEF f
  <2>. QED BY <2>1, <2>2 DEF EndAs, Settled
<1>3. CASE slot > now /\ ~event[r]
  <2>. DEFINE t == now + Sooner(slot - now, Poll)
  <2>1. t \in Nat /\ now <= t /\ t <= slot
    BY <1>3, QuotaAssumption DEF Sooner, TypeOK
  <2>2. /\ phase' = [phase EXCEPT ![r] = "waiting"]
        /\ departure' = [departure EXCEPT ![r] = slot]
        /\ due' = [due EXCEPT ![r] = t]
        /\ event' = event
    BY <1>3 DEF FollowSlot, TypeOK
  <2>3. event' = [event EXCEPT ![r] = event[r]] /\ event[r] \in BOOLEAN
    BY <2>2 DEF TypeOK
  <2>4. "waiting" \in Phases /\ "waiting" # "backoff"
    BY DEF Phases, Pending
  <2>. HIDE DEF t
  <2>. QED BY <2>1, <2>2, <2>3, <2>4 DEF Settled
<1>. QED BY <1>1, <1>2, <1>3 DEF TypeOK

\* Claiming the next slot settles the request: the slot is behind all those handed out.
LEMMA ClaimSettles ==
    ASSUME TypeOK, SlotInv, NEW r \in Requests, NEW cu \in Nat, NEW dl \in Nat,
           ClaimSlot(r, cu, dl)
    PROVE  Settled(r, dl)
<1>1. CASE Slot(cu) > dl
  BY <1>1, GiveUpSettles DEF ClaimSlot
<1>2. CASE ~(Slot(cu) > dl)
  <2>. DEFINE slot == Slot(cu)
  <2>1. slot \in Nat /\ slot >= nextRelease
    BY DEF Slot, Later, TypeOK
  <2>2. FollowSlot(r, slot) /\ nextRelease' = slot + Stagger
    BY <1>2 DEF ClaimSlot
  <2>3. nextRelease' \in Nat /\ nextRelease' >= nextRelease /\ slot + Stagger <= nextRelease'
    BY <2>1, <2>2, QuotaAssumption DEF TypeOK
  <2>4. slot <= dl
    BY <1>2, <2>1
  <2>. HIDE DEF slot
  <2>5. ApartFromOthers(r, slot)
    BY <2>1, QuotaAssumption DEF ApartFromOthers, SlotInv, TypeOK
  <2>. QED BY <2>1, <2>2, <2>3, <2>4, <2>5, FollowSettles
<1>. QED BY <1>1, <1>2

\* Asking the gate settles the request, on the fast path and behind a queue.
LEMMA AskSettles ==
    ASSUME TypeOK, SlotInv, NEW r \in Requests, NEW cu \in Nat, NEW dl \in Nat,
           AskGate(r, cu, dl)
    PROVE  Settled(r, dl)
<1>1. CASE QueueClearAt(cu) <= now
  <2>1. StartCall(r) /\ nextRelease' = nextRelease
    BY <1>1 DEF AskGate
  <2>2. nextRelease' \in Nat /\ nextRelease' >= nextRelease
    BY <2>1 DEF TypeOK
  <2>. QED BY <2>1, <2>2, StartSettles
<1>2. CASE ~(QueueClearAt(cu) <= now)
  BY <1>2, ClaimSettles DEF AskGate
<1>. QED BY <1>1, <1>2

-----------------------------------------------------------------------------
(* A settled step keeps the invariant.                                     *)

\* A step that settles one request and changes no other keeps the invariant.
LEMMA SettledKeepsInv ==
    ASSUME IInv, NEW r \in Requests, NEW dl \in Nat,
           Settled(r, dl),
           now' = now, closedUntil' \in Nat, attempt' \in [Requests -> 0..MaxRetries],
           \A s \in Requests \ {r} : attempt'[s] = attempt[s],
           deadline' = [deadline EXCEPT ![r] = dl]
    PROVE  IInv'
<1>. USE QuotaAssumption
<1>1. PICK p \in Phases, d \in Nat, t \in Nat, b \in BOOLEAN :
        /\ phase' = [phase EXCEPT ![r] = p]
        /\ departure' = [departure EXCEPT ![r] = d]
        /\ due' = [due EXCEPT ![r] = t]
        /\ event' = [event EXCEPT ![r] = b]
        /\ nextRelease' \in Nat /\ nextRelease' >= nextRelease
        /\ p \in Pending => now <= t
        /\ p = "backoff" => attempt'[r] < MaxRetries
        /\ p = "waiting" =>
             /\ d <= dl /\ t <= d /\ d + Stagger <= nextRelease'
             /\ ApartFromOthers(r, d)
  BY DEF Settled
<1>2. TypeOK
  BY DEF IInv
<1>3. /\ phase'[r] = p /\ departure'[r] = d /\ due'[r] = t /\ deadline'[r] = dl
      /\ \A s \in Requests \ {r} : /\ phase'[s] = phase[s] /\ departure'[s] = departure[s]
                                   /\ due'[s] = due[s] /\ deadline'[s] = deadline[s]
  BY <1>1, <1>2 DEF TypeOK
<1>4. TypeOK'
  BY <1>1, <1>2 DEF TypeOK
<1>5. SlotInv'
  <2> SUFFICES ASSUME NEW s \in Requests, Waiting(s)'
               PROVE  /\ (departure[s] + Stagger <= nextRelease)'
                      /\ (departure[s] <= deadline[s])'
                      /\ (due[s] <= departure[s])'
    BY DEF SlotInv
  <2>1. CASE s = r
    BY <2>1, <1>1, <1>3 DEF Waiting
  <2>2. CASE s # r
    BY <2>2, <1>1, <1>2, <1>3 DEF Waiting, IInv, SlotInv, TypeOK
  <2>. QED BY <2>1, <2>2
<1>6. SlotsStaggered'
  <2> SUFFICES ASSUME NEW s \in Requests, NEW u \in Requests, s # u, Waiting(s)', Waiting(u)'
               PROVE  (departure[s] + Stagger <= departure[u] \/ departure[u] + Stagger <= departure[s])'
    BY DEF SlotsStaggered
  <2>1. CASE s = r
    BY <2>1, <1>1, <1>3 DEF Waiting, ApartFromOthers
  <2>2. CASE u = r
    BY <2>2, <1>1, <1>3 DEF Waiting, ApartFromOthers
  <2>3. CASE s # r /\ u # r
    BY <2>3, <1>3 DEF Waiting, IInv, SlotsStaggered
  <2>. QED BY <2>1, <2>2, <2>3
<1>7. DueInv'
  <2> SUFFICES ASSUME NEW s \in Requests, phase'[s] \in Pending
               PROVE  now' <= due'[s] + MaxLag
    BY DEF DueInv
  <2>1. CASE s = r
    BY <2>1, <1>1, <1>2, <1>3 DEF TypeOK
  <2>2. CASE s # r
    BY <2>2, <1>3 DEF IInv, DueInv
  <2>. QED BY <2>1, <2>2
<1>8. BackoffInv'
  <2> SUFFICES ASSUME NEW s \in Requests, phase'[s] = "backoff"
               PROVE  attempt'[s] < MaxRetries
    BY DEF BackoffInv
  <2>1. CASE s = r
    BY <2>1, <1>1, <1>3
  <2>2. CASE s # r
    BY <2>2, <1>3 DEF IInv, BackoffInv
  <2>. QED BY <2>1, <2>2
<1>. QED BY <1>4, <1>5, <1>6, <1>7, <1>8 DEF IInv

-----------------------------------------------------------------------------
(* Every action keeps the invariant.                                       *)

\* The invariant holds initially.
LEMMA InitInv == Init => IInv
BY QuotaAssumption DEF Init, IInv, TypeOK, SlotInv, SlotsStaggered, DueInv, BackoffInv, Waiting, Phases, Pending

\* An arriving request keeps the invariant.
LEMMA ArriveKeepsInv ==
    ASSUME IInv, NEW r \in Requests, Arrive(r)
    PROVE  IInv'
<1>. DEFINE dl == now + WaitMax
<1>1. TypeOK /\ SlotInv
  BY DEF IInv
<1>2. dl \in Nat /\ closedUntil \in Nat
  BY <1>1, QuotaAssumption DEF TypeOK
<1>3. AskGate(r, closedUntil, dl) /\ deadline' = [deadline EXCEPT ![r] = dl]
  BY DEF Arrive
<1>4. /\ now' = now /\ closedUntil' \in Nat /\ attempt' \in [Requests -> 0..MaxRetries]
      /\ \A s \in Requests \ {r} : attempt'[s] = attempt[s]
  BY <1>1 DEF Arrive, TypeOK
<1>. HIDE DEF dl
<1>5. Settled(r, dl)
  BY <1>1, <1>2, <1>3, AskSettles
<1>. QED BY <1>2, <1>3, <1>4, <1>5, SettledKeepsInv

\* A waiter that wakes, with its old slot or a new one, keeps the invariant.
LEMMA WakeKeepsInv ==
    ASSUME IInv, NEW r \in Requests, Wake(r)
    PROVE  IInv'
<1>1. TypeOK /\ SlotInv
  BY DEF IInv
<1>2. deadline[r] \in Nat /\ closedUntil \in Nat /\ departure[r] \in Nat
  BY <1>1 DEF TypeOK
<1>3. /\ now' = now /\ closedUntil' \in Nat /\ attempt' \in [Requests -> 0..MaxRetries]
      /\ \A s \in Requests \ {r} : attempt'[s] = attempt[s]
      /\ deadline' = [deadline EXCEPT ![r] = deadline[r]]
  BY <1>1 DEF Wake, TypeOK
<1>4. Settled(r, deadline[r])
  <2>1. CASE closedUntil > departure[r]
    BY <2>1, <1>1, <1>2, ClaimSettles DEF Wake
  <2>2. CASE ~(closedUntil > departure[r])
    <3>1. FollowSlot(r, departure[r]) /\ nextRelease' = nextRelease
      BY <2>2 DEF Wake
    <3>2. /\ departure[r] <= deadline[r]
          /\ departure[r] + Stagger <= nextRelease
      BY <1>1 DEF Wake, SlotInv
    <3>3. ApartFromOthers(r, departure[r])
      BY DEF Wake, IInv, SlotsStaggered, ApartFromOthers
    <3>4. nextRelease' \in Nat /\ nextRelease' >= nextRelease /\ departure[r] + Stagger <= nextRelease'
      BY <1>1, <3>1, <3>2 DEF TypeOK
    <3>. QED BY <1>1, <1>2, <3>1, <3>2, <3>3, <3>4, FollowSettles
  <2>. QED BY <2>1, <2>2
<1>. QED BY <1>2, <1>3, <1>4, SettledKeepsInv

\* A request that is answered keeps the invariant.
LEMMA AnsweredKeepsInv ==
    ASSUME IInv, NEW r \in Requests, Answered(r)
    PROVE  IInv'
<1>1. TypeOK
  BY DEF IInv
<1>2. /\ now' = now /\ closedUntil' \in Nat /\ attempt' \in [Requests -> 0..MaxRetries]
      /\ \A s \in Requests \ {r} : attempt'[s] = attempt[s]
      /\ deadline' = [deadline EXCEPT ![r] = deadline[r]] /\ deadline[r] \in Nat
  BY <1>1 DEF Answered, gateVars, TypeOK
<1>3. Settled(r, deadline[r])
  BY <1>1, <1>2, EndSettles DEF Answered, gateVars, Final
<1>. QED BY <1>2, <1>3, SettledKeepsInv

\* Closing the window again keeps the invariant.
LEMMA QuotaRefusedKeepsInv ==
    ASSUME IInv, NEW r \in Requests, NEW hint \in Hints, QuotaRefused(r, hint)
    PROVE  IInv'
<1>1. TypeOK /\ SlotInv
  BY DEF IInv
<1>2. closedUntil' \in Nat
  BY <1>1, QuotaAssumption DEF QuotaRefused, Later, TypeOK
<1>3. /\ now' = now /\ attempt' \in [Requests -> 0..MaxRetries]
      /\ \A s \in Requests \ {r} : attempt'[s] = attempt[s]
      /\ deadline' = [deadline EXCEPT ![r] = deadline[r]] /\ deadline[r] \in Nat
  BY <1>1 DEF QuotaRefused, TypeOK
<1>4. Settled(r, deadline[r])
  BY <1>1, <1>2, <1>3, AskSettles DEF QuotaRefused
<1>. QED BY <1>2, <1>3, <1>4, SettledKeepsInv

\* A transient 401 keeps the invariant.
LEMMA TransientKeepsInv ==
    ASSUME IInv, NEW r \in Requests, Transient401(r)
    PROVE  IInv'
<1>1. TypeOK
  BY DEF IInv
<1>2. /\ now' = now /\ closedUntil' \in Nat /\ attempt' \in [Requests -> 0..MaxRetries]
      /\ \A s \in Requests \ {r} : attempt'[s] = attempt[s]
      /\ deadline' = [deadline EXCEPT ![r] = deadline[r]] /\ deadline[r] \in Nat
  BY <1>1 DEF Transient401, gateVars, TypeOK
<1>3. /\ now + RetryDelay \in Nat /\ now <= now + RetryDelay
      /\ "backoff" \in Phases /\ "backoff" # "waiting"
      /\ nextRelease' \in Nat /\ nextRelease' >= nextRelease
      /\ departure' = [departure EXCEPT ![r] = departure[r]] /\ departure[r] \in Nat
      /\ event' = [event EXCEPT ![r] = event[r]] /\ event[r] \in BOOLEAN
  BY <1>1, QuotaAssumption DEF Transient401, gateVars, TypeOK, Phases, Pending
<1>4. /\ phase' = [phase EXCEPT ![r] = "backoff"]
      /\ due' = [due EXCEPT ![r] = now + RetryDelay]
  BY DEF Transient401
<1>5. attempt'[r] < MaxRetries
  BY DEF Transient401
<1>6. Settled(r, deadline[r])
  BY <1>3, <1>4, <1>5 DEF Settled
<1>. QED BY <1>2, <1>6, SettledKeepsInv

\* The next attempt after a 401 keeps the invariant.
LEMMA RetryKeepsInv ==
    ASSUME IInv, NEW r \in Requests, Retry(r)
    PROVE  IInv'
<1>1. TypeOK /\ SlotInv
  BY DEF IInv
<1>0. attempt[r] < MaxRetries
  BY DEF IInv, BackoffInv, Retry
<1>2. /\ now' = now /\ closedUntil' = closedUntil /\ closedUntil \in Nat
      /\ attempt' \in [Requests -> 0..MaxRetries]
      /\ \A s \in Requests \ {r} : attempt'[s] = attempt[s]
  BY <1>0, <1>1, QuotaAssumption DEF Retry, TypeOK
<1>3. CASE event[r]
  <2>1. GiveUp(r) /\ nextRelease' = nextRelease
    BY <1>3 DEF Retry
  <2>2. deadline' = [deadline EXCEPT ![r] = deadline[r]] /\ deadline[r] \in Nat
    BY <1>1, <1>3 DEF Retry, TypeOK
  <2>3. Settled(r, deadline[r])
    BY <1>1, <2>1, <2>2, GiveUpSettles
  <2>. QED BY <1>2, <2>2, <2>3, SettledKeepsInv
<1>4. CASE ~event[r]
  <2>. DEFINE dl == now + WaitMax
  <2>1. dl \in Nat
    BY <1>1, QuotaAssumption DEF TypeOK
  <2>2. AskGate(r, closedUntil, dl) /\ deadline' = [deadline EXCEPT ![r] = dl]
    BY <1>4 DEF Retry
  <2>. HIDE DEF dl
  <2>3. Settled(r, dl)
    BY <1>1, <1>2, <2>1, <2>2, AskSettles
  <2>. QED BY <1>2, <2>1, <2>2, <2>3, SettledKeepsInv
<1>. QED BY <1>3, <1>4

\* Setting a cancel event, which ends a unary request, keeps the invariant.
LEMMA CancelKeepsInv ==
    ASSUME IInv, NEW r \in Requests, CancelRequest(r)
    PROVE  IInv'
<1>1. TypeOK
  BY DEF IInv
<1>2. CASE r \in Streaming
  <2>1. TypeOK'
    BY <1>1, <1>2 DEF TypeOK, CancelRequest, gateVars
  <2>2. SlotInv' /\ SlotsStaggered'
    BY <1>2 DEF IInv, SlotInv, SlotsStaggered, Waiting, CancelRequest, gateVars
  <2>3. DueInv' /\ BackoffInv'
    BY <1>2 DEF IInv, DueInv, BackoffInv, CancelRequest, gateVars
  <2>. QED BY <2>1, <2>2, <2>3 DEF IInv
<1>3. CASE r \notin Streaming
  <2>1. /\ now' = now /\ closedUntil' \in Nat /\ attempt' \in [Requests -> 0..MaxRetries]
        /\ \A s \in Requests \ {r} : attempt'[s] = attempt[s]
        /\ deadline' = [deadline EXCEPT ![r] = deadline[r]] /\ deadline[r] \in Nat
        /\ nextRelease' = nextRelease
    BY <1>1 DEF CancelRequest, gateVars, TypeOK
  <2>2. EndAs(r, "cancelled499") /\ "cancelled499" \in Final
    BY <1>3 DEF CancelRequest, Final
  <2>3. Settled(r, deadline[r])
    BY <1>1, <2>1, <2>2, EndSettles
  <2>. QED BY <2>1, <2>3, SettledKeepsInv
<1>. QED BY <1>2, <1>3

\* The passing of time keeps the invariant.
LEMMA TickKeepsInv ==
    ASSUME IInv, Tick
    PROVE  IInv'
<1>1. TypeOK'
  BY DEF IInv, TypeOK, Tick, gateVars
<1>2. SlotInv' /\ SlotsStaggered'
  BY DEF IInv, SlotInv, SlotsStaggered, Waiting, Tick, gateVars
<1>3. DueInv'
  BY QuotaAssumption DEF IInv, DueInv, TypeOK, Tick
<1>4. BackoffInv'
  BY DEF IInv, BackoffInv, Tick
<1>. QED BY <1>1, <1>2, <1>3, <1>4 DEF IInv

\* Every step keeps the invariant.
LEMMA NextKeepsInv ==
    ASSUME IInv, [Next]_vars
    PROVE  IInv'
<1>1. CASE Tick
  BY <1>1, TickKeepsInv
<1>2. ASSUME NEW r \in Requests, RequestStep(r)
      PROVE  IInv'
  <2>1. CASE Arrive(r)
    BY <2>1, ArriveKeepsInv
  <2>2. CASE Wake(r)
    BY <2>2, WakeKeepsInv
  <2>3. CASE CallReturns(r)
    <3>1. CASE Answered(r)
      BY <3>1, AnsweredKeepsInv
    <3>2. CASE Transient401(r)
      BY <3>2, TransientKeepsInv
    <3>3. CASE \E hint \in Hints : QuotaRefused(r, hint)
      BY <3>3, QuotaRefusedKeepsInv
    <3>. QED BY <2>3, <3>1, <3>2, <3>3 DEF CallReturns
  <2>4. CASE Retry(r)
    BY <2>4, RetryKeepsInv
  <2>. QED BY <1>2, <2>1, <2>2, <2>3, <2>4 DEF RequestStep
<1>3. ASSUME NEW r \in Requests, CancelRequest(r)
      PROVE  IInv'
  BY <1>3, CancelKeepsInv
<1>4. CASE UNCHANGED vars
  BY <1>4 DEF IInv, TypeOK, SlotInv, SlotsStaggered, DueInv, BackoffInv, Waiting, vars
<1>. QED BY <1>1, <1>2, <1>3, <1>4 DEF Next

\* The inductive invariant holds in every reachable state.
THEOREM Invariance == Spec => []IInv
<1>1. Init => IInv
  BY InitInv
<1>2. IInv /\ [Next]_vars => IInv'
  BY NextKeepsInv
<1>. QED BY <1>1, <1>2, PTL DEF Spec

\* Type correctness of the gate, the retry counter included.
THEOREM TypeCorrect == Spec => []TypeOK
<1>1. IInv => TypeOK
  BY DEF IInv
<1>. QED BY <1>1, Invariance, PTL

\* Requests released from behind the gate never leave as a pack, whatever their
\* number and however often the window is closed again while they wait.
THEOREM SlotsAreStaggered == Spec => []SlotsStaggered
<1>1. IInv => SlotsStaggered
  BY DEF IInv
<1>. QED BY <1>1, Invariance, PTL

\* No request waits past the deadline that _within_quota fixed, up to the lag of
\* the event loop.
THEOREM WaitIsBounded == Spec => []WaitBounded
<1>1. IInv => WaitBounded
  <2> SUFFICES ASSUME IInv, NEW r \in Requests, Waiting(r)
               PROVE  now <= deadline[r] + MaxLag
    BY DEF WaitBounded
  <2>1. now <= due[r] + MaxLag /\ due[r] <= departure[r] /\ departure[r] <= deadline[r]
    BY DEF IInv, DueInv, SlotInv, Waiting, Pending
  <2>. QED BY <2>1, QuotaAssumption DEF IInv, TypeOK
<1>. QED BY <1>1, Invariance, PTL

-----------------------------------------------------------------------------
(* When a call starts: the action properties.                              *)

\* Following a slot starts the call only once the slot has come.
LEMMA FollowStarts ==
    ASSUME TypeOK, NEW r \in Requests, NEW slot \in Nat,
           FollowSlot(r, slot), phase'[r] = "calling"
    PROVE  slot <= now
<1> SUFFICES ASSUME ~(slot <= now)
             PROVE  FALSE
  OBVIOUS
<1>1. \E p \in {"waiting", "cancelled499", "quota429"} : phase' = [phase EXCEPT ![r] = p]
  BY DEF FollowSlot, GiveUp, EndAs
<1>. QED BY <1>1 DEF TypeOK

\* Asking the gate starts the call only if the window has ended and every slot
\* handed out but the last stagger of them has passed.
LEMMA AskStarts ==
    ASSUME TypeOK, NEW r \in Requests, NEW cu \in Nat, NEW dl \in Nat,
           AskGate(r, cu, dl), phase'[r] = "calling"
    PROVE  cu <= now /\ nextRelease <= now + Stagger
<1>. USE QuotaAssumption
<1>1. CASE QueueClearAt(cu) <= now
  BY <1>1 DEF QueueClearAt, Later, TypeOK
<1>2. CASE ~(QueueClearAt(cu) <= now) /\ Slot(cu) > dl
  <2>1. \E p \in {"cancelled499", "quota429"} : phase' = [phase EXCEPT ![r] = p]
    BY <1>2 DEF AskGate, ClaimSlot, GiveUp, EndAs
  <2>. QED BY <2>1 DEF TypeOK
<1>3. CASE ~(QueueClearAt(cu) <= now) /\ ~(Slot(cu) > dl)
  <2>1. FollowSlot(r, Slot(cu)) /\ Slot(cu) \in Nat
    BY <1>3 DEF AskGate, ClaimSlot, Slot, Later, TypeOK
  <2>2. Slot(cu) <= now
    BY <2>1, FollowStarts
  <2>. QED BY <2>2 DEF Slot, Later, TypeOK
<1>. QED BY <1>1, <1>2, <1>3

\* A claimed slot starts the call only once the window it was claimed behind
\* has ended.
LEMMA ClaimStarts ==
    ASSUME TypeOK, NEW r \in Requests, NEW cu \in Nat, NEW dl \in Nat,
           ClaimSlot(r, cu, dl), phase'[r] = "calling"
    PROVE  cu <= now
<1>1. CASE Slot(cu) > dl
  <2>1. \E p \in {"cancelled499", "quota429"} : phase' = [phase EXCEPT ![r] = p]
    BY <1>1 DEF ClaimSlot, GiveUp, EndAs
  <2>. QED BY <2>1 DEF TypeOK
<1>2. CASE ~(Slot(cu) > dl)
  <2>1. FollowSlot(r, Slot(cu)) /\ Slot(cu) \in Nat
    BY <1>2 DEF ClaimSlot, Slot, Later, TypeOK
  <2>2. Slot(cu) <= now
    BY <2>1, FollowStarts
  <2>. QED BY <2>2 DEF Slot, Later, TypeOK
<1>. QED BY <1>1, <1>2

\* What holds at the step in which a call starts.
Start(r) ==
    /\ closedUntil' <= now
    /\ ~Waiting(r) => nextRelease <= now + Stagger

\* A step of one request changes the phase of no other.
LEMMA OthersKeepPhase ==
    ASSUME TypeOK, NEW r \in Requests, RequestStep(r), NEW s \in Requests, s # r
    PROVE  phase'[s] = phase[s]
<1>1. \E p \in Phases : phase' = [phase EXCEPT ![r] = p]
  BY Zenon DEF RequestStep, Arrive, Wake, CallReturns, Answered, Transient401, QuotaRefused, Retry,
         AskGate, ClaimSlot, FollowSlot, StartCall, GiveUp, EndAs, Phases, Pending, Final
<1>. QED BY <1>1 DEF TypeOK

\* Whatever action starts a call, it starts it behind an ended window.
LEMMA StartsBehindWindow ==
    ASSUME IInv, NEW r \in Requests, RequestStep(r), StartsCall(r)
    PROVE  Start(r)
<1>1. TypeOK /\ phase[r] # "calling" /\ phase'[r] = "calling"
  BY DEF IInv, StartsCall
<1>2. /\ closedUntil \in Nat /\ deadline[r] \in Nat /\ departure[r] \in Nat
      /\ now + WaitMax \in Nat
  BY <1>1, QuotaAssumption DEF TypeOK
<1>3. CASE Arrive(r)
  BY <1>1, <1>2, <1>3, AskStarts DEF Arrive, Start
<1>4. CASE Wake(r)
  <2>1. CASE closedUntil > departure[r]
    BY <1>1, <1>2, <1>4, <2>1, ClaimStarts DEF Wake, Start
  <2>2. CASE ~(closedUntil > departure[r])
    <3>1. departure[r] <= now
      BY <1>1, <1>2, <1>4, <2>2, FollowStarts DEF Wake
    <3>. QED BY <1>1, <1>2, <1>4, <2>2, <3>1 DEF Wake, Start, TypeOK
  <2>. QED BY <2>1, <2>2
<1>5. CASE CallReturns(r)
  BY <1>1, <1>5 DEF CallReturns, Answered, Transient401, QuotaRefused
<1>6. CASE Retry(r)
  <2>1. CASE event[r]
    <3>1. \E p \in {"cancelled499", "quota429"} : phase' = [phase EXCEPT ![r] = p]
      BY <1>6, <2>1 DEF Retry, GiveUp, EndAs
    <3>. QED BY <1>1, <3>1 DEF TypeOK
  <2>2. CASE ~event[r]
    BY <1>1, <1>2, <1>6, <2>2, AskStarts DEF Retry, Start
  <2>. QED BY <2>1, <2>2
<1>. QED BY <1>3, <1>4, <1>5, <1>6 DEF RequestStep

\* Only the request's own step starts its call.
LEMMA StartIsOwnStep ==
    ASSUME IInv, [Next]_vars, NEW r \in Requests, StartsCall(r)
    PROVE  Start(r)
<1>1. TypeOK
  BY DEF IInv
<1>2. CASE RequestStep(r)
  BY <1>2, StartsBehindWindow
<1>3. ASSUME NEW s \in Requests, s # r, RequestStep(s)
      PROVE  FALSE
  BY <1>1, <1>3, OthersKeepPhase DEF StartsCall
<1>4. CASE Tick \/ UNCHANGED vars
  BY <1>4 DEF Tick, StartsCall, vars
<1>5. ASSUME NEW s \in Requests, CancelRequest(s)
      PROVE  FALSE
  <2>1. phase' = phase \/ phase' = [phase EXCEPT ![s] = "cancelled499"]
    BY <1>5 DEF CancelRequest, EndAs
  <2>. QED BY <1>1, <2>1 DEF StartsCall, TypeOK
<1>. QED BY <1>2, <1>3, <1>4, <1>5 DEF Next

\* No call leaves for the upstream while the gate is closed, whatever the
\* number of requests and however often the window is closed again.
THEOREM CallsLeaveAnOpenGate == Spec => OpenGateOnly
<1>1. IInv /\ [Next]_vars => [\A r \in Requests : StartsCall(r) => closedUntil' <= now]_vars
  BY StartIsOwnStep DEF Start
<1>. QED BY <1>1, Invariance, PTL DEF Spec, OpenGateOnly

\* A request that finds the gate open overtakes nobody whose slot is ahead.
THEOREM NobodyOvertakes == Spec => NoOvertaking
<1>. DEFINE A == \A r, s \in Requests :
                   StartsCall(r) /\ ~Waiting(r) /\ Waiting(s) => departure[s] <= now
<1>1. IInv /\ [Next]_vars => [A]_vars
  <2> SUFFICES ASSUME IInv, [Next]_vars, NEW r \in Requests, NEW s \in Requests,
                      StartsCall(r), ~Waiting(r), Waiting(s)
               PROVE  departure[s] <= now
    OBVIOUS
  <2>1. nextRelease <= now + Stagger
    BY StartIsOwnStep DEF Start
  <2>2. departure[s] + Stagger <= nextRelease
    BY DEF IInv, SlotInv
  <2>. QED BY <2>1, <2>2, QuotaAssumption DEF IInv, TypeOK
<1>. QED BY <1>1, Invariance, PTL DEF Spec, NoOvertaking
=============================================================================

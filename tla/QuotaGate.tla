------------------------------ MODULE QuotaGate ------------------------------
(***************************************************************************)
(* The output-token quota gate of one translate provider                   *)
(* (src/services/upstream_quota.py) together with the retry loops that     *)
(* call it (_within_quota and create_stream of                             *)
(* src/providers/openai_translate.py).                                     *)
(*                                                                         *)
(* Time is the integer clock `now`.  Everything between two awaits is one  *)
(* action: wait_turn's fast path, the claim of a slot and the start of the *)
(* call it lets through all happen without yielding to the event loop.     *)
(* A sleeping request may be woken up to MaxLag late.                      *)
(***************************************************************************)
EXTENDS Integers

CONSTANTS
    Requests,     \* requests of this provider
    Streaming,    \* those that go through create_stream (the others are unary)
    Stagger,      \* RELEASE_STAGGER_S
    Margin,       \* WINDOW_MARGIN_S
    Poll,         \* _CANCEL_POLL_S
    WaitMax,      \* cfg.quota_wait_max_s
    Hints,        \* retry hints the upstream gives with a quota refusal
    MaxRetries,   \* _MAX_STREAM_401_RETRIES
    RetryDelay,   \* _STREAM_401_RETRY_DELAY_S
    MaxLag,       \* bound: how late the event loop may wake a sleeper
    StartBy,      \* bound: no request arrives after this moment
    CallMax       \* bound: longest upstream call (the httpx timeouts)

ASSUME QuotaAssumption ==
    /\ Streaming \subseteq Requests
    /\ Stagger \in Nat \ {0} /\ Margin \in Nat \ {0} /\ Poll \in Nat \ {0}
    /\ WaitMax \in Nat /\ Hints \subseteq Nat
    /\ MaxRetries \in Nat /\ RetryDelay \in Nat
    /\ MaxLag \in Nat /\ StartBy \in Nat /\ CallMax \in Nat

VARIABLES
    now,          \* time.monotonic()
    closedUntil,  \* QuotaGate._closed_until
    nextRelease,  \* QuotaGate._next_release
    phase,        \* where each request is
    departure,    \* the slot it holds while it waits
    deadline,     \* _within_quota's deadline
    due,          \* when its sleep ends or its call must have returned
    attempt,      \* create_stream's attempt counter
    event         \* active_requests[request_id].is_set()

gateVars == <<closedUntil, nextRelease>>
vars == <<now, closedUntil, nextRelease, phase, departure, deadline, due, attempt, event>>

Final == {"answered", "quota429", "cancelled499"}
Pending == {"waiting", "calling", "backoff"}
Phases == {"idle"} \cup Pending \cup Final

TypeOK ==
    /\ now \in Nat
    /\ closedUntil \in Nat
    /\ nextRelease \in Nat
    /\ phase \in [Requests -> Phases]
    /\ departure \in [Requests -> Nat]
    /\ deadline \in [Requests -> Nat]
    /\ due \in [Requests -> Nat]
    /\ attempt \in [Requests -> 0..MaxRetries]
    /\ event \in [Requests -> BOOLEAN]

Later(a, b) == IF a >= b THEN a ELSE b
Sooner(a, b) == IF a <= b THEN a ELSE b

Waiting(r) == phase[r] = "waiting"

Init ==
    /\ now = 0
    /\ closedUntil = 0
    /\ nextRelease = 0
    /\ phase = [r \in Requests |-> "idle"]
    /\ departure = [r \in Requests |-> 0]
    /\ deadline = [r \in Requests |-> 0]
    /\ due = [r \in Requests |-> 0]
    /\ attempt = [r \in Requests |-> 0]
    /\ event = [r \in Requests |-> FALSE]

-----------------------------------------------------------------------------
(* Steps of wait_turn and _within_quota, shared by the actions below.      *)

\* The moment the last claimed departure slot has passed, for a gate closed
\* until cu.
QueueClearAt(cu) == Later(cu, nextRelease - Stagger)

\* The next free departure slot of a gate closed until cu.
Slot(cu) == Later(cu, nextRelease)

\* The request ends: its entry leaves active_requests and its locals are gone.
EndAs(r, outcome) ==
    /\ phase' = [phase EXCEPT ![r] = outcome]
    /\ departure' = [departure EXCEPT ![r] = 0]
    /\ due' = [due EXCEPT ![r] = 0]
    /\ event' = [event EXCEPT ![r] = FALSE]

\* wait_turn returned False: 499 when the cancel event is set, else 429.
GiveUp(r) == EndAs(r, IF event[r] THEN "cancelled499" ELSE "quota429")

\* wait_turn returned True: the upstream call starts in the same step.
StartCall(r) ==
    /\ phase' = [phase EXCEPT ![r] = "calling"]
    /\ departure' = [departure EXCEPT ![r] = 0]
    /\ due' = [due EXCEPT ![r] = now + CallMax]
    /\ UNCHANGED event

\* Mutant of FollowSlot: the cancel event is not looked at while waiting.
FollowSlotDeaf(r, slot) ==
    IF slot <= now THEN StartCall(r)
    ELSE /\ phase' = [phase EXCEPT ![r] = "waiting"]
         /\ departure' = [departure EXCEPT ![r] = slot]
         /\ due' = [due EXCEPT ![r] = now + Sooner(slot - now, Poll)]
         /\ UNCHANGED event

\* One turn of wait_turn's loop with a slot behind the closed window: go when
\* it has come, leave when cancelled, else sleep for at most Poll.
FollowSlot(r, slot) ==
    IF slot <= now THEN StartCall(r)
    ELSE IF event[r] THEN GiveUp(r)
    ELSE /\ phase' = [phase EXCEPT ![r] = "waiting"]
         /\ departure' = [departure EXCEPT ![r] = slot]
         /\ due' = [due EXCEPT ![r] = now + Sooner(slot - now, Poll)]
         /\ UNCHANGED event

\* Mutant of ClaimSlot: _departure() does not move the next release.
ClaimSlotInPack(r, cu, dl) ==
    IF Slot(cu) > dl
    THEN GiveUp(r) /\ UNCHANGED nextRelease
    ELSE FollowSlot(r, Slot(cu)) /\ nextRelease' = Slot(cu)

\* Mutant of ClaimSlot: the deadline is not checked when a slot is claimed.
ClaimSlotAnyway(r, cu, dl) ==
    FollowSlot(r, Slot(cu)) /\ nextRelease' = Slot(cu) + Stagger

\* _departure(): claim the next slot of a gate closed until cu and follow it;
\* a slot beyond the deadline dl is not claimed and ends the request.
ClaimSlot(r, cu, dl) ==
    IF Slot(cu) > dl
    THEN GiveUp(r) /\ UNCHANGED nextRelease
    ELSE FollowSlot(r, Slot(cu)) /\ nextRelease' = Slot(cu) + Stagger

\* Mutant of AskGate: the gate counts as open once its window has ended, the
\* queue of claimed slots notwithstanding.
AskGateOfWindow(r, cu, dl) ==
    IF cu <= now
    THEN StartCall(r) /\ UNCHANGED nextRelease
    ELSE ClaimSlot(r, cu, dl)

\* wait_turn called by r at a gate closed until cu.
AskGate(r, cu, dl) ==
    IF QueueClearAt(cu) <= now
    THEN StartCall(r) /\ UNCHANGED nextRelease
    ELSE ClaimSlot(r, cu, dl)

-----------------------------------------------------------------------------
(* Actions.                                                                *)

\* A request reaches _within_quota: its deadline is fixed and it asks the gate.
Arrive(r) ==
    /\ phase[r] = "idle"
    /\ now <= StartBy
    /\ deadline' = [deadline EXCEPT ![r] = now + WaitMax]
    /\ AskGate(r, closedUntil, now + WaitMax)
    /\ UNCHANGED <<now, closedUntil, attempt>>

\* Mutant of Wake: a window closed again while the request slept goes unnoticed.
WakeOnOldSlot(r) ==
    /\ Waiting(r)
    /\ due[r] <= now
    /\ FollowSlot(r, departure[r])
    /\ UNCHANGED <<now, gateVars, deadline, attempt>>

\* The sleep of a waiting request ends.  A gate that was closed again past the
\* slot moves the request to a new slot; otherwise it follows the one it has.
Wake(r) ==
    /\ Waiting(r)
    /\ due[r] <= now
    /\ IF closedUntil > departure[r]
       THEN ClaimSlot(r, closedUntil, deadline[r])
       ELSE FollowSlot(r, departure[r]) /\ UNCHANGED nextRelease
    /\ UNCHANGED <<now, closedUntil, deadline, attempt>>

\* The call returns a result, or an error that is not a quota refusal.
Answered(r) ==
    /\ phase[r] = "calling"
    /\ EndAs(r, "answered")
    /\ UNCHANGED <<now, gateVars, deadline, attempt>>

\* The call is refused for quota: close() the gate for the hinted window (a
\* later moment wins) and ask it again.
QuotaRefused(r, hint) ==
    /\ phase[r] = "calling"
    /\ closedUntil' = Later(closedUntil, now + hint + Margin)
    /\ AskGate(r, closedUntil', deadline[r])
    /\ UNCHANGED <<now, deadline, attempt>>

\* Mutant of Transient401: no limit on the attempts.
Transient401Always(r) ==
    /\ phase[r] = "calling"
    /\ r \in Streaming
    /\ phase' = [phase EXCEPT ![r] = "backoff"]
    /\ due' = [due EXCEPT ![r] = now + RetryDelay]
    /\ UNCHANGED <<now, gateVars, departure, deadline, attempt, event>>

\* A transient 401 of a stream: sleep and try again while attempts remain.
Transient401(r) ==
    /\ phase[r] = "calling"
    /\ r \in Streaming
    /\ attempt[r] < MaxRetries
    /\ phase' = [phase EXCEPT ![r] = "backoff"]
    /\ due' = [due EXCEPT ![r] = now + RetryDelay]
    /\ UNCHANGED <<now, gateVars, departure, deadline, attempt, event>>

\* Mutant of Retry: a cancelled request neither raises nor tries again.
RetryUncancelled(r) ==
    /\ phase[r] = "backoff"
    /\ due[r] <= now
    /\ ~event[r]
    /\ attempt' = [attempt EXCEPT ![r] = @ + 1]
    /\ deadline' = [deadline EXCEPT ![r] = now + WaitMax]
    /\ AskGate(r, closedUntil, now + WaitMax)
    /\ UNCHANGED <<now, closedUntil>>

\* create_stream's next attempt: checks the cancel event, then enters
\* _within_quota again, which fixes a new deadline.
Retry(r) ==
    /\ phase[r] = "backoff"
    /\ due[r] <= now
    /\ attempt' = [attempt EXCEPT ![r] = @ + 1]
    /\ IF event[r]
       THEN GiveUp(r) /\ UNCHANGED <<nextRelease, deadline>>
       ELSE /\ deadline' = [deadline EXCEPT ![r] = now + WaitMax]
            /\ AskGate(r, closedUntil, now + WaitMax)
    /\ UNCHANGED <<now, closedUntil>>

\* cancel_request() sets the event of a registered request.  A unary request
\* waits for it beside its call and ends at once; a stream looks at it later.
CancelRequest(r) ==
    /\ phase[r] \in Pending
    /\ ~event[r]
    /\ IF r \in Streaming
       THEN event' = [event EXCEPT ![r] = TRUE] /\ UNCHANGED <<phase, departure, due>>
       ELSE EndAs(r, "cancelled499")
    /\ UNCHANGED <<now, gateVars, deadline, attempt>>

\* Time passes while a request is pending or may still arrive, but never past
\* the moment by which a due sleeper or call must have run.
Tick ==
    /\ \A r \in Requests : phase[r] \in Pending => now < due[r] + MaxLag
    /\ \/ \E r \in Requests : phase[r] \in Pending
       \/ now < StartBy
    /\ now' = now + 1
    /\ UNCHANGED <<gateVars, phase, departure, deadline, due, attempt, event>>

CallReturns(r) == Answered(r) \/ Transient401(r) \/ \E hint \in Hints : QuotaRefused(r, hint)

RequestStep(r) == Arrive(r) \/ Wake(r) \/ CallReturns(r) \/ Retry(r)

Next == Tick \/ \E r \in Requests : RequestStep(r) \/ CancelRequest(r)

Spec == Init /\ [][Next]_vars

\* Timers fire and calls return (the HTTP client has timeouts, and an answer whose bytes
\* keep coming is taken to end); nothing makes a client send a request or cancel one.
Fairness ==
    /\ WF_vars(Tick)
    /\ \A r \in Requests : WF_vars(Wake(r)) /\ WF_vars(CallReturns(r)) /\ WF_vars(Retry(r))

FairSpec == Spec /\ Fairness

-----------------------------------------------------------------------------
(* Properties.                                                             *)

\* Two requests waiting behind the gate never hold slots closer than the
\* stagger, so that a pack of subagents does not wake up together.
SlotsStaggered ==
    \A r, s \in Requests :
        r # s /\ Waiting(r) /\ Waiting(s) =>
            departure[r] + Stagger <= departure[s] \/ departure[s] + Stagger <= departure[r]

\* A request never waits past its deadline (up to the lag of the event loop),
\* however many times the window is closed again while it waits.
WaitBounded ==
    \A r \in Requests : Waiting(r) => now <= deadline[r] + MaxLag

\* No call leaves for the upstream while the gate is closed, neither a newcomer
\* nor a waiter whose slot came before the window was closed again.
StartsCall(r) == phase[r] # "calling" /\ phase'[r] = "calling"

OpenGateOnly ==
    [][\A r \in Requests : StartsCall(r) => closedUntil' <= now]_vars

\* A request that finds the gate open does not overtake one whose slot is still
\* ahead, even after the window itself has ended.
NoOvertaking ==
    [][\A r, s \in Requests :
         StartsCall(r) /\ ~Waiting(r) /\ Waiting(s) => departure[s] <= now]_vars

\* The inductive invariant behind the safety properties: every slot held lies at
\* least a stagger before the next free one, slots are a stagger apart, a slot
\* lies within the deadline of the request that claimed it, a sleeper is due no
\* later than its slot, and time never runs past what is due.
SlotInv ==
    \A r \in Requests : Waiting(r) =>
        /\ departure[r] + Stagger <= nextRelease
        /\ departure[r] <= deadline[r]
        /\ due[r] <= departure[r]

DueInv == \A r \in Requests : phase[r] \in Pending => now <= due[r] + MaxLag

\* Only a request that has a retry left is in its backoff sleep.
BackoffInv == \A r \in Requests : phase[r] = "backoff" => attempt[r] < MaxRetries

IInv == TypeOK /\ SlotInv /\ SlotsStaggered /\ DueInv /\ BackoffInv

\* Every request that arrived is answered in the end, whatever the upstream
\* answers and however often the window closes.
EveryRequestEnds ==
    \A r \in Requests : phase[r] \in Pending ~> phase[r] \in Final
=============================================================================

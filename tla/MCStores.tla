------------------------------ MODULE MCStores ------------------------------
(* The three stores of the router for TLC, one at a time: the time-limited   *)
(* dictionary under the thread store and the reasoning cache, the            *)
(* continuations rebuilt from it, and the request log.  The log has two-hour *)
(* days, a retention of two of them, a stream that breaks after its first    *)
(* tokens and a capability rejection; the requests in it are interchangeable *)
(* (of the others only a few states are saved, for many permutations).       *)
EXTENDS TtlStore, MessageThreads, RequestLog, TLC

CONSTANTS MaxTime, k1, k2, k3, v1, v2, c1, c2, r1, r2, r3, t1, t2, q1, q2

VARIABLE store   \* which one is used

allVars == <<store, storeVars, vars, logVars>>

-----------------------------------------------------------------------------
MCWindowDays == [w \in {"day", "month", "all"} |->
                    CASE w = "day" -> 1 [] w = "month" -> 3 [] OTHER -> Null]

Kind(endpoint, model, provider, status, error, rejected, spoke, tokens) ==
    [endpoint |-> endpoint, model |-> model, provider |-> provider, status |-> status,
     error |-> error, rejected |-> rejected, stream |-> spoke, spoke |-> spoke,
     generation |-> 2, tokens |-> tokens, priced |-> model = "opus"]

MCKinds == {
    Kind("messages", "opus", "anthropic", 200, TRUE, FALSE, TRUE, 2),
    Kind("messages", "glm", "other", 400, FALSE, TRUE, FALSE, 1)}

MCOldRows ==
    {[id |-> "old", ts |-> 2, endpoint |-> "messages", model |-> "glm",
      provider |-> "other", status |-> 200, error |-> FALSE, rejected |-> FALSE,
      stream |-> TRUE, tokens |-> 1, priced |-> FALSE, generation |-> Null]}

Bound(dateOnly, t, offset) == [dateOnly |-> dateOnly, at |-> t, offset |-> offset]

\* Named windows, one of them unknown, and days up to the second, from an instant
\* written with an offset.
MCAsks ==
    [window : {"day", "week"}, start : {Null}, end : {Null}]
    \cup [window : {Null}, start : {Bound(FALSE, 1, 1)}, end : {Bound(TRUE, 4, 0)}]

-----------------------------------------------------------------------------
Symmetry == Permutations(Routed)

Uses(s) ==
    /\ store = s /\ UNCHANGED store
    /\ s # "dictionary" => UNCHANGED storeVars
    /\ s # "threads" => UNCHANGED vars
    /\ s # "log" => UNCHANGED logVars

MCInit == store \in {"dictionary", "threads", "log"} /\ StoreInit /\ Init /\ LogInit

MCNext ==
    \/ Uses("dictionary") /\ StoreNext
    \/ Uses("threads") /\ Next
    \/ Uses("log") /\ LogNext

MCSpec == MCInit /\ [][MCNext]_allVars

InTime == now <= MaxTime
=============================================================================

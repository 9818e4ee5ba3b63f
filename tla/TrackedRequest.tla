---------------------------- MODULE TrackedRequest ----------------------------
(***************************************************************************)
(* What the router promises for every request it routes, whatever happens  *)
(* to the client, the upstream and the tasks in between: its outcome is    *)
(* handed to the monitor exactly once, and what it holds (the upstream     *)
(* response, its cancellation entry) is given back once and never taken    *)
(* again.                                                                  *)
(***************************************************************************)

CONSTANT Outcomes   \* the outcomes the monitor can be told

VARIABLES
    account,  \* "inflight" or the outcome the monitor was told
    holds     \* whether the request still holds something

vars == <<account, holds>>

Init == account = "inflight" /\ holds = TRUE

\* The outcome reaches the monitor.
Finish == account = "inflight" /\ account' \in Outcomes

\* Everything the request held is given back.
GiveBack == holds = TRUE /\ holds' = FALSE

Next ==
    \/ Finish /\ UNCHANGED holds
    \/ GiveBack /\ UNCHANGED account
    \/ Finish /\ GiveBack

Spec == Init /\ [][Next]_vars

\* Both happen in the end.
Settled == account # "inflight" /\ holds = FALSE
=============================================================================

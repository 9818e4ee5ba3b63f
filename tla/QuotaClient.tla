----------------------------- MODULE QuotaClient -----------------------------
(***************************************************************************)
(* The quota gate seen from the client: when its client left and when its  *)
(* cancel event was set.                                                   *)
(*                                                                         *)
(* ContractSpec lets anyone call cancel_request, which is what wait_turn's *)
(* is_cancelled parameter allows for.  WiredSpec is the router as it is:   *)
(* the only callers of cancel_request are the stream converters, and these *)
(* run after create_stream has returned, so a client that leaves while its *)
(* request waits sets no event.                                            *)
(***************************************************************************)
EXTENDS QuotaGate

VARIABLES
    leftAt,      \* when the client closed the connection, -1 while it is there
    cancelledAt  \* when the cancel event was set, -1 while it is not

clientVars == <<vars, leftAt, cancelledAt>>

ClientInit ==
    /\ Init
    /\ leftAt = [r \in Requests |-> -1]
    /\ cancelledAt = [r \in Requests |-> -1]

GateStep ==
    /\ Tick \/ \E r \in Requests : RequestStep(r)
    /\ UNCHANGED <<leftAt, cancelledAt>>

ContractCancel(r) ==
    /\ CancelRequest(r)
    /\ cancelledAt' = [cancelledAt EXCEPT ![r] = now]
    /\ UNCHANGED leftAt

\* The client closes its connection while the handler is still running.
ClientLeaves(r) ==
    /\ phase[r] \in Pending
    /\ leftAt[r] = -1
    /\ leftAt' = [leftAt EXCEPT ![r] = now]
    /\ UNCHANGED <<vars, cancelledAt>>

ContractNext == GateStep \/ \E r \in Requests : ContractCancel(r)
WiredNext == GateStep \/ \E r \in Requests : ClientLeaves(r)

ContractSpec == ClientInit /\ [][ContractNext]_clientVars
WiredSpec == ClientInit /\ [][WiredNext]_clientVars

-----------------------------------------------------------------------------
\* A request whose cancel event was set while it waits is not sent to the
\* upstream, unless its slot comes within one poll interval.
CancelNoticed ==
    [][\A r \in Requests :
         StartsCall(r) /\ Waiting(r) /\ event[r] => now <= cancelledAt[r] + Poll + MaxLag]_clientVars

\* "How often a waiting request checks whether its client is still there"
\* (src/services/upstream_quota.py:74), "Cooperative cancellation is checked
\* between attempts via client_channel.is_disconnected()"
\* (src/providers/openai_translate.py:610): a waiting request whose client has
\* been gone for longer than the poll interval is not sent to the upstream.
GoneClientNotCalled ==
    [][\A r \in Requests :
         StartsCall(r) /\ Waiting(r) /\ leftAt[r] >= 0 => now <= leftAt[r] + Poll + MaxLag]_clientVars
=============================================================================

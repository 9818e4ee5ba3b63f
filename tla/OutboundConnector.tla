--------------------------- MODULE OutboundConnector ---------------------------
(***************************************************************************)
(* One use of the outbound connector of the forward proxy                  *)
(* (OutboundConnector of src/proxy/outbound.py over retry_connect of        *)
(* src/services/retry.py): an upstream is reached directly or through the   *)
(* corporate proxy, with TLS for a decrypted session and without for a      *)
(* blind tunnel, in a bounded number of attempts with pauses.               *)
(***************************************************************************)
EXTENDS Naturals

CONSTANT MaxAttempts   \* retry_max_attempts

ASSUME AttemptsAssumption == MaxAttempts \in Nat \ {0}

VARIABLES
    dial,      \* where the attempt is
    route,     \* how the upstream is reached: through the proxy, over TLS
    attempt,   \* its number
    sockets    \* connections to an upstream that are open and not closed

connectorVars == <<dial, route, attempt, sockets>>

Routes == [proxied : BOOLEAN, secure : BOOLEAN]
Trying == {"dialing", "asking", "handshaking", "pausing"}

ConnectorTypeOK ==
    /\ dial \in Trying \cup {"idle", "given", "failed"}
    /\ route \in Routes
    /\ attempt \in 0..MaxAttempts
    /\ sockets \in Nat

ConnectorInit ==
    /\ dial = "idle" /\ attempt = 0 /\ sockets = 0
    /\ route = [proxied |-> FALSE, secure |-> FALSE]

-----------------------------------------------------------------------------
\* open() and open_tls(): uses_upstream_proxy decides how.
Connect(secure) ==
    /\ dial = "idle"
    /\ \E proxied \in BOOLEAN : route' = [proxied |-> proxied, secure |-> secure]
    /\ dial' = "dialing" /\ attempt' = 1
    /\ UNCHANGED sockets

\* A failed attempt is repeated after a pause; the failure of the last one goes to
\* the caller.
AttemptFails ==
    /\ dial' = IF attempt < MaxAttempts THEN "pausing" ELSE "failed"
    /\ UNCHANGED <<route, attempt>>

\* The TCP connection stands, to the upstream or to the proxy.
Reached ==
    /\ dial = "dialing"
    /\ sockets' = sockets + 1
    /\ dial' = IF route.proxied THEN "asking" ELSE IF route.secure THEN "handshaking" ELSE "given"
    /\ UNCHANGED <<route, attempt>>

\* No connection in time: asyncio closes the socket itself.
Unreached ==
    /\ dial = "dialing"
    /\ AttemptFails
    /\ UNCHANGED sockets

\* The proxy answers the CONNECT with a success.
Granted ==
    /\ dial = "asking"
    /\ dial' = IF route.secure THEN "handshaking" ELSE "given"
    /\ UNCHANGED <<route, attempt, sockets>>

Secured ==
    /\ dial = "handshaking"
    /\ dial' = "given"
    /\ UNCHANGED <<route, attempt, sockets>>

\* A refusal, an answer that does not parse, a proxy that closes or stays silent; or
\* a TLS handshake that fails or lasts too long.  The writer is closed.
Refused ==
    /\ dial \in {"asking", "handshaking"}
    /\ sockets' = sockets - 1
    /\ AttemptFails

PauseEnds ==
    /\ dial = "pausing"
    /\ dial' = "dialing" /\ attempt' = attempt + 1
    /\ UNCHANGED <<route, sockets>>

ConnectorStep == Reached \/ Unreached \/ Granted \/ Secured \/ Refused \/ PauseEnds

\* What comes at the latest with a timeout or the end of a pause.
ConnectorTimeouts == Unreached \/ Refused \/ PauseEnds

-----------------------------------------------------------------------------
\* The connector holds no connection but that of the attempt under way or of the
\* one that succeeded: a failed attempt leaves nothing open behind its retries.
OneSocket ==
    dial # "idle" => sockets = IF dial \in {"asking", "handshaking", "given"} THEN 1 ELSE 0
=============================================================================

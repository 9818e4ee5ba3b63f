--------------------------- MODULE MCForwardProxy ---------------------------
(* The forward proxy and its process for TLC, in behaviours of their own: a  *)
(* connection and the session it may become, which takes its turns once TLS  *)
(* is up and reaches its upstreams through the connection's outbound         *)
(* connector; the certificate authority with the threads that ask it for the *)
(* context of one host; the stop of the process under two connections of the *)
(* proxy and one of the ASGI listener.  What is over stutters.               *)
EXTENDS MitmSession, ProxyConnection, CertificateAuthority, Shutdown

CONSTANTS t1, t2, c1, c2, c3

VARIABLE part   \* what the behaviour is about

connectionVars == <<vars, proxyVars, connectorVars>>
allVars == <<part, connectionVars, authorityVars, stopVars>>

\* A step of the session; it leaves "open" with what the connector came to.
InSession(Step) ==
    /\ stage = "session"
    /\ Step
    /\ caller' = client'
    /\ sockets' = IF up = "open" /\ up' = "closed" THEN sockets - 1 ELSE sockets
    /\ IF pc = "open" /\ pc' # "open"
       THEN /\ pc' \in {"pump", "write"} => dial = "given"
            /\ pc' = "failing" => dial = "failed"
            /\ dial' = "idle" /\ attempt' = 0
            /\ route' = [proxied |-> FALSE, secure |-> FALSE]
       ELSE UNCHANGED <<dial, attempt, route>>
    /\ cut' = CASE pc = "open" /\ pc' = "ended" -> "cancelled"
                [] pc = "write" /\ pc' \notin {"write", "tunnel"} -> "unwritten"
                [] OTHER -> cut
    /\ UNCHANGED <<stage, copy, idle, closed>>

SessionConnects == stage = "session" /\ pc = "open" /\ Connect(TRUE) /\ UNCHANGED <<vars, proxyVars>>

SessionOver == pc \in Over /\ SessionEnds /\ UNCHANGED vars

Outside(Step) == Step /\ UNCHANGED vars

Of(p) == part = p /\ UNCHANGED part

Connection(Step) == Of("connection") /\ Step /\ UNCHANGED <<authorityVars, stopVars>>

MCInit ==
    /\ part \in {"connection", "authority", "process"}
    /\ Init /\ ProxyInit /\ ConnectorInit /\ AuthorityInit /\ StopInit
    /\ part = "process" \/ combined

MCNext ==
    \/ Connection(Outside(IF stage = "session" THEN Dialing ELSE ProxyNext))
    \/ Connection(InSession(Next)) \/ Connection(SessionConnects) \/ Connection(SessionOver)
    \/ Of("authority") /\ AuthorityNext /\ UNCHANGED <<connectionVars, stopVars>>
    \/ Of("process") /\ StopNext /\ UNCHANGED <<connectionVars, authorityVars>>
    \/ (stage = "ended" \/ clock = MaxClock \/ process = "ended") /\ UNCHANGED allVars

MCSpec == MCInit /\ [][MCNext]_allVars

MCFairSpec ==
    /\ MCSpec
    /\ WF_allVars(Connection(Outside(HandlerStep)))
    /\ WF_allVars(Connection(Outside(DialingTimesOut)))
    /\ WF_allVars(Connection(Outside(EndOfCaller)))
    /\ WF_allVars(Connection(InSession(Timeouts \/ OwnStep \/ Opened)))
    /\ WF_allVars(Connection(SessionConnects)) /\ WF_allVars(Connection(SessionOver))
    /\ (part = "process" => StopFairness)

\* Between two requests and behind the last one nothing is held: no stream, no
\* request in flight, no upstream connection, whether the session opened it or the
\* connector for it; the exceptions are those of the parts.
NothingHeld ==
    /\ NextStartsClean /\ NothingHeldAtEnd /\ NothingLeftOpen
    /\ stage = "session" /\ pc = "reading" => sockets = 0

\* How a session shares the connector of its connection: it is the only one to use it,
\* where it opens an upstream, and the upstream of a protocol switch is lost only where
\* the cut says so.
SharedInv ==
    /\ stage \notin {"session", "closing", "ended"} => pc = "reading"
    /\ stage = "session" =>
          /\ pc # "open" => dial = "idle"
          /\ cut = "cancelled" => pc \in Over
          /\ up = "open" /\ kind = "switch" => pc \in {"write", "tunnel"} \/ cut # "no"
          /\ cut # "cancelled" =>
                sockets = IF up = "open" \/ dial \in {"asking", "handshaking", "given"} THEN 1 ELSE 0

\* The inductive invariants of the parts, and of what they share.
PartsInv == SessionInv /\ ProxyInv /\ SharedInv /\ AuthorityInv /\ StopIInv

\* Both halves of the connection's life, until its tunnel or session begins and every
\* request within the session, and the end of the process.
EverythingServed == EveryRequestEnds /\ (part = "connection" => ConnectionServed) /\ ShutdownCompletes
=============================================================================

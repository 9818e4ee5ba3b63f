------------------------------- MODULE Shutdown -------------------------------
(***************************************************************************)
(* How the process stops: the ASGI listener and the forward proxy share    *)
(* one provider registry and one request log (src/entrypoint.py,           *)
(* src/proxy/server.py, the lifespan of src/main.py).  The behaviour       *)
(* begins with both listeners up.                                          *)
(*                                                                         *)
(* Combined is entrypoint.run; otherwise the proxy runs alone              *)
(* (proxy.server.main) and closes the registry itself.                     *)
(*                                                                         *)
(* External: asyncio's Server (its wait_closed() waits for every accepted  *)
(* transport, as CPython 3.13 does, which the repository requires) and     *)
(* uvicorn's (it waits for its connections without a limit, then ends the  *)
(* lifespan).                                                              *)
(***************************************************************************)

CONSTANTS
    AsgiConns,    \* connections that reach the ASGI listener
    ProxyConns    \* and the forward proxy

ASSUME ConnsAssumption == AsgiConns \cap ProxyConns = {}

VARIABLES
    combined,   \* which entry point runs
    stop,       \* stop_requested.is_set()
    asgi,       \* where uvicorn's serve() is
    proxy,      \* where ForwardProxyServer.serve_forever() is
    transport,  \* the client's transport of each connection
    handler,    \* the task that handles it
    busy,       \* whether it has a routed request in flight
    store,      \* Monitor's request log
    unlogged,   \* connections a finished request of which was not written to it
    registry,   \* the providers' HTTP clients
    process

listenerVars == <<combined, stop, asgi, proxy>>
connVars == <<transport, handler, busy>>
stopVars == <<listenerVars, connVars, store, unlogged, registry, process>>

Conns == AsgiConns \cup ProxyConns

StopTypeOK ==
    /\ combined \in BOOLEAN /\ stop \in BOOLEAN
    /\ asgi \in {"serving", "closing", "lifespan", "done"}
    /\ proxy \in {"serving", "closing", "draining", "done"}
    /\ transport \in [Conns -> {"none", "open", "closed"}]
    /\ handler \in [Conns -> {"none", "running", "done"}]
    /\ busy \in [Conns -> BOOLEAN]
    /\ store \in {"none", "attached", "detached"}
    /\ unlogged \subseteq Conns
    /\ registry \in {"open", "closed"}
    /\ process \in {"running", "ended"}

StopInit ==
    /\ combined \in BOOLEAN
    /\ stop = FALSE
    /\ asgi = (IF combined THEN "serving" ELSE "done")
    /\ proxy = "serving"
    /\ transport = [c \in Conns |-> "none"]
    /\ handler = [c \in Conns |-> "none"]
    /\ busy = [c \in Conns |-> FALSE]
    /\ store = (IF combined THEN "attached" ELSE "none")
    /\ unlogged = {}
    /\ registry = "open"
    /\ process = "running"

-----------------------------------------------------------------------------
(* Connections.                                                            *)

\* The listener accepts a connection and starts its handler.
AcceptConn(c) ==
    /\ handler[c] = "none"
    /\ \/ c \in AsgiConns /\ asgi = "serving"
       \/ c \in ProxyConns /\ proxy = "serving"
    /\ transport' = [transport EXCEPT ![c] = "open"]
    /\ handler' = [handler EXCEPT ![c] = "running"]
    /\ UNCHANGED <<listenerVars, busy, store, unlogged, registry, process>>

\* A request arrives on it.  A stopping uvicorn starts no other request on its
\* connections; nothing tells a session of the proxy to stop.
Begin(c) ==
    /\ handler[c] = "running" /\ transport[c] = "open" /\ ~busy[c]
    /\ c \in AsgiConns => asgi = "serving"
    /\ busy' = [busy EXCEPT ![c] = TRUE]
    /\ UNCHANGED <<listenerVars, transport, handler, store, unlogged, registry, process>>

\* finish_request() of the requests of the connections C: they are counted, and
\* written to the log if one is attached.
Finished(C) ==
    /\ busy' = [c \in Conns |-> busy[c] /\ c \notin C]
    /\ unlogged' = unlogged \cup {c \in C : busy[c] /\ store = "detached"}

Finish(c) ==
    /\ busy[c]
    /\ Finished({c})
    /\ UNCHANGED <<listenerVars, transport, handler, store, registry, process>>

\* The client closes the connection, or it breaks; the handler runs on.
PeerLeaves(c) ==
    /\ transport[c] = "open"
    /\ transport' = [transport EXCEPT ![c] = "closed"]
    /\ UNCHANGED <<listenerVars, handler, busy, store, unlogged, registry, process>>

\* The handler ends when its client has left or stays silent between requests,
\* and closes the transport.
HandlerEnds(c) ==
    /\ handler[c] = "running" /\ ~busy[c]
    /\ handler' = [handler EXCEPT ![c] = "done"]
    /\ transport' = [transport EXCEPT ![c] = "closed"]
    /\ UNCHANGED <<listenerVars, busy, store, unlogged, registry, process>>

-----------------------------------------------------------------------------
(* Stopping.                                                               *)

\* SIGTERM or SIGINT: the event of the proxy and uvicorn's should_exit.
StopSignal ==
    /\ process = "running" /\ ~stop
    /\ stop' = TRUE
    /\ UNCHANGED <<combined, asgi, proxy, connVars, store, unlogged, registry, process>>

AsgiStops ==
    /\ asgi = "serving" /\ stop
    /\ asgi' = "closing"
    /\ UNCHANGED <<combined, stop, proxy, connVars, store, unlogged, registry, process>>

\* uvicorn has no connection left.
AsgiDrained ==
    /\ asgi = "closing"
    /\ \A c \in AsgiConns : handler[c] # "running"
    /\ asgi' = "lifespan"
    /\ UNCHANGED <<combined, stop, proxy, connVars, store, unlogged, registry, process>>

\* The lifespan ends: the log is detached from the monitor and closed.  uvicorn has
\* polled and slept since the signal, so the proxy is past its wait.
LifespanEnds ==
    /\ asgi = "lifespan" /\ proxy # "serving"
    /\ asgi' = "done" /\ store' = "detached"
    /\ UNCHANGED <<combined, stop, proxy, connVars, unlogged, registry, process>>

\* serve_forever leaves the wait for the event: the listening socket is closed.
ProxyStops ==
    /\ proxy = "serving" /\ stop
    /\ proxy' = "closing"
    /\ UNCHANGED <<combined, stop, asgi, connVars, store, unlogged, registry, process>>

\* The wait_closed() behind "await serving" and "async with server" is over.
ServerClosed ==
    /\ proxy = "closing"
    /\ \A c \in ProxyConns : transport[c] # "open"
    /\ proxy' = "draining"
    /\ UNCHANGED <<combined, stop, asgi, connVars, store, unlogged, registry, process>>

\* serve_forever is over; alone, it closes the registry and the process ends.
ProxyDone ==
    /\ proxy' = "done"
    /\ registry' = IF combined THEN registry ELSE "closed"
    /\ process' = IF combined THEN process ELSE "ended"

\* _drain_connections finds no connection pending, or all end in time.
Drained ==
    /\ proxy = "draining"
    /\ \A c \in ProxyConns : handler[c] # "running"
    /\ ProxyDone
    /\ UNCHANGED <<combined, stop, asgi, connVars, store, unlogged>>

\* Mutant of DrainDeadline: what missed the deadline is not cancelled.
DrainDeadlineLeaving ==
    /\ proxy = "draining"
    /\ ProxyDone
    /\ UNCHANGED <<combined, stop, asgi, connVars, store, unlogged>>

\* _DRAIN_TIMEOUT_S is over: the handlers that still run are cancelled and
\* awaited, which finishes their requests.
DrainDeadline ==
    /\ proxy = "draining"
    /\ Finished(ProxyConns)
    /\ handler' = [c \in Conns |-> IF c \in ProxyConns /\ handler[c] = "running" THEN "done" ELSE handler[c]]
    /\ ProxyDone
    /\ UNCHANGED <<combined, stop, asgi, transport, store>>

\* entrypoint.run: both tasks of the group are done.
GroupDone ==
    /\ combined /\ process = "running"
    /\ asgi = "done" /\ proxy = "done"
    /\ registry' = "closed" /\ process' = "ended"
    /\ UNCHANGED <<listenerVars, connVars, store, unlogged>>

ConnStep(c) == Finish(c) \/ HandlerEnds(c)
ClientStep(c) == AcceptConn(c) \/ Begin(c) \/ PeerLeaves(c)
AsgiStep == AsgiStops \/ AsgiDrained \/ LifespanEnds
ProxyStep == ProxyStops \/ ServerClosed \/ Drained \/ DrainDeadline

StopNext ==
    \/ StopSignal \/ AsgiStep \/ ProxyStep \/ GroupDone
    \/ \E c \in Conns : ClientStep(c) \/ ConnStep(c)

StopSpec == StopInit /\ [][StopNext]_stopVars

\* The router's own steps happen: a handler whose client has left or is silent ends,
\* and so does a request.  That is the other side's doing too: the timeouts are those of
\* one read each, and an upstream answer whose bytes keep coming is taken to end.
\* Nothing is asked of the clients, nor of the signal.
StopFairness ==
    /\ WF_stopVars(AsgiStep) /\ WF_stopVars(ProxyStep) /\ WF_stopVars(GroupDone)
    /\ \A c \in Conns : WF_stopVars(ConnStep(c))

StopFairSpec == StopSpec /\ StopFairness

-----------------------------------------------------------------------------
(* Properties.                                                             *)

\* The HTTP clients shared by both listeners are closed only behind the last
\* request, and the process ends only behind the last handler (each is awaited or
\* cancelled), in whatever order the listeners end.
RegistryOpenWhileUsed == (\E c \in Conns : busy[c]) => registry = "open"
NoHandlerAtEnd == process = "ended" => \A c \in Conns : handler[c] # "running"

EndsInOrder == RegistryOpenWhileUsed /\ NoHandlerAtEnd

\* The requests of the ASGI listener are all written to the log that its lifespan
\* owns, those that finish during the stop included.
AsgiRequestsLogged == unlogged \cap AsgiConns = {}

\* Once every client has left, a stop ends the process, although handlers of
\* clients that are gone may still be busy.
ShutdownCompletes ==
    (\A c \in Conns : <>[](transport[c] # "open")) => (stop ~> process = "ended")

\* The inductive invariant: only running handlers have requests, a listener that is
\* done has no running handler, the log goes with the ASGI listener, and what both
\* listeners share goes behind both.
StopInv ==
    /\ \A c \in Conns : busy[c] => handler[c] = "running"
    /\ asgi \in {"lifespan", "done"} => \A c \in AsgiConns : handler[c] # "running"
    /\ proxy = "done" => \A c \in ProxyConns : handler[c] # "running"
    /\ store = "detached" \/ ~combined => asgi = "done"
    /\ registry = "closed" \/ process = "ended" => asgi = "done" /\ proxy = "done"

StopIInv == StopTypeOK /\ StopInv /\ AsgiRequestsLogged

\* "once the deadline elapses, remaining connections are cancelled"
\* (src/proxy/server.py:90): after a stop no connection of the proxy goes on for
\* ever.
DrainDeadlineHolds == \A c \in ProxyConns : stop ~> handler[c] # "running"

\* "Every finished routed request is also written to a SQLite file"
\* (README.md:1208): the combined process logs the requests of both listeners.
EveryRequestLogged == unlogged = {}
=============================================================================

---------------------------- MODULE ProxyConnection ----------------------------
(***************************************************************************)
(* One client connection of the forward proxy (_handle_client of            *)
(* src/proxy/server.py): the CONNECT request is read and parsed             *)
(* (src/proxy/connect.py); a host of the allowlist gets TLS and a session   *)
(* (MitmSession, composed in MCForwardProxy), any other one a blind tunnel    *)
(* of two copying tasks (src/proxy/streams.py).                             *)
(***************************************************************************)
EXTENDS OutboundConnector

CONSTANT IdleTimeout   \* idle_timeout_s

ASSUME IdleAssumption == IdleTimeout \in Nat \ {0}

VARIABLES
    stage,    \* where the handler is
    caller,   \* whether the client is there
    copy,     \* the copying task of each direction
    idle,     \* the time since each last carried bytes
    closed,   \* what has been closed of the tunnel and the client
    cut       \* the handler was cancelled while it opened an upstream, or could not
              \* write what a tunnel begins with

proxyVars == <<stage, caller, copy, idle, closed, cut>>

Directions == {"up", "down"}

ProxyTypeOK ==
    /\ stage \in {"connect", "rejecting", "opening", "establishing", "pumping", "stopping",
                  "context", "accepting", "handshake", "session", "closing", "ended"}
    /\ caller \in {"here", "gone"}
    /\ copy \in [Directions -> {"none", "copying", "done", "silent"}]
    /\ idle \in [Directions -> 0..IdleTimeout]
    /\ closed \subseteq {"upstream", "client"}
    /\ cut \in {"no", "unwritten", "cancelled"}

ProxyInit ==
    /\ stage = "connect" /\ caller = "here"
    /\ copy = [d \in Directions |-> "none"] /\ idle = [d \in Directions |-> 0]
    /\ closed = {} /\ cut = "no"

StageIs(s) == stage' = s
Only(s) == StageIs(s) /\ UNCHANGED <<caller, copy, idle, closed, cut, connectorVars>>

-----------------------------------------------------------------------------
(* read_connect_request and _split_authority.                              *)

MaxPort == 65535

\* What becomes of a target: an IPv6 literal without its bracket or with something but
\* a port behind it, an empty host, a port that is no number or out of range is refused;
\* the default stands for a port that is missing; digits that isdigit() takes and int()
\* does not raise.
Parsed(target) ==
    CASE target.bracket \in {"open", "trailing"} \/ ~target.named -> "refused"
      [] OTHER ->
            CASE target.port = "none" -> "taken"
              [] target.port = "letters" -> "refused"
              [] target.port = "superscript" -> "raises"
              [] target.port = "digits" ->
                    IF target.number \in 1..MaxPort THEN "taken" ELSE "refused"

Targets == [bracket : {"absent", "open", "trailing", "matched"}, named : BOOLEAN,
            port : {"none", "letters", "superscript", "digits"},
            number : {0, 1, MaxPort, MaxPort + 1}]

\* A CONNECT request, to a host of the allowlist or not.
ReadConnect ==
    /\ stage = "connect"
    /\ \E target \in Targets, allowed \in BOOLEAN :
          CASE Parsed(target) = "refused" -> Only("rejecting")
            [] Parsed(target) = "raises" -> Only("closing")
            [] OTHER -> Only(IF allowed THEN "context" ELSE "opening")

\* A head that is no CONNECT, that is too long, cut off, or does not come in time.
ReadConnectFails == stage = "connect" /\ Only("rejecting")

\* The plain error response is written, or cannot be: the barrier logs it.
Reject ==
    /\ stage = "rejecting"
    /\ Only("closing")

-----------------------------------------------------------------------------
(* _serve_tunnel and pump_tunnel.                                          *)

Open ==
    /\ stage = "opening"
    /\ Connect(FALSE)
    /\ UNCHANGED proxyVars

OpenedTunnel ==
    /\ stage = "opening" /\ dial = "given"
    /\ Only("establishing")

NotOpened ==
    /\ stage = "opening" /\ dial = "failed"
    /\ Only("rejecting")

\* "200 Connection Established" is written and both directions are copied.
Establish ==
    /\ stage = "establishing"
    /\ StageIs("pumping")
    /\ copy' = [d \in Directions |-> "copying"]
    /\ UNCHANGED <<caller, idle, closed, cut, connectorVars>>

\* It cannot be written: the exception reaches the barrier, past no finally that
\* would close the upstream.
EstablishFails ==
    /\ stage = "establishing" /\ caller = "gone"
    /\ StageIs("closing") /\ cut' = "unwritten"
    /\ UNCHANGED <<caller, copy, idle, closed, connectorVars>>

Copying(d) == stage = "pumping" /\ copy[d] = "copying"

Carry(d) ==
    /\ Copying(d) /\ ~(caller = "gone" /\ d = "up")
    /\ idle[d] # 0
    /\ idle' = [idle EXCEPT ![d] = 0]
    /\ UNCHANGED <<stage, caller, copy, closed, cut, connectorVars>>

\* The end of the data, or a read or a write that fails.
CopyEnds(d) ==
    /\ Copying(d)
    /\ copy' = [copy EXCEPT ![d] = "done"]
    /\ StageIs("stopping")
    /\ UNCHANGED <<caller, idle, closed, cut, connectorVars>>

\* No byte in this direction for the idle timeout, whatever the other one carries.
CopySilent(d) ==
    /\ Copying(d) /\ idle[d] = IdleTimeout
    /\ copy' = [copy EXCEPT ![d] = "silent"]
    /\ StageIs("stopping")
    /\ UNCHANGED <<caller, idle, closed, cut, connectorVars>>

Silence ==
    /\ stage = "pumping"
    /\ \A d \in Directions : idle[d] < IdleTimeout
    /\ idle' = [d \in Directions |-> idle[d] + 1]
    /\ UNCHANGED <<stage, caller, copy, closed, cut, connectorVars>>

\* The other direction is cancelled and awaited, and both sides are closed.
PumpEnds ==
    /\ stage = "stopping"
    /\ copy' = [d \in Directions |-> "done"]
    /\ sockets' = sockets - 1 /\ closed' = closed \cup {"upstream", "client"}
    /\ StageIs("closing")
    /\ UNCHANGED <<caller, idle, cut, dial, route, attempt>>

-----------------------------------------------------------------------------
(* _serve_mitm.                                                            *)

\* The TLS context of the host is there, or could not be built.
ContextBuilt == stage = "context" /\ Only("accepting")
ContextFails == stage = "context" /\ Only("closing")

Accept ==
    /\ stage = "accepting"
    /\ \/ Only("handshake")
       \/ caller = "gone" /\ Only("closing")

\* start_tls, within its timeout, and the session.
HandshakeDone == stage = "handshake" /\ caller = "here" /\ Only("session")
HandshakeFails == stage = "handshake" /\ Only("closing")

SessionEnds == stage = "session" /\ Only("closing")

-----------------------------------------------------------------------------
\* The finally of _handle_client: close_stream, once.
CloseClient ==
    /\ stage = "closing"
    /\ closed' = closed \cup {"client"}
    /\ StageIs("ended")
    /\ UNCHANGED <<caller, copy, idle, cut, connectorVars>>

\* The task is cancelled at the drain deadline.  pump_tunnel's finally closes both
\* sides.  In open(), asyncio closes a socket that is still connecting, but the
\* handlers around the CONNECT and the handshake name only TunnelError and OSError:
\* the writer of an attempt that got further stays open.
CancelHandler ==
    /\ stage \notin {"closing", "ended", "session"}
    /\ cut' = "cancelled"
    /\ StageIs("closing")
    /\ closed' = IF stage \in {"pumping", "stopping"} THEN {"upstream", "client"} ELSE closed
    /\ sockets' = IF stage \in {"pumping", "stopping"} THEN sockets - 1 ELSE sockets
    /\ copy' = [d \in Directions |-> IF copy[d] = "copying" THEN "done" ELSE copy[d]]
    /\ dial' = IF dial \in Trying THEN "idle" ELSE dial
    /\ UNCHANGED <<caller, idle, route, attempt>>

CallerLeaves ==
    /\ caller = "here" /\ stage # "ended"
    /\ caller' = "gone"
    /\ UNCHANGED <<stage, copy, idle, closed, cut, connectorVars>>

\* The handler's own steps, which a timeout brings at the latest where they wait.
HandlerStep ==
    \/ ReadConnectFails \/ Reject \/ Open \/ OpenedTunnel \/ NotOpened
    \/ Establish \/ EstablishFails \/ PumpEnds
    \/ ContextBuilt \/ ContextFails \/ Accept \/ HandshakeFails \/ CloseClient
    \/ \E d \in Directions : CopySilent(d)

\* A read of a connection whose client left returns.
EndOfCaller == caller = "gone" /\ CopyEnds("up")

Dialing == ConnectorStep /\ UNCHANGED proxyVars
DialingTimesOut == ConnectorTimeouts /\ UNCHANGED proxyVars

TunnelStep ==
    \/ \E d \in Directions : Carry(d) \/ CopyEnds(d)
    \/ Silence

ProxyNext ==
    HandlerStep \/ ReadConnect \/ Dialing \/ TunnelStep \/ HandshakeDone \/ CancelHandler \/ CallerLeaves

ProxySpec == ProxyInit /\ ConnectorInit /\ [][ProxyNext]_<<proxyVars, connectorVars>>

-----------------------------------------------------------------------------
(* Properties.                                                             *)

\* Every connection the proxy opened for a tunnel is closed when the handler ends,
\* after any number of failed attempts; only a handler that was cancelled before its
\* tunnel began, or could not write its 200, leaves one to the garbage collector.
NothingLeftOpen ==
    /\ cut = "no" /\ stage \notin {"closing", "ended"} => OneSocket
    /\ stage = "ended" =>
        /\ "client" \in closed
        /\ sockets = 0 \/ (cut # "no" /\ "upstream" \notin closed)

\* The inductive invariant: outside of a session the connection to the upstream is the
\* connector's, it is given to a tunnel only, and what ends a tunnel closes it.
SocketInv ==
    /\ dial \in Trying => stage \in {"opening", "session"}
    /\ dial = "pausing" => attempt < MaxAttempts
    /\ stage \in {"connect", "context", "accepting", "handshake"} => dial = "idle"
    /\ stage = "rejecting" => dial \in {"idle", "failed"}
    /\ stage \in {"establishing", "pumping", "stopping"} => dial = "given"
    /\ stage \notin {"session", "closing", "ended"} =>
          /\ sockets = IF dial \in {"asking", "handshaking", "given"} THEN 1 ELSE 0
          /\ cut = "no"
    /\ stage \notin {"closing", "ended"} => closed = {}
    /\ stage \in {"closing", "ended"} => sockets = 0 \/ (cut # "no" /\ "upstream" \notin closed)
    /\ stage = "ended" => "client" \in closed

ProxyInv == ProxyTypeOK /\ ConnectorTypeOK /\ SocketInv

\* Before its tunnel or session begins, a connection lasts no longer than its
\* timeouts, and a client that left is noticed in either case.
ConnectionServed ==
    /\ stage \in {"connect", "opening", "context"} ~> stage \in {"pumping", "session", "ended"}
    /\ caller = "gone" ~> stage \in {"session", "ended"}

\* "a legitimately long tunnel must not be cut off while bytes keep flowing"
\* (src/proxy/streams.py:52): a tunnel is cut for silence only if neither direction
\* carried a byte for the idle timeout.
FlowingTunnelStays ==
    \A d \in Directions : copy[d] = "silent" => \A e \in Directions : idle[e] = IdleTimeout
=============================================================================

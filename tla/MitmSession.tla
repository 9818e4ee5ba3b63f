------------------------------ MODULE MitmSession ------------------------------
(***************************************************************************)
(* One decrypted client connection of the forward proxy                    *)
(* (MitmHttpSession of src/proxy/session.py): requests are read, dispatched*)
(* to a provider, to the real upstream or into a blind tunnel, and answered *)
(* one after another under an error barrier.                               *)
(*                                                                         *)
(* `our` and `their` are the states of the h11 connection (external): a    *)
(* call of its send() moves `our` before the bytes are written, so a write *)
(* that fails leaves it moved.  Of the bytes of a body or of an answer the  *)
(* model keeps that they come: each read starts its timeout anew.          *)
(***************************************************************************)

VARIABLES
    pc,       \* where the coroutine of serve() is
    kind,     \* path of the current request
    mode,     \* what the response being sent is made of
    our,      \* h11 our_state
    their,    \* h11 their_state
    keep,     \* the request allows the connection to be kept alive
    source,   \* the body behind a streamed or relayed response
    result,   \* the provider's streaming result
    tracker,  \* the monitor's record of the request
    up,       \* the connection to the upstream
    client,   \* whether the client is there
    read      \* whether a read is under way, its timeout running

h11Vars == <<our, their, keep>>
workVars == <<source, result, tracker, up>>
vars == <<pc, kind, mode, our, their, keep, source, result, tracker, up, client, read>>

Kinds == {"routed", "forward", "switch"}
Over == {"ended", "raised"}

TypeOK ==
    /\ pc \in {"reading", "body", "calling", "open", "pump", "response", "head", "data",
               "release", "end", "failing", "write", "tunnel", "check"} \cup Over
    /\ kind \in Kinds \cup {"none"}
    /\ mode \in {"none", "error", "bytes", "stream", "relay"}
    /\ our \in {"IDLE", "SEND_RESPONSE", "SEND_BODY", "DONE", "MUST_CLOSE"}
    /\ their \in {"IDLE", "SEND_BODY", "DONE", "MUST_CLOSE", "CLOSED", "ERROR"}
    /\ keep \in BOOLEAN
    /\ source \in {"none", "flowing", "complete", "broken"}
    /\ result \in {"none", "held", "released"}
    /\ tracker \in {"none", "inflight", "done"}
    /\ up \in {"none", "open", "closed"}
    /\ client \in {"here", "gone"}
    /\ read \in {"none", "waiting"}
    /\ pc = "reading" => our = "IDLE" /\ their = "IDLE" /\ kind = "none"

Init ==
    /\ pc = "reading" /\ kind = "none" /\ mode = "none"
    /\ our = "IDLE" /\ their = "IDLE" /\ keep = TRUE
    /\ source = "none" /\ result = "none" /\ tracker = "none" /\ up = "none"
    /\ client = "here" /\ read = "none"

-----------------------------------------------------------------------------
(* Helpers.                                                                *)

\* The session goes on to l; no read is under way there yet.
Goto(l) == pc' = l /\ read' = "none"

\* The finally blocks of _send_result and _forward_upstream; _switch_protocol has
\* none around the upstream it opened.
Released == IF result = "held" THEN "released" ELSE result
Accounted == IF tracker = "inflight" THEN "done" ELSE tracker
UpClosed == IF up = "open" /\ kind # "switch" THEN "closed" ELSE up

\* Mutant of Raise: a stream is released only where it ends.
RaiseHolding ==
    /\ Goto(IF mode = "error" THEN "raised" ELSE "failing")
    /\ up' = UpClosed
    /\ UNCHANGED <<kind, mode, result, tracker>>

\* An exception reaches _dispatch's barrier, through the finally blocks on its
\* way; one out of _fail itself is past the barrier.
Raise ==
    /\ Goto(IF mode = "error" THEN "raised" ELSE "failing")
    /\ result' = Released /\ tracker' = Accounted /\ up' = UpClosed
    /\ UNCHANGED <<kind, mode>>

\* h11 after the end of our message: not reusable unless kept alive.
Ended == IF keep /\ their \notin {"ERROR", "CLOSED"} THEN "DONE" ELSE "MUST_CLOSE"

-----------------------------------------------------------------------------
(* _read_request.                                                          *)

\* A request head arrives and is dispatched.
RequestArrives(k, alive) ==
    /\ pc = "reading"
    /\ kind' = k /\ keep' = alive
    /\ our' = "SEND_RESPONSE" /\ their' = "SEND_BODY"
    /\ Goto(IF k = "routed" THEN "body" ELSE "open")
    /\ UNCHANGED <<mode, workVars, client>>

\* No request in time: 408.
ReadTimeout ==
    /\ pc = "reading"
    /\ Goto("failing")
    /\ UNCHANGED <<kind, mode, h11Vars, workVars, client>>

\* Bytes that are no request, or an EOF in the middle of one: 400.
ReadMalformed ==
    /\ pc = "reading"
    /\ their' = "ERROR"
    /\ Goto("failing")
    /\ UNCHANGED <<kind, mode, our, keep, workVars, client>>

\* The client closes the connection between two requests.
ReadEof ==
    /\ pc = "reading" /\ client = "gone"
    /\ our' = "MUST_CLOSE" /\ their' = "CLOSED"
    /\ Goto("ended")
    /\ UNCHANGED <<kind, mode, keep, workVars, client>>

\* The read itself fails on a connection that was reset.
ReadReset ==
    /\ pc = "reading" /\ client = "gone"
    /\ Goto("raised")
    /\ UNCHANGED <<kind, mode, h11Vars, workVars, client>>

-----------------------------------------------------------------------------
(* The reads of next_event and of the provider's HTTP client: a body or an   *)
(* answer that comes in several chunks takes several.                        *)

\* Where the session or its provider reads what the other side sends.
Reads ==
    \/ pc \in {"body", "calling", "pump", "response"}
    \/ pc = "data" /\ mode \in {"stream", "relay"}

\* A socket read begins, and its timeout with it.
ReadBegins ==
    /\ Reads /\ read = "none"
    /\ read' = "waiting"
    /\ UNCHANGED <<pc, kind, mode, h11Vars, workVars, client>>

\* Bytes arrive, and are not yet all: the next read has the whole timeout again.
BytesArrive ==
    /\ Reads /\ read = "waiting"
    /\ read' = "none"
    /\ UNCHANGED <<pc, kind, mode, h11Vars, workVars, client>>

-----------------------------------------------------------------------------
(* _handle_routed.                                                         *)

\* The request body is complete, for the router or for the upstream.
BodyComplete ==
    /\ pc \in {"body", "pump"}
    /\ their' = IF keep THEN "DONE" ELSE "MUST_CLOSE"
    /\ Goto(IF pc = "body" THEN "calling" ELSE "response")
    /\ UNCHANGED <<kind, mode, our, keep, workVars, client>>

\* Mutant of BodyFails: its reads have no timeout.
BodyFailsUntimed ==
    /\ pc \in {"body", "pump"} /\ client = "gone"
    /\ their' \in {"SEND_BODY", "ERROR"}
    /\ Raise
    /\ UNCHANGED <<our, keep, source, client>>

\* It is malformed, cut off by the client, or stays silent for too long.
BodyFails ==
    /\ pc \in {"body", "pump"}
    /\ their' \in {"SEND_BODY", "ERROR"}
    /\ Raise
    /\ UNCHANGED <<our, keep, source, client>>

\* The body names no model: answered without a provider.
NoModel ==
    /\ pc = "calling"
    /\ mode' = "bytes"
    /\ Goto("head")
    /\ UNCHANGED <<kind, h11Vars, workVars, client>>

\* The provider returns a complete body, which finishes the request at once.
ProviderAnswers ==
    /\ pc = "calling"
    /\ mode' = "bytes" /\ tracker' = "done"
    /\ Goto("head")
    /\ UNCHANGED <<kind, h11Vars, source, result, up, client>>

\* The provider returns a stream, held until it is released.
ProviderStreams ==
    /\ pc = "calling"
    /\ mode' = "stream" /\ tracker' = "inflight"
    /\ source' = "flowing" /\ result' = "held"
    /\ Goto("head")
    /\ UNCHANGED <<kind, h11Vars, up, client>>

\* The provider raises: tracker.fail, then the barrier.
ProviderRaises ==
    /\ pc = "calling"
    /\ tracker' = "done"
    /\ Goto("failing")
    /\ UNCHANGED <<kind, mode, h11Vars, source, result, up, client>>

-----------------------------------------------------------------------------
(* _forward_upstream and _switch_protocol.                                 *)

OpenFails ==
    /\ pc = "open"
    /\ Raise
    /\ UNCHANGED <<h11Vars, source, client>>

Opened ==
    /\ pc = "open"
    /\ up' = "open"
    /\ Goto(IF kind = "forward" THEN "pump" ELSE "write")
    /\ UNCHANGED <<kind, mode, h11Vars, source, result, tracker, client>>

\* Sending the request to the upstream, or reading its response head, fails.
UpstreamFails ==
    /\ pc \in {"pump", "response"}
    /\ Raise
    /\ UNCHANGED <<h11Vars, source, client>>

ResponseArrives ==
    /\ pc = "response"
    /\ mode' = "relay" /\ source' = "flowing"
    /\ Goto("head")
    /\ UNCHANGED <<kind, h11Vars, result, tracker, up, client>>

\* The raw request head goes to the upstream and the tunnel begins.
SwitchWritten ==
    /\ pc = "write"
    /\ Goto("tunnel")
    /\ UNCHANGED <<kind, mode, h11Vars, workVars, client>>

\* Writing it fails: the barrier answers, and nothing closes the upstream.
SwitchFails ==
    /\ pc = "write"
    /\ Goto("failing")
    /\ UNCHANGED <<kind, mode, h11Vars, workVars, client>>

\* One direction of the tunnel ends or stays idle: both sides are closed.
TunnelEnds ==
    /\ pc = "tunnel"
    /\ up' = "closed" /\ client' = "gone"
    /\ Goto("check")
    /\ UNCHANGED <<kind, mode, h11Vars, source, result, tracker>>

-----------------------------------------------------------------------------
(* Sending the response.                                                   *)

SendHead ==
    /\ pc = "head"
    /\ our' = "SEND_BODY"
    /\ \/ Goto("data") /\ UNCHANGED <<kind, mode, result, tracker, up>>
       \/ client = "gone" /\ Raise
    /\ UNCHANGED <<their, keep, source, client>>

\* The bytes of a complete body go out.
SendBody ==
    /\ pc = "data" /\ mode \in {"error", "bytes"}
    /\ Goto("end")
    /\ UNCHANGED <<kind, mode, h11Vars, workVars, client>>

\* The streamed or relayed body ends; a provider's stream is released first.
SourceEnds ==
    /\ pc = "data" /\ mode \in {"stream", "relay"}
    /\ source' = "complete"
    /\ Goto(IF mode = "stream" THEN "release" ELSE "end")
    /\ UNCHANGED <<kind, mode, h11Vars, result, tracker, up, client>>

\* It breaks, or stays silent for too long.
SourceBreaks ==
    /\ pc = "data" /\ mode \in {"stream", "relay"}
    /\ source' = "broken"
    /\ Raise
    /\ UNCHANGED <<h11Vars, client>>

\* A chunk cannot be sent.
SendFails ==
    /\ pc = "data" /\ client = "gone"
    /\ Raise
    /\ UNCHANGED <<h11Vars, source, client>>

\* result.aclose() of a stream that was sent to its end.
ReleaseResult ==
    /\ pc = "release"
    /\ result' = "released" /\ tracker' = "done"
    /\ Goto("end")
    /\ UNCHANGED <<kind, mode, h11Vars, source, up, client>>

\* EndOfMessage; the upstream of a relayed response is closed behind it.
SendEnd ==
    /\ pc = "end"
    /\ our' = Ended
    /\ \/ Goto("check") /\ up' = UpClosed /\ UNCHANGED <<kind, mode, result, tracker>>
       \/ client = "gone" /\ Raise
    /\ UNCHANGED <<their, keep, source, client>>

\* _fail: an error response, unless a response has begun already.
Fail ==
    /\ pc = "failing"
    /\ IF our \in {"IDLE", "SEND_RESPONSE"}
       THEN Goto("head") /\ mode' = "error"
       ELSE Goto("check") /\ UNCHANGED mode
    /\ UNCHANGED <<kind, h11Vars, workVars, client>>

-----------------------------------------------------------------------------
(* serve's loop, cancellation, and the client.                             *)

\* Mutant of NextCycle: start_next_cycle() is forgotten.
NextCycleStale ==
    /\ pc = "check" /\ our = "DONE" /\ their = "DONE"
    /\ Goto("reading") /\ kind' = "none" /\ mode' = "none" /\ source' = "none"
    /\ UNCHANGED <<h11Vars, result, tracker, up, client>>

\* Mutant of NextCycle: the request need not have been read to its end.
NextCycleEarly ==
    /\ pc = "check" /\ our = "DONE"
    /\ Goto("reading") /\ kind' = "none" /\ mode' = "none" /\ source' = "none"
    /\ our' = "IDLE" /\ their' = "IDLE" /\ keep' = TRUE
    /\ UNCHANGED <<result, tracker, up, client>>

\* The connection serves the next request only if both sides are done with
\* this one.
NextCycle ==
    /\ pc = "check" /\ our = "DONE" /\ their = "DONE"
    /\ Goto("reading") /\ kind' = "none" /\ mode' = "none" /\ source' = "none"
    /\ our' = "IDLE" /\ their' = "IDLE" /\ keep' = TRUE
    /\ UNCHANGED <<result, tracker, up, client>>

EndSession ==
    /\ pc = "check" /\ ~(our = "DONE" /\ their = "DONE")
    /\ Goto("ended")
    /\ UNCHANGED <<kind, mode, h11Vars, workVars, client>>

\* The task is cancelled (the drain deadline at shutdown): the finally blocks run.
\* The upstream of a switch whose head is being written has none.
Cancelled ==
    /\ pc \notin Over
    /\ Goto("ended")
    /\ result' = Released
    /\ tracker' = IF pc = "calling" THEN "done" ELSE Accounted
    /\ up' = IF pc = "tunnel" THEN "closed" ELSE UpClosed
    /\ UNCHANGED <<kind, mode, h11Vars, source, client>>

ClientLeaves ==
    /\ client = "here" /\ pc \notin Over
    /\ client' = "gone"
    /\ UNCHANGED <<pc, kind, mode, h11Vars, workVars, read>>

ReadStep ==
    \/ \E k \in Kinds, alive \in BOOLEAN : RequestArrives(k, alive)
    \/ ReadTimeout \/ ReadMalformed \/ ReadEof \/ ReadReset

\* What goes wrong, at the other sides or by their silence.
Failures == BodyFails \/ ProviderRaises \/ OpenFails \/ UpstreamFails \/ SourceBreaks

\* What happens at the latest when the connector has failed, or when the timeout of
\* the read under way expires.
Timeouts == OpenFails \/ (read = "waiting" /\ Failures)

\* What the other sides and the provider may do, now or never.
OtherSides ==
    \/ BytesArrive \/ BodyComplete \/ Opened \/ ResponseArrives \/ SourceEnds \/ SendFails
    \/ NoModel \/ ProviderAnswers \/ ProviderStreams

\* What the session does by itself.
OwnStep ==
    \/ ReadBegins
    \/ SwitchWritten \/ SwitchFails \/ SendHead \/ SendBody \/ ReleaseResult \/ SendEnd
    \/ Fail \/ NextCycle \/ EndSession

Next ==
    \/ ReadStep \/ Failures \/ OtherSides \/ OwnStep
    \/ TunnelEnds \/ Cancelled \/ ClientLeaves

Spec == Init /\ [][Next]_vars

\* The session's steps are those of its event loop, and a read that waits is ended by
\* its timeout unless bytes arrive; that they arrive, or stop, is not assumed.  A
\* tunnel lives as long as bytes flow.  Assumed of the other sides is only that a side
\* that stops reading leaves: a write that drains has no timeout.
Fairness == WF_vars(Timeouts \/ OwnStep)

FairSpec == Spec /\ Fairness

-----------------------------------------------------------------------------
(* Properties.                                                             *)

\* Between two requests nothing of the last one is left: no upstream connection,
\* no unreleased stream, no request in flight in the monitor.
NextStartsClean == pc = "reading" => up # "open" /\ result # "held" /\ tracker # "inflight"

\* However the session ends, a provider's stream has been released, its request
\* finished and the upstream closed; only a protocol switch that failed before its
\* tunnel began leaves its upstream connection to the garbage collector.
NothingHeldAtEnd ==
    pc \in Over =>
        /\ result # "held" /\ tracker # "inflight"
        /\ up = "open" => kind = "switch"

\* The inductive invariant.  Where the session is says what the request is and how far
\* its response has come; a source that broke is behind a response that has begun.
TurnInv ==
    /\ pc = "reading" => mode = "none"
    /\ pc \in {"body", "calling"} => kind = "routed"
    /\ pc \in {"pump", "response"} => kind = "forward"
    /\ pc = "open" => kind \in {"forward", "switch"}
    /\ pc \in {"write", "tunnel"} => kind = "switch"
    /\ pc \in {"body", "open", "pump"} \/ kind = "switch" => their = "SEND_BODY"
    /\ pc \in {"reading", "body", "calling", "open", "pump", "response", "write", "tunnel"} =>
          source = "none"
    /\ pc \in {"body", "calling", "open", "pump", "response", "write", "tunnel"} =>
          our = "SEND_RESPONSE" /\ mode = "none"
    /\ pc = "head" => our \in {"IDLE", "SEND_RESPONSE"} /\ source # "broken"
    /\ pc \in {"data", "release", "end"} => our = "SEND_BODY" /\ source # "broken"
    /\ pc = "failing" /\ our \in {"IDLE", "SEND_RESPONSE"} => source # "broken"

\* What the session holds, it holds only where a finally block is on its way out; the
\* upstream of a protocol switch is the exception.
WorkInv ==
    /\ result = "held" \/ tracker = "inflight" =>
          mode = "stream" /\ pc \in {"head", "data", "release"}
    /\ up = "open" /\ kind # "switch" =>
          pc \in {"pump", "response"} \/ (pc \in {"head", "data", "end"} /\ mode = "relay")
    /\ up = "open" => pc \notin {"reading", "open"}
    /\ pc \in {"write", "tunnel"} => up = "open"

SessionInv == TypeOK /\ TurnInv /\ WorkInv

\* The client side of the session implements the exchange it promises: one
\* response per request, ended only if its source ended, reuse only of a
\* connection on which both sides are done.
Exchange == INSTANCE HttpExchange WITH
    phase <- CASE pc \in Over -> "closed"
               [] pc \notin Over /\ our = "IDLE" -> "idle"
               [] pc \notin Over /\ our = "SEND_RESPONSE" -> "requested"
               [] pc \notin Over /\ our = "SEND_BODY" -> "responding"
               [] OTHER -> "answered",
    consumed <- their \in {"DONE", "MUST_CLOSE"},
    faithful <- source # "broken"

KeepsExchange == Exchange!Spec

\* Every request that was read is done with in the end, answered, broken off, or turned
\* into a tunnel, unless bytes keep coming for it: silence ends it wherever it falls,
\* and a body or an answer that drips for ever is all that can hold it.
EveryRequestEnds ==
    \/ []<><<BytesArrive>>_vars
    \/ (pc \notin Over \cup {"reading"}) ~> (pc \in Over \cup {"reading", "tunnel"})
=============================================================================

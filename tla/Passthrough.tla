------------------------------ MODULE Passthrough ------------------------------
(***************************************************************************)
(* The life of one request of a passthrough provider                       *)
(* (providers/passthrough.py over services/retry.py), from the first       *)
(* attempt to reach the upstream to the last byte relayed: a unary request *)
(* (count_tokens is always one) or a stream.  The transport's task runs    *)
(* all of it: body_iter and RequestTracker._wrap around it are resumed and *)
(* closed by that task only.  One action is the code between two awaits.   *)
(***************************************************************************)
EXTENDS Naturals

CONSTANTS
    Delays,      \* the number of pauses in retry_backoff_s
    MaxRelayed   \* bound: chunks the upstream sends

ASSUME DelaysAssumption == Delays \in Nat /\ MaxRelayed \in Nat

VARIABLES
    call,       \* "stream" or "unary"
    relay,      \* where the transport's task is
    tries,      \* attempts to send the request
    reached,    \* attempts whose request the upstream may have seen
    conn,       \* the upstream response
    chunks,     \* body_iter: where it is suspended
    said,       \* what the upstream has sent so far
    encoded,    \* the upstream compressed its response, relayed as it is
    inFrame,    \* the bytes yielded so far end inside a frame of the stream
    received,   \* chunks body_iter yielded
    delivered,  \* of these, chunks the transport sent
    told,       \* the client was sent the error event
    peer,       \* what is_disconnected() answers
    outcome,    \* the monitor's view of the request
    reports     \* how often Monitor.finish_request was called for it

sendVars   == <<call, tries, reached, encoded>>
bodyVars   == <<chunks, said, inFrame, received>>
reportVars == <<outcome, reports>>
relayVars  == <<sendVars, relay, conn, bodyVars, delivered, told, peer, reportVars>>

RelayTypeOK ==
    /\ call \in {"stream", "unary"}
    /\ relay \in {"connecting", "pausing", "reading", "ready", "pulling", "sending",
                  "closing", "releasing", "over"}
    /\ tries \in 0..(Delays + 1) /\ reached \in 0..tries
    /\ conn \in {"none", "open", "closed"}
    /\ chunks \in {"fresh", "at_chunk", "at_error", "ended"}
    /\ said \in {"nothing", "streaming", "complete", "cut"}
    /\ encoded \in BOOLEAN /\ inFrame \in BOOLEAN
    /\ received \in 0..MaxRelayed /\ delivered \in 0..received
    /\ told \in BOOLEAN /\ peer \in {"here", "gone"}
    /\ outcome \in {"inflight", "ok", "broken", "failed", "not_started"}
    /\ reports \in Nat

RelayInit ==
    /\ call \in {"stream", "unary"}
    /\ relay = "connecting" /\ tries = 0 /\ reached = 0
    /\ conn = "none" /\ chunks = "fresh" /\ said = "nothing"
    /\ encoded \in BOOLEAN /\ inFrame = FALSE
    /\ received = 0 /\ delivered = 0 /\ told = FALSE
    /\ peer = "here"
    /\ outcome = "inflight" /\ reports = 0

\* RequestTracker._finish: only the first outcome reaches the monitor.
Report(o) ==
    IF outcome = "inflight" THEN outcome' = o /\ reports' = reports + 1 ELSE UNCHANGED reportVars

\* upstream.aclose(), which does nothing the second time.
CloseUpstream == conn' = IF conn = "open" THEN "closed" ELSE conn

-----------------------------------------------------------------------------
(* Sending the request: retry_connect over httpx's send. *)

\* ConnectError or ConnectTimeout: nothing was sent, and while there are pauses
\* left the next attempt follows one.
ConnectFails ==
    /\ relay = "connecting" /\ tries' = tries + 1
    /\ IF tries < Delays
       THEN relay' = "pausing" /\ UNCHANGED reportVars
       ELSE relay' = "over" /\ Report("failed")
    /\ UNCHANGED <<call, encoded, reached, conn, bodyVars, delivered, told, peer>>

PauseEnds ==
    /\ relay = "pausing" /\ relay' = "connecting"
    /\ UNCHANGED <<sendVars, conn, bodyVars, delivered, told, peer, reportVars>>

\* Mutant of SendBreaks: a request that broke on its way is sent again.
SendBreaksRetried ==
    /\ relay = "connecting" /\ tries' = tries + 1
    /\ reached' \in {reached, reached + 1}
    /\ IF tries < Delays
       THEN relay' = "pausing" /\ UNCHANGED reportVars
       ELSE relay' = "over" /\ Report("failed")
    /\ UNCHANGED <<call, encoded, conn, bodyVars, delivered, told, peer>>

\* Any other transport error (no free connection in the pool, a broken write, no
\* answer in time): UpstreamError at once, whether or not the upstream saw it.
SendBreaks ==
    /\ relay = "connecting" /\ tries' = tries + 1
    /\ reached' \in {reached, reached + 1}
    /\ relay' = "over" /\ Report("failed")
    /\ UNCHANGED <<call, encoded, conn, bodyVars, delivered, told, peer>>

\* The response's head arrived.
UpstreamAnswers ==
    /\ relay = "connecting" /\ tries' = tries + 1 /\ reached' = reached + 1
    /\ conn' = "open" /\ said' = "streaming"
    /\ relay' = IF call = "stream" THEN "ready" ELSE "reading"
    /\ UNCHANGED <<call, encoded, chunks, inFrame, received, delivered, told, peer, reportVars>>

\* _proxy_unary: the body is read to its end, or breaks; the response is closed
\* either way, and what is attached or raised finishes the request.
UnaryRead ==
    /\ relay = "reading" /\ relay' = "over"
    /\ \/ said' = "complete" /\ Report("ok")
       \/ said' = "cut" /\ Report("failed")
    /\ CloseUpstream
    /\ UNCHANGED <<sendVars, chunks, inFrame, received, delivered, told, peer>>

\* The handler is cancelled (a drain deadline) before there is a result.
HandlerCancelled ==
    /\ relay \in {"connecting", "pausing", "reading"} /\ relay' = "over"
    /\ CloseUpstream /\ Report("failed")
    /\ UNCHANGED <<sendVars, bodyVars, delivered, told, peer>>

-----------------------------------------------------------------------------
(* The stream: the transport pulls body_iter through _wrap. *)

StreamBegins ==
    /\ relay = "ready" /\ relay' = "pulling"
    /\ UNCHANGED <<sendVars, conn, bodyVars, delivered, told, peer, reportVars>>

\* The head cannot be sent, or the transport is cancelled before: the body is
\* never started.
NeverBegins ==
    /\ relay = "ready" /\ relay' = "closing"
    /\ UNCHANGED <<sendVars, conn, bodyVars, delivered, told, peer, reportVars>>

Pulls == relay = "pulling" /\ chunks \in {"fresh", "at_chunk"}

RelayYields(at) == chunks' = at /\ relay' = "sending" /\ UNCHANGED <<conn, reportVars>>

\* body_iter returns: its finally closes the upstream, _wrap finishes the request.
BodyReturns ==
    /\ chunks' = "ended" /\ relay' = "closing"
    /\ CloseUpstream /\ Report("ok")

\* A chunk arrived; a client that is seen to have left ends the loop.
ChunkArrives ==
    /\ Pulls
    /\ IF peer = "gone" THEN BodyReturns /\ UNCHANGED <<received, inFrame>>
       ELSE /\ received < MaxRelayed /\ received' = received + 1
            /\ inFrame' \in BOOLEAN
            /\ RelayYields("at_chunk")
    /\ UNCHANGED <<sendVars, said, delivered, told, peer>>

UpstreamCompletes ==
    /\ Pulls /\ said' = "complete" /\ BodyReturns
    /\ UNCHANGED <<sendVars, inFrame, received, delivered, told, peer>>

\* Mutant of UpstreamCuts: the break ends the stream without a word.
UpstreamCutsQuietly ==
    /\ Pulls /\ said' = "cut" /\ BodyReturns
    /\ UNCHANGED <<sendVars, inFrame, received, delivered, told, peer>>

\* The upstream breaks or falls silent: a client that is still there is sent an
\* error event.
UpstreamCuts ==
    /\ Pulls /\ said' = "cut"
    /\ IF peer = "here" THEN RelayYields("at_error") ELSE BodyReturns
    /\ UNCHANGED <<sendVars, inFrame, received, delivered, told, peer>>

\* Resumed behind the error event, body_iter returns like after any other.
ErrorSent ==
    /\ relay = "pulling" /\ chunks = "at_error" /\ BodyReturns
    /\ UNCHANGED <<sendVars, said, inFrame, received, delivered, told, peer>>

\* The transport sent what it was given (a client that left may not be noticed).
RelaySent ==
    /\ relay = "sending" /\ relay' = "pulling"
    /\ IF chunks = "at_chunk" THEN delivered' = delivered + 1 /\ UNCHANGED told
       ELSE told' = TRUE /\ UNCHANGED delivered
    /\ UNCHANGED <<sendVars, conn, bodyVars, peer, reportVars>>

\* The send fails, or the transport is cancelled in it: the generators stay
\* suspended.
RelayStops ==
    /\ relay = "sending" /\ relay' = "closing"
    /\ UNCHANGED <<sendVars, conn, bodyVars, delivered, told, peer, reportVars>>

\* The transport is cancelled while body_iter reads: the cancellation passes its
\* finally and _wrap.
PullCancelled ==
    /\ Pulls /\ relay' = "closing" /\ chunks' = "ended"
    /\ CloseUpstream /\ Report("broken")
    /\ UNCHANGED <<sendVars, said, inFrame, received, delivered, told, peer>>

\* result.aclose(): a generator that is suspended is closed where it stands, one
\* that was never started runs nothing.
CloseStream ==
    /\ relay = "closing" /\ relay' = "releasing"
    /\ chunks' = "ended"
    /\ IF chunks \in {"at_chunk", "at_error"} THEN CloseUpstream /\ Report("broken")
       ELSE UNCHANGED <<conn, reportVars>>
    /\ UNCHANGED <<sendVars, said, inFrame, received, delivered, told, peer>>

\* ... then release(): upstream.aclose, and the request is finished if nothing was.
ReleaseStream ==
    /\ relay = "releasing" /\ relay' = "over"
    /\ CloseUpstream /\ Report("not_started")
    /\ UNCHANGED <<sendVars, bodyVars, delivered, told, peer>>

PeerLeaves ==
    /\ peer = "here" /\ relay # "over" /\ peer' = "gone"
    /\ UNCHANGED <<sendVars, relay, conn, bodyVars, delivered, told, reportVars>>

RelayStep ==
    \/ ConnectFails \/ PauseEnds \/ SendBreaks \/ UpstreamAnswers \/ UnaryRead
    \/ StreamBegins \/ NeverBegins \/ ChunkArrives \/ UpstreamCompletes \/ UpstreamCuts
    \/ ErrorSent \/ RelaySent \/ CloseStream \/ ReleaseStream

RelayCancelled == HandlerCancelled \/ RelayStops \/ PullCancelled

RelayNext == RelayStep \/ RelayCancelled \/ PeerLeaves

RelaySpec == RelayInit /\ [][RelayNext]_relayVars

\* An attempt, a read and a write end: httpx's timeouts, which are those of one read,
\* so that an answer whose chunks keep coming is taken to be finite; and a client that
\* does not read leaves.
RelayFairness == WF_relayVars(RelayStep)

-----------------------------------------------------------------------------
(* Properties. *)

\* The request keeps the promise of TrackedRequest: one outcome, and the upstream
\* connection is given back once, also by a stream that never begins.
Relayed == INSTANCE TrackedRequest WITH
    account <- outcome,
    holds <- conn = "open" \/ relay \in {"connecting", "pausing"},
    Outcomes <- {"ok", "broken", "failed", "not_started"}

RelayKeepsPromise == Relayed!Spec

\* Retries never send a request twice: only an attempt that sent nothing is
\* followed by another.
SentAtMostOnce == reached <= 1

\* A stream that counts as a success gave the client all the upstream said, or an
\* error event in place of the rest; the one other way is that the client left.
OkMeansRelayed ==
    outcome = "ok" /\ call = "stream" /\ peer = "here" =>
        delivered = received /\ (said = "complete" \/ told)

\* The inductive invariant.  Attempts are counted, and one that is followed by another
\* sent nothing.
AttemptsInv ==
    /\ relay \in {"connecting", "pausing"} =>
          /\ tries <= Delays /\ reached = 0
          /\ conn = "none"
    /\ relay = "reading" => call = "unary"
    /\ reached <= 1

\* What the body yielded and the transport has not sent is the one chunk in hand.
HandedInv ==
    /\ relay \in {"connecting", "pausing", "ready"} => received = 0 /\ chunks = "fresh"
    /\ relay = "pulling" =>
          delivered = received /\ chunks # "ended" /\ (chunks = "at_error" => told)
    /\ relay = "sending" =>
          /\ chunks \in {"at_chunk", "at_error"}
          /\ delivered = IF chunks = "at_chunk" THEN received - 1 ELSE received

\* The request is reported once, when its body ends, is closed or is released; the
\* upstream is closed then.
ReportInv ==
    /\ reports = IF outcome = "inflight" THEN 0 ELSE 1
    /\ relay \in {"connecting", "pausing", "reading", "ready", "pulling", "sending"} =>
          outcome = "inflight"
    /\ relay = "over" => outcome # "inflight" /\ conn # "open"

RelayInv == RelayTypeOK /\ AttemptsInv /\ HandedInv /\ ReportInv /\ OkMeansRelayed

\* "an ``event: error`` frame is sent -- valid at any point in the stream, giving the
\* client a diagnosable signal" (passthrough.py:420): what is sent of it can be read.
ErrorEventReadable == told => ~encoded /\ ~inFrame

\* In the end the request is over and settled.
RelayEnds == <>[](relay = "over" /\ Relayed!Settled)
=============================================================================

---------------------------- MODULE TranslateStream ----------------------------
(***************************************************************************)
(* The life of one streamed request of a translate provider, from the call *)
(* of create_stream to the last resource given back.  Three tasks of the   *)
(* event loop run it:                                                      *)
(*   - the transport (Starlette's response or MitmHttpSession._send_result) *)
(*     pulls the body, i.e. RequestTracker._wrap over _encode_sse over     *)
(*     with_keepalive, sends what it gets, and closes the result in the end;*)
(*   - the step task of with_keepalive runs one __anext__ of record_stream,*)
(*     the converter and create_chat_completion_stream under it;           *)
(*   - the finalizers of the event loop close a started generator that     *)
(*     nothing refers to any more.                                         *)
(* One action is the code between two awaits.  The request is made under a *)
(* message thread, so record_stream is in the chain.                       *)
(***************************************************************************)
EXTENDS Naturals

CONSTANT MaxChunks   \* bound: visible chunks the upstream sends

ASSUME ChunksAssumption == MaxChunks \in Nat

VARIABLES
    flavor,     \* cfg.api_flavor, for the provider's lifetime
    transport,  \* where the transport's task is
    keepalive,  \* the with_keepalive generator
    pending,    \* its step task
    conv,       \* the converter, with record_stream around it
    gen,        \* the create_chat_completion_stream generator
    upstream,   \* what the upstream has sent so far
    upClosed,   \* streaming_completion is closed on our side
    entry,      \* request_id is in active_requests
    client,     \* what is_disconnected() answers
    account,    \* the monitor's view of the request
    finishes,   \* how often Monitor.finish_request was called for it
    recorded,   \* ThreadStore.record was called with its message
    produced,   \* frames the converter yielded
    sent        \* of these, frames the transport sent

streamVars == <<conv, gen, upstream, entry>>
taskVars == <<keepalive, pending>>
vars == <<flavor, transport, keepalive, pending, conv, gen, upstream, upClosed, entry, client,
          account, finishes, recorded, produced, sent>>

Outcomes == {"ok", "broken", "failed", "not_started", "shutdown"}

TypeOK ==
    /\ flavor \in {"chat", "responses"}
    /\ transport \in {"creating", "ready", "pulling", "unwinding", "sending",
                      "closing", "releasing", "finished"}
    /\ keepalive \in {"fresh", "waiting", "at_ping", "at_frame", "abandoned",
                      "finalizing", "closed"}
    /\ pending \in {"none", "running", "frame", "stop", "cancelling", "cancelled"}
    /\ conv \in {"fresh", "body", "tail", "stopped", "errored", "closed"}
    /\ gen \in {"fresh", "open", "abandoned", "closed"}
    /\ upstream \in {"none", "streaming", "complete", "cut"}
    /\ upClosed \in BOOLEAN /\ entry \in BOOLEAN /\ recorded \in BOOLEAN
    /\ client \in {"here", "gone"}
    /\ account \in {"inflight"} \cup Outcomes
    /\ finishes \in Nat
    /\ produced \in 0..(MaxChunks + 3)
    /\ sent \in 0..produced

Init ==
    /\ flavor \in {"chat", "responses"}
    /\ transport = "creating"
    /\ keepalive = "fresh" /\ pending = "none" /\ conv = "fresh" /\ gen = "fresh"
    /\ upstream = "none" /\ upClosed = FALSE /\ entry = TRUE
    /\ client = "here"
    /\ account = "inflight" /\ finishes = 0
    /\ recorded = FALSE
    /\ produced = 0 /\ sent = 0

-----------------------------------------------------------------------------
(* Helpers.                                                                *)

\* Mutant of Finish: every caller reports, the last one wins (no _done flag).
FinishEveryTime(outcome) ==
    account' = outcome /\ finishes' = finishes + 1

\* RequestTracker._finish: only the first outcome reaches the monitor.
Finish(outcome) ==
    IF account = "inflight"
    THEN account' = outcome /\ finishes' = finishes + 1
    ELSE UNCHANGED <<account, finishes>>

\* The last reference to create_chat_completion_stream is gone: a started
\* generator goes to the finalizers, one that never ran just disappears.
Dropped(g) == CASE g = "open" -> "abandoned" [] g = "fresh" -> "closed" [] OTHER -> g

\* Mutant of CloseConverter: with_keepalive's finally does not close the frames.
LeaveConverter == UNCHANGED streamVars

\* frames.aclose(): the converter ends where it is suspended.
CloseConverter ==
    /\ conv' = "closed"
    /\ gen' = IF conv = "closed" THEN gen ELSE Dropped(gen)
    /\ UNCHANGED <<upstream, entry>>

\* Mutant of Pull: the step left over from a ping is dropped for a new one.
PullAnew ==
    /\ transport' = "pulling"
    /\ keepalive' = "waiting"
    /\ pending' = "running"

\* The transport asks the body for its next chunk: a step task is started
\* unless one is left over from a ping.
Pull ==
    /\ transport' = "pulling"
    /\ keepalive' = "waiting"
    /\ pending' = IF keepalive = "at_ping" THEN pending ELSE "running"

-----------------------------------------------------------------------------
(* Before the response starts.                                             *)

\* create_stream returned; the result is built and attached to the tracker.
StreamCreated ==
    /\ transport = "creating"
    /\ transport' = "ready"
    /\ upstream' = "streaming"
    /\ UNCHANGED <<taskVars, conv, gen, upClosed, entry, client, account, finishes,
                   recorded, produced, sent>>

\* create_stream raised ProviderError: the entry goes and an error result is
\* attached, which finishes the request at once.
CreationFails ==
    /\ transport = "creating"
    /\ transport' = "finished"
    /\ entry' = FALSE
    /\ Finish("failed")
    /\ UNCHANGED <<taskVars, conv, gen, upstream, upClosed, client, recorded, produced, sent>>

\* The handler is cancelled inside create_stream (the listener's drain deadline):
\* tracker.fail, and no handler of the provider removes the entry.
CreationCancelled ==
    /\ transport = "creating"
    /\ transport' = "finished"
    /\ Finish("shutdown")
    /\ UNCHANGED <<taskVars, streamVars, upClosed, client, recorded, produced, sent>>

\* The response head is sent and the body is pulled for the first time.
HeadSent ==
    /\ transport = "ready"
    /\ Pull
    /\ UNCHANGED <<streamVars, upClosed, client, account, finishes, recorded, produced, sent>>

\* The head could not be sent, or the transport is cancelled before it was:
\* the body is never started.
HeadFails ==
    /\ transport = "ready"
    /\ transport' = "closing"
    /\ UNCHANGED <<taskVars, streamVars, upClosed, client, account, finishes, recorded,
                   produced, sent>>

-----------------------------------------------------------------------------
(* The step task: one __anext__ of the converter.                          *)

\* The step ends with a frame; the converter is suspended in stage s.
Yields(s) ==
    /\ conv' = s
    /\ pending' = "frame"
    /\ produced' = produced + 1

\* The preamble goes out before the upstream is read (its frames as one).
YieldPreamble ==
    /\ pending = "running" /\ conv = "fresh"
    /\ Yields("body")
    /\ UNCHANGED <<gen, upstream, entry, recorded>>

ReadsUpstream == pending = "running" /\ conv = "body"

\* A chunk arrives.  The converter asks whether the client is gone before it
\* looks at it: if so it sets the cancel event and turns to the terminal frames.
ReadChunk ==
    /\ ReadsUpstream /\ ~upClosed
    /\ IF client = "gone" THEN Yields("tail")
       ELSE produced <= MaxChunks /\ Yields("body")
    /\ gen' = "open"
    /\ UNCHANGED <<upstream, entry, recorded>>

\* The upstream says it is done ([DONE], or a terminal Responses event): the
\* converter breaks out and leaves the generator suspended.
ReadTerminal ==
    /\ ReadsUpstream /\ ~upClosed
    /\ upstream' = "complete"
    /\ gen' = "open"
    /\ Yields("tail")
    /\ UNCHANGED <<entry, recorded>>

\* The connection ends without a terminal event.  The chat generator says
\* [DONE] all the same and stays suspended; the responses one runs to its end.
ReadEnd ==
    /\ ReadsUpstream /\ ~upClosed
    /\ upstream' = "cut"
    /\ IF flavor = "chat"
       THEN gen' = "open" /\ UNCHANGED entry
       ELSE gen' = "closed" /\ entry' = FALSE
    /\ Yields("tail")
    /\ UNCHANGED recorded

\* The upstream reports an error: as an APIError it ends the generator, as an
\* event of the Responses stream it leaves it suspended.
ReadError ==
    /\ ReadsUpstream /\ ~upClosed
    /\ upstream' = "cut"
    /\ \/ gen' = "closed" /\ entry' = FALSE
       \/ flavor = "responses" /\ gen' = "open" /\ UNCHANGED entry
    /\ Yields("errored")
    /\ UNCHANGED recorded

\* The transport to the upstream breaks, times out, or was closed under the
\* read by release(): a graceful finish with the terminal frames.
ReadBreaks ==
    /\ ReadsUpstream
    /\ upstream' = "cut"
    /\ gen' = "closed" /\ entry' = FALSE
    /\ Yields("tail")
    /\ UNCHANGED recorded

\* message_stop, the last terminal frame: record_stream records the message
\* before it passes the frame on.
YieldStop ==
    /\ pending = "running" /\ conv = "tail"
    /\ Yields("stopped")
    /\ recorded' = TRUE
    /\ UNCHANGED <<gen, upstream, entry>>

\* The converter returns.
ConverterEnds ==
    /\ pending = "running" /\ conv \in {"stopped", "errored"}
    /\ conv' = "closed"
    /\ gen' = Dropped(gen)
    /\ pending' = "stop"
    /\ UNCHANGED <<upstream, entry, recorded, produced>>

\* The cancelled step ends: in the read of the upstream (the generator's finally
\* drops the entry), in is_disconnected(), or before it ran at all.
StepCancelled ==
    /\ pending = "cancelling"
    /\ pending' = "cancelled"
    /\ \/ conv = "body" /\ conv' = "closed" /\ gen' = "closed" /\ entry' = FALSE
       \/ conv = "body" /\ gen = "open" /\ conv' = "closed" /\ gen' = "abandoned" /\ UNCHANGED entry
       \/ UNCHANGED <<conv, gen, entry>>
    /\ UNCHANGED <<upstream, recorded, produced>>

StepTask ==
    /\ \/ YieldPreamble \/ ReadChunk \/ ReadTerminal \/ ReadEnd \/ ReadError
       \/ ReadBreaks \/ YieldStop \/ ConverterEnds \/ StepCancelled
    /\ UNCHANGED <<flavor, transport, keepalive, upClosed, client, account, finishes, sent>>

-----------------------------------------------------------------------------
(* The transport.                                                          *)

\* The step ended with a frame; the transport sends it.
TakeFrame ==
    /\ transport = "pulling" /\ pending = "frame"
    /\ transport' = "sending"
    /\ keepalive' = "at_frame" /\ pending' = "none"
    /\ UNCHANGED <<streamVars, upClosed, client, account, finishes, recorded, produced, sent>>

\* Nothing came for interval_s: a ping goes out and the step runs on.
Ping ==
    /\ transport = "pulling" /\ pending = "running"
    /\ transport' = "sending"
    /\ keepalive' = "at_ping"
    /\ UNCHANGED <<pending, streamVars, upClosed, client, account, finishes, recorded,
                   produced, sent>>

\* The converter is exhausted: the body ends and the request is a success.
BodyEnds ==
    /\ transport = "pulling" /\ pending = "stop"
    /\ transport' = "closing"
    /\ keepalive' = "closed" /\ pending' = "none"
    /\ Finish("ok")
    /\ UNCHANGED <<streamVars, upClosed, client, recorded, produced, sent>>

\* Mutant of ChunkSent: a ping counts as a frame of the converter.
PingCounted ==
    /\ transport = "sending"
    /\ sent' = sent + 1
    /\ Pull
    /\ UNCHANGED <<streamVars, upClosed, client, account, finishes, recorded, produced>>

\* The chunk is sent (a client that left may not be noticed yet) and the next
\* one is pulled.
ChunkSent ==
    /\ transport = "sending"
    /\ sent' = IF keepalive = "at_frame" THEN sent + 1 ELSE sent
    /\ Pull
    /\ UNCHANGED <<streamVars, upClosed, client, account, finishes, recorded, produced>>

\* The send raises because the client is gone.
SendFails ==
    /\ transport = "sending" /\ client = "gone"
    /\ transport' = "closing"
    /\ UNCHANGED <<taskVars, streamVars, upClosed, client, account, finishes, recorded,
                   produced, sent>>

\* The transport is cancelled while it sends (a disconnect seen by Starlette, a
\* drain deadline): the generators stay suspended.
CancelledSending ==
    /\ transport = "sending"
    /\ transport' = "closing"
    /\ UNCHANGED <<taskVars, streamVars, upClosed, client, account, finishes, recorded,
                   produced, sent>>

\* It is cancelled while it waits for a chunk: with_keepalive's finally cancels
\* a step that is still running and waits for it to end.
CancelledPulling ==
    /\ transport = "pulling"
    /\ transport' = "unwinding"
    /\ keepalive' = "finalizing"
    /\ pending' = IF pending = "running" THEN "cancelling" ELSE pending
    /\ UNCHANGED <<streamVars, upClosed, client, account, finishes, recorded, produced, sent>>

\* with_keepalive's finally goes on once no step runs: it closes the converter,
\* and the cancellation goes on through _wrap, which finishes the request.
Unwound ==
    /\ transport = "unwinding" /\ pending # "cancelling"
    /\ transport' = "closing"
    /\ keepalive' = "closed" /\ pending' = "none"
    /\ CloseConverter
    /\ Finish("broken")
    /\ UNCHANGED <<upClosed, client, recorded, produced, sent>>

\* Mutant of CloseBody: release() leaves the entry to the generator's finally.
CloseBodyKeepingEntry ==
    /\ transport = "closing"
    /\ transport' = "releasing"
    /\ CASE keepalive \in {"at_ping", "at_frame"} ->
              /\ keepalive' = "abandoned"
              /\ Finish("broken")
              /\ UNCHANGED <<conv, gen>>
         [] keepalive = "fresh" ->
              /\ keepalive' = "closed" /\ conv' = "closed" /\ gen' = "closed"
              /\ UNCHANGED <<account, finishes>>
         [] OTHER -> UNCHANGED <<keepalive, conv, gen, account, finishes>>
    /\ UNCHANGED <<pending, upstream, upClosed, entry, client, recorded, produced, sent>>

\* result.aclose(): _wrap, if it is suspended at a yield, finishes the request and
\* closes _encode_sse, which leaves with_keepalive to the finalizers; generators
\* that never ran just go.  Then release() drops the entry.
CloseBody ==
    /\ transport = "closing"
    /\ transport' = "releasing"
    /\ entry' = FALSE
    /\ CASE keepalive \in {"at_ping", "at_frame"} ->
              /\ keepalive' = "abandoned"
              /\ Finish("broken")
              /\ UNCHANGED <<conv, gen>>
         [] keepalive = "fresh" ->
              /\ keepalive' = "closed" /\ conv' = "closed" /\ gen' = "closed"
              /\ UNCHANGED <<account, finishes>>
         [] OTHER -> UNCHANGED <<keepalive, conv, gen, account, finishes>>
    /\ UNCHANGED <<pending, upstream, upClosed, client, recorded, produced, sent>>

\* streaming_completion.close() returns; a request whose stream never started
\* is finished only now.
Release ==
    /\ transport = "releasing"
    /\ transport' = "finished"
    /\ upClosed' = TRUE
    /\ Finish("not_started")
    /\ UNCHANGED <<taskVars, streamVars, client, recorded, produced, sent>>

TransportStep ==
    /\ \/ StreamCreated \/ CreationFails \/ HeadSent \/ HeadFails
       \/ TakeFrame \/ BodyEnds \/ ChunkSent \/ SendFails \/ Unwound \/ CloseBody \/ Release
    /\ UNCHANGED flavor

Cancelled == CreationCancelled \/ CancelledSending \/ CancelledPulling

-----------------------------------------------------------------------------
(* The finalizers of the event loop, and the client.                       *)

\* The finalizer closes the abandoned with_keepalive: its finally cancels a step
\* that is still running.
FinalizeKeepalive ==
    /\ keepalive = "abandoned"
    /\ keepalive' = "finalizing"
    /\ pending' = IF pending = "running" THEN "cancelling" ELSE pending
    /\ UNCHANGED <<transport, streamVars, upClosed, client, account, finishes, recorded,
                   produced, sent>>

\* Mutant of KeepaliveFinalized: the cancelled step is not awaited.
FinalizedAtOnce ==
    /\ keepalive = "finalizing" /\ transport # "unwinding"
    /\ keepalive' = "closed"
    /\ CloseConverter
    /\ UNCHANGED <<transport, pending, upClosed, client, account, finishes, recorded, produced,
                   sent>>

\* ... and, once no step runs, closes the converter.
KeepaliveFinalized ==
    /\ keepalive = "finalizing" /\ transport # "unwinding" /\ pending # "cancelling"
    /\ keepalive' = "closed" /\ pending' = "none"
    /\ CloseConverter
    /\ UNCHANGED <<transport, upClosed, client, account, finishes, recorded, produced, sent>>

\* The finalizer closes the abandoned create_chat_completion_stream, whose
\* finally drops the entry.
FinalizeGenerator ==
    /\ gen = "abandoned"
    /\ gen' = "closed"
    /\ entry' = FALSE
    /\ UNCHANGED <<transport, taskVars, conv, upstream, upClosed, client, account, finishes,
                   recorded, produced, sent>>

Finalizers ==
    /\ FinalizeKeepalive \/ KeepaliveFinalized \/ FinalizeGenerator
    /\ UNCHANGED flavor

ClientLeaves ==
    /\ client = "here" /\ transport # "finished"
    /\ client' = "gone"
    /\ UNCHANGED <<transport, taskVars, streamVars, upClosed, account, finishes, recorded,
                   produced, sent>>

Next ==
    \/ StepTask \/ TransportStep \/ Finalizers
    \/ (Ping \/ Cancelled \/ ClientLeaves) /\ UNCHANGED flavor

Spec == Init /\ [][Next]_vars

\* Tasks that can run do; create_stream returns (timeouts, quota deadline); an upstream
\* read ends or times out, and a stream whose chunks keep coming is taken to be finite,
\* the timeout being that of one read; a client that does not read leaves.
Fairness == WF_vars(StepTask) /\ WF_vars(TransportStep) /\ WF_vars(Finalizers)

FairSpec == Spec /\ Fairness

-----------------------------------------------------------------------------
(* Properties.                                                             *)

\* Once the transport is done with a response whose stream was opened, the
\* upstream connection is closed and the cancellation entry gone, and no later
\* step of the tasks and finalizers left behind brings either back.
GivenBack == transport = "finished" /\ upstream # "none" => upClosed /\ ~entry

\* with_keepalive never goes away with a step still running inside the
\* converter: nothing closes or resumes a generator that is running.
NoOrphanStep == keepalive = "closed" => pending \notin {"running", "cancelling"}

\* A request is reported for what it was: as a success if the client got all that the
\* converter made and it ended in good order, as never started if nothing was made,
\* sent or read.
OutcomeIsTrue ==
    /\ account = "ok" => sent = produced /\ conv = "closed"
    /\ account = "not_started" => produced = 0 /\ sent = 0 /\ gen # "open"

\* record_stream's promise: a stream that ends by a break or by a client that
\* went away records nothing.
RecordsOnlyFinished == recorded => upstream = "complete"

\* The inductive invariant.  The tasks meet only in some of their places: a step runs or
\* has a result exactly while the body waits for it or sends a ping over it, and
\* generators that are left behind are left by a transport that is done with them.
PlacesInv ==
    /\ transport \in {"creating", "ready"} => keepalive = "fresh"
    /\ transport = "unwinding" => keepalive = "finalizing"
    /\ transport = "releasing" => keepalive # "fresh"
    /\ transport = "pulling" <=> keepalive = "waiting"
    /\ transport = "sending" => keepalive \in {"at_ping", "at_frame"}
    /\ keepalive \in {"at_ping", "at_frame"} => transport \in {"sending", "closing"}
    /\ keepalive = "abandoned" => transport \in {"releasing", "finished"}
    /\ keepalive = "finalizing" => transport \in {"unwinding", "releasing", "finished"}
    /\ keepalive \in {"waiting", "at_ping"} => pending \in {"running", "frame", "stop"}
    /\ keepalive \in {"fresh", "at_frame", "closed"} => pending = "none"
    /\ keepalive = "finalizing" => pending # "running"

\* The converter runs only under its step, and ends for good; what it made is bounded.
ConverterInv ==
    /\ keepalive = "fresh" => conv = "fresh" /\ gen = "fresh"
    /\ keepalive = "closed" \/ pending = "stop" => conv = "closed"
    /\ conv = "fresh" => gen = "fresh" /\ produced = 0
    /\ conv = "closed" => gen \in {"abandoned", "closed"}
    /\ conv = "body" => produced <= MaxChunks + 1
    /\ conv \in {"tail", "errored"} => produced <= MaxChunks + 2

\* While the transport goes on, what was made and not sent yet is the one frame in hand.
SentInv ==
    transport \in {"pulling", "sending"} =>
        produced = IF pending = "frame" \/ keepalive = "at_frame" THEN sent + 1 ELSE sent

\* What is given back was taken, in this order: the entry, the upstream, the account.
HeldInv ==
    /\ transport = "creating" => entry = TRUE /\ upstream = "none" /\ account = "inflight"
    /\ upstream = "none" => keepalive = "fresh" /\ transport \in {"creating", "finished"}
    /\ upstream # "none" /\ transport \in {"releasing", "finished"} => entry = FALSE
    /\ upstream # "none" /\ transport = "finished" => upClosed = TRUE

\* The request is reported once, and unreported until the transport closes the body.
AccountInv ==
    /\ finishes = IF account = "inflight" THEN 0 ELSE 1
    /\ account = "inflight" =>
          /\ transport # "finished"
          /\ keepalive # "abandoned"
          /\ keepalive = "finalizing" => transport = "unwinding"
          /\ keepalive = "closed" => transport = "releasing" /\ produced = 0
    /\ account = "ok" => keepalive = "closed" /\ sent = produced
    /\ account = "not_started" => keepalive = "closed" /\ produced = 0

StreamInv == TypeOK /\ PlacesInv /\ ConverterInv /\ SentInv /\ HeldInv /\ AccountInv

\* The request keeps the abstract promise of TrackedRequest: exactly one outcome,
\* and everything given back for good.  (The entry left by a shutdown in the
\* middle of create_stream goes with the process.)
Tracked == INSTANCE TrackedRequest WITH
    holds <- account # "shutdown" /\ (entry \/ (upstream # "none" /\ ~upClosed))

KeepsPromise == Tracked!Spec

\* In the end nothing of the request is left: the promise is settled, and no task
\* runs and no generator stays suspended.
EverythingEnds ==
    <>[](/\ transport = "finished"
         /\ Tracked!Settled
         /\ pending = "none"
         /\ upstream # "none" => keepalive = "closed" /\ conv = "closed" /\ gen = "closed")
=============================================================================

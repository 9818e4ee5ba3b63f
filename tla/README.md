# Formal model of open-harness-router

TLA+ specifications of [open-harness-router](../src/README.md), an HTTP router
that stands between an Anthropic-protocol client (Claude Code) and several LLM
upstreams: it passes requests through, translates them to OpenAI-format
upstreams, meters and logs them, and can terminate TLS as a forward proxy so
that the client need not be reconfigured. The modules here model the parts of it
that are hard to get right and hard to test: what happens when its tasks, its
upstreams and its clients interleave, fail, time out and leave.

Paths in module comments are relative to the root of the repository
(`src/services/thread_store.py`); in `PROJECT.json` they have the repository's
directory in front of them (`src/src/services/thread_store.py`).

Contents: 1 the system, 2 the modules, 3 what is checked, 4 what is proved,
5 where code and documentation disagree, 6 what is not modelled, 7 the plan.

## 1. The system

One process, one asyncio event loop. The code between two `await`s is atomic; every
`await` is a point where another task, a cancellation or a finalizer can run. Two
things run in worker threads besides: the dashboard's queries of the request log
(`api/dashboard.py:214`) and the TLS contexts of decrypted hosts
(`proxy/server.py:506`). What survives a crash is two files, the authority's key and
its certificate, and the SQLite log. The concurrency hazards below come from that.

| Component | State it keeps | Operations | Interacts with |
|---|---|---|---|
| Output-token quota gate (`services/upstream_quota.py`, loops in `providers/openai_translate.py`) | end of the closed window, next free slot | `wait_turn`, `close`; `_within_quota` and the 401 retries of `create_stream` around them | every request of its provider; the cancel events of `active_requests` |
| Translate provider, streamed request (`openai_translate.py`, `services/keepalive.py`, `providers/base.py`, `api/adapters.py`) | the chain of generators, the step task, `active_requests` | `create_stream`, one `__anext__` at a time, ping, cancel, `aclose`, `release` | transport, upstream, monitor, finalizers of the event loop |
| Response converters (`conversion/response_converter.py`) | open blocks, argument buffers, stop reason, usage | one upstream event at a time | thread store (reads their frames), reasoning cache |
| Thread store, reasoning cache (`services/thread_store.py`, `services/reasoning_cache.py`) | ordered dict of timestamped entries | `record`, `record_stream`, `resume`; `store`, `get` | client (continuations), translate provider |
| MITM session (`proxy/session.py`, `proxy/streams.py`) | h11 state of both directions, current upstream, current result | `serve` and its dispatch, error barrier | client, providers, real upstream, drain |
| Forward proxy listener, tunnels, outbound connector (`proxy/server.py`, `connect.py`, `outbound.py`) | set of connection tasks, TLS contexts | accept, CONNECT, tunnel, drain | MITM sessions, process lifecycle |
| Process lifecycle (`entrypoint.py`, `main.py`, `proxy/server.py`) | stop event, both listeners, log, registry | start, stop signal, drain, close | everything shared by both listeners |
| Request monitor (`services/monitor.py`) | in-flight records, counters, feed | `start_request`, `attach`, `finish_request` | every routed request, request log |
| Request log (`services/request_store.py`) | SQLite connection, retention | append, prune, window queries | monitor, dashboard |
| Passthrough provider (`providers/passthrough.py`, `services/retry.py`, `http_transport.py`) | HTTP client | connect with retries, stream | upstream, monitor |
| Routing (`routing/*`) | immutable configuration, providers | resolve model to provider, `close_all` | API, MITM session |
| Certificate authority, TLS contexts (`proxy/certificates.py`, `proxy/tls.py`) | CA key and certificate files, leaf cache | load or create, issue | proxy listener |
| HTTP API and dashboard (`api/*`) | none | handlers over registry and monitor | routing, monitor |
| Command line tools (`cli/*`) | files of the operator | release, client configuration, probes | none of the above |

What makes each of them correct, and what is hard about it:

* *Quota gate.* Requests queue behind a refusal and leave one stagger apart; a
  new refusal while they sleep must not let an old slot out, a newcomer must not
  overtake, a moving slot must not outlast the deadline, a cancelled sleeper must
  notice. Hard: every sleeper re-reads shared state after its sleep.
* *Streamed request.* The monitor hears exactly one outcome, and the upstream
  connection and the cancel entry are given back, although the transport, the
  keepalive's step task and two kinds of finalizer may each be the one to end
  it. Hard: a generator cannot be closed while it runs, a `finally` of one that
  never started does not run, and a ping may go out in the middle of a step.
* *Thread store.* A continuation must rebuild the conversation the client means
  although entries expire, are evicted, overwritten, recorded by abandoned
  requests and resumed twice.
* *MITM session.* A kept-alive connection must never be reused out of step, and
  no failure at any point may leave a stream, an upstream connection or a
  monitor record behind.
* *Lifecycle.* What both listeners share must outlive both.
* *Proxied connections.* From CONNECT on, every wait must end and every socket opened
  for the client must be closed, through retries, an upstream proxy, TLS and
  cancellation; bytes that flow must go on flowing.
* *Passthrough.* A request that may have reached the upstream is never sent again, and
  what is counted as a success was one.
* *Certificates.* After a crash at any point the key and certificate in use belong
  together; threads that race never serve a certificate past its renewal.
* *Request log and monitor.* A failed commit, a crash, a prune and a version change must
  not lose or revive rows, and the panels of one dashboard answer, read in ten queries,
  must add up.
* *Routing.* Whatever file passes the validation must route every model to the rule its
  operator wrote for it, with limits that leave room for an answer. Hard: a dozen
  validators, each of one aspect, must together exclude every bad combination.
* *Headers, tools, conversion.* Pure, but with many cases that meet: spellings, repeated
  lines, credentials; deferred tools that are loaded later in the conversation; system
  text between tool calls and their results.

## 2. The modules

| Module | Models | Kind |
|---|---|---|
| `QuotaGate` | `upstream_quota.py`; `_within_quota`, `create_stream`'s retries | component |
| `QuotaClient` | the gate with the client's departures and cancellations | composition over `QuotaGate` |
| `TrackedRequest` | what the router promises for every routed request | abstract specification |
| `TranslateStream` | the life of a streamed request of a translate provider | implements `TrackedRequest` |
| `HttpExchange` | what a proxied client connection promises the client | abstract specification |
| `MitmSession` | `MitmHttpSession` | implements `HttpExchange` |
| `RecentWrites` | what the two bounded stores promise | abstract specification |
| `TtlStore` | `ThreadStore._entries`, `ReasoningCache._entries` | implements `RecentWrites` |
| `MessageThreads` | create / continue / retry over the thread store | component with its client |
| `MessageStream` | a streamed Anthropic message as its reader understands it | abstract specification |
| `ResponseConverter` | both stream converters of `response_converter.py` | implements `MessageStream` |
| `Shutdown` | stopping of both listeners and what they share | component |
| `Passthrough` | a request of a passthrough provider | implements `TrackedRequest` |
| `OutboundConnector` | one use of `OutboundConnector`, with its retries | component |
| `ProxyConnection` | `_handle_client`: CONNECT, tunnel, TLS | component over `OutboundConnector` |
| `CertificateAuthority` | `certificates.py`, the context cache of `server.py` | component |
| `LogQueries` | the SQL of `request_store.py` and its windows, as functions | pure |
| `RequestLog` | the log, the monitor's counters, the dashboard that reads both | component over `LogQueries` |
| `Routing` | routing file, registry, token budget of a translate provider | component |
| `RequestHeaders` | `header_utils.py`, headers of both directions | component |
| `Selections` | list comprehensions over tools, blocks and messages | pure |
| `ToolVisibility` | `tool_visibility.py`, `visible_tools`, `cap_tools` | component |
| `RequestConverter` | `request_converter.py` | component |
| `QuotaGateProofs`, `MessageThreadsProofs`, `ResponseConverterProofs` | theorems about the module they are named after | proofs |
| `RequestStreamProofs` | theorems about `TranslateStream`, `Passthrough` and their composition | proofs |
| `ForwardProxyProofs` | theorems about `MitmSession`, `OutboundConnector`, `ProxyConnection`, `CertificateAuthority`, `Shutdown` and their composition | proofs |
| `StoreProofs` | theorems about `TtlStore`, `LogQueries` and `RequestLog` | proofs |
| `RequestProofs` | theorems about `Routing`, `RequestHeaders`, `Selections` and `ToolVisibility` | proofs |
| `ConversionProofs` | theorems about `RequestConverter` | proofs |
| `MCQuotaClient`, `MCTranslateStream`, `MCForwardProxy`, `MCStores`, `MCRequests`, `MCShutdown` | instances for TLC | model checking |

`MCForwardProxy` is a composition: the session of `MitmSession` runs inside the
connection of `ProxyConnection` once TLS is up, and its wait for an upstream is the
connector's. The other MC modules put components that share no state side by side, and
each behaviour is about one of them (`part`, `store`), or about one after the other.

### QuotaGate, QuotaClient

`closedUntil`, `nextRelease` are `_closed_until`, `_next_release`; `phase`,
`departure`, `deadline`, `due`, `attempt`, `event` are the local variables of the
coroutines of each request. Time is an integer clock, `Tick` advances it, and a
sleeper runs between its due time and `MaxLag` after it. One action is the code
between two awaits: `Arrive` and `Wake` contain the whole of what `wait_turn` does
without awaiting (fast path, claim or renewal of the slot, start of the call),
`QuotaRefused` is the refusal with `close()` and the next turn of the loop in one
step. `Requests` are split into `Streaming` (cancelled cooperatively, retried on a
401) and unary ones (their task is cancelled). `QuotaClient` adds when clients
left and when events were set, in two versions: `ContractSpec`, in which anyone may
cancel a request, as `wait_turn`'s parameter allows, and `WiredSpec`, the callers
that exist.

### TrackedRequest, TranslateStream

Three tasks: the transport (Starlette's response or `_send_result`) that pulls,
sends and finally closes; the step task of `with_keepalive` that runs one
`__anext__` of `record_stream` over the converter over
`create_chat_completion_stream`; the finalizer hook of the event loop. `transport`,
`keepalive`, `pending`, `conv`, `gen` say where each of them is suspended. Data is
abstracted to counts of frames (`produced`, `sent`); the preamble frames are one
frame, the terminal ones two (`tail`, `message_stop`). `flavor` (either API) is
chosen at the start. The keepalive interval is abstracted: a ping may come whenever
a step runs. `TrackedRequest` is the promise, with `holds` mapped to "the upstream
response or the cancel entry is still ours".

### HttpExchange, MitmSession

`pc` is the await at which `serve` stands, `our`/`their` the states of the h11
connection (external), `keep` whether the request allows reuse; `source`,
`result`, `tracker`, `up` what the current request holds. A write that fails
leaves `our` moved, as h11 does. Chunks in the middle of a body change nothing but the
timeout: `read` says whether a socket read is under way with its timeout running
(`ReadBegins`), and `BytesArrive` ends it, so that the next read starts the timeout anew,
as in `next_event` (`src/proxy/session.py:195`). `Cancelled` is the drain's
`task.cancel()` at any await.
`HttpExchange` is mapped from `our`, `their` and `source`.

### RecentWrites, TtlStore

`ThreadStore` and `ReasoningCache` share one algorithm, modelled once: an ordered
dict evicted from its front, by age up to the first fresh entry, then by size.
`held` is the set of keys in the dict; its order is the order of the numbers of the
last stores. `RecentWrites` says what a lookup must find without mentioning eviction.

### MessageThreads

Clients (external, from the description in `README.md:69-95`) send a step whole or as a delta
behind the response they follow, retry, give up and start over, and may change
their tools between steps. `meant` (history) is the request each client would have
sent without threads. `held` is the store; an entry may vanish at any time
(`Forget`: expiry, eviction and restart, whose rules are the matter of `TtlStore`).
A message is a pair of its author and its length, a request body a record of
attribution, tools and messages; the scalar fields, which the delta restates, are
represented by the attribution.

### MessageStream, ResponseConverter

One action is one upstream event with the frame it makes the generator yield; a chunk of
several parts is several events in a row. `calls` is `current_tool_calls` with the calls
not seen yet, `order` the insertion order of that dict, `closed` the blocks stopped so
far, `stage` the frame that comes next. Arguments come in pieces `1..Pieces`, and a buffer
is valid JSON when it is all of them in order, which holds of the JSON objects that tool
inputs are. The upstream is external: it gives each call its own index and sends the
pieces of one call in order, but mixes calls and text, and may end, break or fail
anywhere; only when it says that it finished with tool calls, or completed, has it sent
everything. `MessageStream` is the reader's side (the client; `_MessageAssembler` in the
thread store): `Phase` and `Blocks` map a converter's state to it. The life of the
generator (who pulls it, who closes it, keepalive) is the matter of `TranslateStream`.

### Shutdown

Each connection has a transport, a handler task and possibly a routed request in
flight. The combined process (`entrypoint.run`) and the standalone proxy are both
initial states. External: uvicorn's shutdown, and `asyncio.Server.wait_closed`,
which waits for every accepted transport (CPython 3.12.1 and later).

### Passthrough

`relay` is the await at which the transport's task stands: `retry_connect` and its
pauses, the unary read, or the send and the pull of a stream. `reached` (history) counts
the attempts the upstream may have seen, `said` what it said and how that ended,
`received` and `delivered` what `body_iter` yielded and the transport sent. `inFrame` and
`encoded` say whether the bytes so far end inside a frame and whether they are
compressed. The promise is that of `TranslateStream`, with another mapping.

### ProxyConnection, OutboundConnector

`stage` is the await at which `_handle_client` stands, `copy` and `idle` the two
directions of a tunnel, `cut` (history) says that the handler was cancelled while it
opened an upstream or could not write what a tunnel begins with. `sockets` counts upstream
connections opened and not closed. A CONNECT target is a record of what the parser asks
of it; its text is left out. In a session, `Connect` is taken with TLS.

### CertificateAuthority

A file is a record of the start that wrote it and of whether it was written whole.
`Boot`, `KeyWritten`, `CertificateWritten` are the three stretches of the constructor,
`Die` may come between any two and leave a file half written; a start that finds only one
of the files writes both anew, one that finds both loads them, or refuses if one is broken. `leaf` and `context` are the caches
of one host, whose serial number decides whether a context is current; a thread's `worker`
record is its local variables. The lock of `leaf_certificate_for_host` makes a call of it
one step; `_tls_contexts` has none, and its read, build and write are steps of their own.

### LogQueries, RequestLog

`LogQueries` gives each SQL statement as a function of the rows, and the windows with
their two ways of writing a bound: an instant with an offset, or a day. SQLite compares
the texts of timestamps, which the model does too (`Reached`). `RequestLog` has the
committed rows, the open transaction, the counters of the monitor and one answer of the
dashboard that reads the log query by query in a worker thread. Statements, commits and
queries may fail, the process may die and start again over a log of an older version;
`finished` and `mine` (history) are what the log and the counters are compared with.
Token counts, durations and costs are summed alike and stand for one number.

### Routing

`Load` reads a file, runs every validator of `schema.py` on it and builds the providers; a file that fails leaves `registry = "refused"`. One
operator per validator, named after what it accepts. `RouteRequest` resolves a model,
`PassOn`, `Translate` and `CountTokens` are what the two kinds of provider do with the
route; the clamp of `_enforce_context_window` is `Fitting`. A model id is a sequence of
letters, the models a regular expression finds are given with the rule, and the token
estimate is an input.

### RequestHeaders, ToolVisibility, RequestConverter

A header is a name with the values of its lines; what differs between the listeners is
how the lines become a mapping (`ClientHeaders`); the lines of a response go back the same
way, with the framing put in (`Framed`). A tool is its name, whether it is
deferred and which definition it has; a `tool_addition` whose tool is no object or has no
name loads nothing but is taken out of a folded conversation (`NamelessBlock`; the request
model of the translate path admits the one without a name only). `Ask` appends a message to the conversation and
applies both paths, the fold of an own-key passthrough provider and the visible and
capped tools of a translate provider. `RequestConverter` takes one round of the
converter's loop per step for either API; a block is its kind and an id. What both keep of
a sequence is `Kept` of `Selections`: the elements at some places, in order.

## 3. What is checked

Each property of a passing run is also run against a mutant of the model (a
plausible bug, next to the definition it replaces), which must violate it.

| Run | Instance | Shows |
|---|---|---|
| `quota_gate` | 3 requests (1 streamed, 2 unary), stagger 2, margin 1, poll 1, deadline 4, hints 0 and 2, 1 retry, no lag | `SlotsStaggered`, `WaitBounded`, `OpenGateOnly`, `NoOvertaking`, `CancelNoticed`, `EveryRequestEnds` |
| `translate_stream` | both flavours, 2 chunks; after it a passthrough request, 2 pauses between attempts, 2 chunks | `StreamsInv` (inductive), `GivenBack`, `NoOrphanStep`, `OutcomeIsTrue`, `SentAtMostOnce`, `OkMeansRelayed`, `KeepPromises` (two refinements of `TrackedRequest`), `EverythingOver` |
| `forward_proxy`, part connection | every kind of target and request, any number of requests, 2 attempts, idle timeout 2 | `PartsInv` (inductive, of all three parts), `NothingHeld`, `KeepsExchange` (refinement of `HttpExchange`), `EverythingServed` |
| `forward_proxy`, part authority | 2 threads, validity 3, margin 1, clock to 5, 3 starts | `PairMatches`, `ContextIsCurrent` |
| `forward_proxy`, part process | 1 ASGI and 2 proxy connections, combined and alone | `EndsInOrder`, `EverythingServed` |
| `stores`, dictionary | 3 keys, 2 values, 2 entries, lifetime 2, 4 stores, clock to 3 | `StoreInv`, `StoreKeepsPromise` (refinement of `RecentWrites`) |
| `stores`, threads | 1 client, 3 requests, 2 tool lists, 1 frame | `IInv`, `AskedIsMeant` |
| `stores`, log | 2 requests and an old row, two-hour days, hours 5 to 7, retention 2 days, 2 processes, 2 faults, 2 queries per answer | `LogInv` (inductive), `MonitorAgrees`, `PanelsAddUp`, `LogOnlyAges` |
| `requests`, routing | 3 models, 2 providers of which one deviates in one field from one of three kinds, up to 2 of 16 rules | `RoutesSound`, `BudgetFits` |
| `requests`, headers, tools, messages | 3 header lists with 4 extra headers and both listeners; 5 tool arrays, conversations of 2 messages of up to 2 blocks; every conversation of up to 4 messages of 12 shapes | `HeadersSound`; `FoldedIsPlain`, `ToolsNeverShrink`; `ConvertedSound` |
| `requests`, answer | both converters, 2 tool calls of 2 pieces, 1 text delta | `IInv`, `ToolUseComplete`, `KeepsStream` (refinement of `MessageStream`) |
| `quota_gone`, `stream_records`, `relay_error`, `tunnel_idle`, `shutdown_drain`, `shutdown_log`, `headers_lost` | as above | one counterexample each, see section 5 |

**Bounds.** `StartBy`, `CallMax`, `MaxLag` bound the clock of `QuotaGate`; with a deadline
of two staggers a window can close twice under a sleeper and a slot can move past a
deadline, and three requests are the fewest among which one refuses, one waits and one
overtakes. Lag is 0 in the run and arbitrary in the proofs. Two chunks let a ping fall
before, between and after frames; the control of `TranslateStream` does not depend on
their number. Three keys over two entries with four stores let an entry be overwritten and
another one then be evicted by size, and a clock to 3 lets one expire; the proof is for
every size. Three requests of one client are the fewest for a first answer, an abandoned
continuation and its retry. Clients share only the store, under ids that are never
reused, so one client already has the interleavings of several; the proof is for any
number of clients and requests. `MitmSession` has no bound. Two attempts let a connect
fail after a retry. A validity of three with a margin of one lets a certificate be
renewed twice while a thread builds a context; three starts let a crash be followed by
one that repairs and one that loads. One answer of the dashboard has ten queries; two
that run one by one, with everything else in between, are enough, because the answers
that the first state and the last would give to all ten are compared. One fault is enough
for a row to stay in the open transaction and be committed or rolled back later; with two,
a prune whose commit failed hides an aging row in the open transaction and a later rollback
brings it back, between the queries of one answer. The clock starts where the row of the
older version is about to be too old. Routing
files deviate from a sensible one in one field of a provider and in one or two of each
rule, so that each validator accepts some files and refuses others; limits are any
integers, as in the schema, and negative ones are among the deviations. Four messages hold a call, something in between, its
result and a turn behind it. Two calls of two pieces are enough to mix them, to start
their blocks in either order and to break off in the middle of an input. The proofs are
for conversations, tool arrays and messages of any length.

**Symmetry** is used in `stores`, among the logged requests, which no property tells
apart.

**Fairness.** Clients are never assumed to send anything, nor is a stop signal to come.
Assumed is that timers fire and sleepers run (asyncio), that a step of a task that can run
is run, and that finalizers scheduled on the loop run. Two assumptions go beyond the code:

* A write ends. `writer.drain()` has no timeout (`src/proxy/session.py:952`,
  `src/proxy/session.py:630`, `src/proxy/streams.py:72`), so a client or an upstream
  that stops reading but stays holds the request that writes to it; the liveness properties
  say nothing of that side.
* An answer of an upstream is finite, in `QuotaGate`, `TranslateStream`, `Passthrough` and
  `Shutdown`. httpx's timeouts are those of one read: silence ends a call, an answer whose
  bytes never stop does not.

Of the sessions of the forward proxy the second is not assumed. Their timeout starts anew
with each read (`src/proxy/session.py:203`), so a body or an answer that drips for ever
holds its request, and weak fairness is on the timeout of a read that waits
(`Timeouts`), not on the end of a body. `EverythingServed` says accordingly that a request
ends unless bytes keep arriving for it (`EveryRequestEnds`): if one does not, bytes arrive
infinitely often. Of a connection it says that it is served or ended within its timeouts,
which bound the whole of CONNECT and of each handshake, and of the process that it ends
once every client left. A tunnel whose bytes flow may last for ever, as may a session whose
client keeps asking.

## 4. What is proved

TLAPS checks the following for all values of the constants, under the named
assumptions only, each next to the constants it is about. They type the parameters and keep
`None`, `Null`, `Missing` outside the data; beyond that: `QuotaAssumption` and
`AuthorityAssumption` ask what the constants of the code have (a stagger that is not zero,
a renewal margin shorter than the validity of a leaf); `StoreAssumption` and
`LogAssumption` that the set of keys and the log left by an older version are finite, the
latter also that ids are unique, as its primary key has it; `ConnsAssumption` that the two
listeners share no connection; `HeadersAssumption` that both listeners hand on lower-case
names (Starlette and h11 do); `ToolsAssumption` only types the tools and the blocks;
`ConversationsAssumption` what the Messages API asks of a request, that a result answers a
call of the last assistant message before it, and that ids tell the blocks of system and
user messages apart. The last is a convention of the model: a text is its place.

* **`QuotaGateProofs`**: `TypeCorrect`, `SlotsAreStaggered`, `WaitIsBounded`,
  `CallsLeaveAnOpenGate`, `NobodyOvertakes`. That two slots are a stagger apart is not
  inductive: a new slot is compared with `nextRelease`, not with the others. `IInv` adds
  `SlotInv` (every slot held lies at least a stagger before `nextRelease` and within its
  request's deadline, and its owner is due no later) and `DueInv` (time never passes what
  is due), from which `WaitBounded` follows. The two action properties are proved from
  `IInv` step by step.
* **`RequestStreamProofs`**, for any number of frames, attempts and chunks:
  `StreamInvariance`, `EverythingIsGivenBack`, `NoStepIsOrphaned`, `ReportedOutcomeIsTrue`,
  `StreamIsTracked`; `RelayInvariance`, `RequestsAreSentOnce`, `SuccessIsRelayed`,
  `RelayIsTracked`; `StreamsInvariance`, `PromisesAreKept` of the two one after the other.
  That a request is given back whoever ends last is not inductive. `StreamInv` first says
  which places of transport, keepalive, step and converter go together (`PlacesInv`,
  `ConverterInv`): a generator is never closed while it runs because the one who would
  close it is waiting for it. Then what is taken is given back in one order, entry,
  upstream, account (`HeldInv`), and a request without an outcome has an owner who will
  report one (`AccountInv`). `RelayInv` does the same for the passthrough request, whose
  `AttemptsInv` says that only an attempt of which nothing reached the upstream is
  repeated. Every action is then a step of `TrackedRequest` or none of its business.
* **`ForwardProxyProofs`**: `SessionInvariance`, `RequestsStartClean`, `SessionEndsClean`,
  `ExchangeIsKept`; `AuthorityInvariance`, `PairsMatch`, `ContextsAreCurrent`;
  `PartsAreKept`, `PartsInvariance`, `NothingIsHeld`. `SessionInv` ties what the session
  holds to the await it stands at and to the two h11 states; with it each of its actions
  is a step of `HttpExchange` or a stutter. For the authority, `DiskInv` orders the two
  files (a certificate on disk stands beside the whole key that signed it), so a crash
  between any two writes leaves a pair, or one file, or one that a start refuses; `LeafInv`
  bounds the age of what a thread carries by the serial number it compares, which a thread
  that overwrites a newer context with an older one does not break. The composition needs
  one invariant of its own, `SharedInv`: the connection, the session in it and the
  connector both use agree about who owns the open upstream, so that the count of sockets
  comes back to zero. For any number of threads, starts, attempts and requests.
* **`StoreProofs`**, `TtlStore`: `StoreInvariance`, `StoreIsBounded`, `EvictionIsComplete`,
  `StoreImplementsPromise`. `StoreInv` says that stores are numbered and timed in the same
  order (which an overwrite in place would break), that an entry held and fresh is among
  the newest, and that nothing forgotten was recent. From the first follows that stopping
  at the first fresh entry leaves no expired one behind; from the others that each step
  implements a step of `RecentWrites`.
* **`StoreProofs`**, `RequestLog`: `LogInvariance`, `LogIsKept`, `MonitorIsRight`,
  `PanelsTellOneStory`, for any requests, kinds, clocks, faults and processes. `RowsInv`
  says that the open transaction shows more than what is committed, or less, only behind a
  storage error, and less only of what is too old to be kept; `AnswerInv` that what one
  answer reads later differs from what it read first by requests that finished since it
  was asked for, or is marked as shifted. That counters kept in memory equal statistics
  computed from rows, and that the panels of one answer add up by every grouping, are
  facts about sums over finite sets of rows. They are proved by well-founded induction on
  finite sets in first-order form (a smallest set for which the sum is wrong, and one row
  taken out of it), since the induction theorems of the library take a predicate.
  The proof showed a first version of `PanelsAddUp` to be false: a prune whose commit
  fails hides a row that is still inside the window, and when a second failure rolls it
  back between two queries the row is in the later panels without having finished since.
  The property now compares panels only with requests that finished after the question
  (`known`) and of logs that did not lose rows in between (`shifted`).
  One assumption is left: the wall clock of `RequestLog` does not go back.
* **`MessageThreadsProofs`**: `ThreadInvariance`, `ContinuationIsFaithful`. That the
  upstream is asked what the client meant needs: what a client follows is a recorded
  response and its own messages end with it (`FollowsInv`); what it waits for means its
  whole conversation (`AskingInv`); a delta on the wire, put behind the response it names,
  is what was meant (`WireInv`); and whatever the store holds, it holds under the request
  that was meant (`HeldInv`). The last one needs the property itself for the request just
  recorded.
* **`ResponseConverterProofs`**: `ConverterInvariance`, `InputsAreWhole`,
  `ConverterImplementsStream`. `BlockInv` numbers the blocks without gaps and gives each to
  one call, so that the block of the mapping is that of its call; `StageInv` says when
  they are stopped; `ArrivalInv` ties each buffer to what the upstream sent, for calls
  whose arguments did not come ahead of their name (those are dropped, `ToolUseComplete`
  excepts them). Every action is then shown to be a step of `MessageStream` or none.
* **`ForwardProxyProofs`**, `Shutdown`: `StopInvariance`, `EndIsOrdered`, `AsgiLogIsComplete`, from an
  invariant that orders listeners, handlers, log and registry.
* **`RequestProofs`**, `Routing`: `RoutingInvariance`, `RoutesAreSound`, `BudgetsFit`, for any file,
  models, limits and estimates. The invariant says that what is loaded passed every
  validator, that a route is what `Resolve` makes of the file, and that an answer is what
  the clamp makes of the route; the theorems then are lemmas about the validators: the
  check of shadowed client models makes the first rule that catches an offered model its
  own, and the check of window against limit, on the same effective values the router
  uses, leaves room for a completion behind any prompt up to that length.
* **`RequestProofs`**, `RequestHeaders`: `HeadersAreSound`, for any lines, extra headers and
  responses. The laws of the three mappings (`MergeLaw`, `StartLaw`, `FramedLaw`) say which
  names a header set has after a step and where each value comes from; the property is
  their composition. The proof found that the property took a header named `forward`
  for the provider's own key; its statement now excludes that reading.
* **`RequestProofs`**, `ToolVisibility`: `ToolsInvariance`, `FoldsArePlain`, `ToolsOnlyGrow`,
  for any tools, conversations and limit. The invariant is short (what is sent is
  what `FoldBody` and `Offered` make of the conversation so far); the work is in what those
  two return for sequences of any length. That a comprehension keeps the order, keeps no
  element twice and keeps all it should (`KeptInOrder`, `KeptElements`) rests on
  `FlattenSeq`, a recursive function. What it returns is derived from its stages: two
  functions that satisfy its equation agree up to any length and there is one of each
  length, both by a least counterexample (`StagesAgree`, `StagesExist`). From there on
  `OneByOne`, an induction on sequences stated for a set of sequences instead of a
  predicate, carries a law from a sequence to the next longer one. The definitions of the
  blocks come in the order of first and with the content of last mention, as a dict has
  them; `ToolsOnlyGrow` needs that a longer conversation keeps every first mention.
* **`ConversionProofs`**: `ConverterInvariance`, `ConversionSound`, for any conversation
  that the API accepts, any cache and both targets. That what is said arrives once and in
  order cannot be read off a conversion half done, because system text waits in `pending`
  while the loop goes on, may be put behind a turn already emitted, and an
  assistant message takes the next one along. `ConverterInv` therefore says of every state:
  the words of the items, followed by those that wait, are what the messages read so far
  say (`WordsKept`); text waits only while the last item is no user turn (`TextWaits`),
  which is why it may be moved without passing a word of the user; as long as something is
  left of each user message, no two user turns stand side by side of which one holds
  system text only, and the last item is no such turn while a message is left to read
  (`TurnsPlain`); before an item of role tool stands its
  call, with nothing but results between (`ToolsBehind`), and results right behind their
  calls have been taken (`ResultsTaken`). For the other target: each call is preceded by the
  reasoning the cache has, and each result read so far by its call (`ResponsesInv`).
  TLC checked `ConverterInv` on the instance of `requests` before it was proved.

Only model-checked:

* all liveness (`CancelNoticed`, `EveryRequestEnds`, `EverythingOver`, `EverythingServed`):
  TLAPS reasons neither about `ENABLED` nor about fairness;
* the findings of section 5, each of which is a counterexample.

So every invariant and every action property of the passing runs is proved. Induction
over data is within reach only where it can be put in first-order form, as in `StoreProofs`,
`RequestProofs` and `ConversionProofs`; no module with theorems uses a recursive operator.

## 5. Where code and documentation disagree

Each has a run with a counterexample, listed under `findings` in `PROJECT.json`.

* `stream_records`: `record_stream`'s docstring says that a break or a lost client
  records nothing; the converters end both with `message_stop`, so it does record.
* `quota_gone`: comments say that a waiting request notices that its client left; only
  the cancel event is looked at, and nobody sets it while a request waits.
* `shutdown_drain`: the drain deadline is to cancel connections; the wait for the
  listener's transports comes before it.
* `shutdown_log`: every finished request is said to be logged; the ASGI lifespan closes
  the log under requests of the proxy.
* `relay_error`: the error event of a broken passthrough stream is called "valid at any
  point in the stream"; it is appended to raw bytes that may end inside a frame or be
  compressed.
* `tunnel_idle`: a tunnel is said to stay while bytes keep flowing; the silence of one
  direction ends both.
* `headers_lost`: repeated header lines are said to be joined; on decrypted connections
  the last one replaces the others.

Seen while modelling and not given a run: the timeout of `_read_response` is called the
"maximum time to wait" for the head of a response, and starts anew with each read and each
informational response (`src/proxy/session.py:969`); nothing keeps a limit of tokens in
the routing file from being negative, and a negative one is sent upstream
(`src/routing/schema.py:361`); `_fail` writes from inside the barrier of
`_dispatch`, so an exception of its own leaves `serve`, against its docstring
(`src/proxy/session.py:462`); each 401 retry of `create_stream` starts a new quota wait
with a new deadline, while the docstring of `_within_quota`
(`src/providers/openai_translate.py:533`) bounds "the whole wait"; a unary handler that is cancelled leaves its completion task and its
wait for the cancel event running (`src/providers/openai_translate.py:488`); `close_all`
stops at the first provider whose `aclose` raises (`src/routing/registry.py:257`); tool
results with a message between them and their calls are lost in a Chat request
(`src/conversion/request_converter.py:113`); an upstream connection stays open, until it is
collected, when the answer to CONNECT or the head of a protocol switch cannot be written
(`src/proxy/server.py:466`, `src/proxy/session.py:630`); a Responses stream that
is incomplete for another reason than tokens ends as `tool_use` even when the input of its
call is not whole (`src/conversion/response_converter.py:444`).

## 6. What is not modelled

* The conversions of whole (not streamed) responses, the extraction of reasoning and the
  usage counts: field by field mappings without state. The token estimate
  (`services/token_estimator.py`) is an input of `Routing`.
* The two tasks of a unary completion: the wait and the cancellation are in `QuotaGate`;
  what the tasks leave behind ends by its own timeouts.
* The monitor's event feed and usage scanner: bounded deques for display.
* Two cases the code asks for and that cannot arise: a message without content, which the
  request model refuses before the converters see it (`src/models/claude.py:79`), and rows of
  the log without a provider or a model, which `LogQueries` need not skip because every row
  is written with both (`src/services/monitor.py:575`).
* Startup failures of the listeners, settings, error bodies, logging, health and metrics:
  no behaviour over time.
* The command line tools (`cli/*`) run outside the router, once, in an operator's hands.
* Two processes that share one `ca_dir`; X.509 and TLS themselves; SQLite's own recovery.
* That the parts put side by side in `MCStores` and `MCRequests` do not disturb each other
  is taken from the code: they share no state.

## 7. Plan

1. Done: gate, streamed request, session, stores, threads, converters, shutdown.
2. Done: passthrough, connections and connector, authority, log and monitor, routing,
   headers, tools, request conversion.
3. Done: inductive invariants and refinement proofs of `TranslateStream` and `Passthrough`
   (`TrackedRequest`) and of `MitmSession` (`HttpExchange`); the authority for any number of
   threads and starts; connection, connector and session composed; log, monitor and panels;
   headers.
4. Done: tools of a conversation and conversion of a request, for sequences of any length.
5. The unary completion with its two tasks; the release sequence of `cli/release.py`.

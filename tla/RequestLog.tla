----------------------------- MODULE RequestLog -----------------------------
(***************************************************************************)
(* The monitor's counters, the SQLite request log behind them and the      *)
(* dashboard that reads the log: services/monitor.py,                      *)
(* services/request_store.py, api/dashboard.py and the lifespan of         *)
(* main.py.  Requests finish and rows are pruned on the event loop's       *)
(* thread; every query runs in a worker thread under the connection's      *)
(* lock, so anything may happen between two queries of one answer.  Any    *)
(* statement and any commit may fail, and the process may die.             *)
(***************************************************************************)
EXTENDS LogQueries, Sequences

CONSTANTS
    Routed,   \* the requests that may be routed
    Kinds,      \* what may become of a request: its columns but id and ts
    OldRows,    \* the rows of a log written by an older version
    StartTime,  \* the hour the first process starts at
    MaxNow,     \* bound on the clock
    MaxBoots,   \* bound on the number of processes
    MaxFaults,  \* bound on the number of statements, commits and queries that fail
    Asks,       \* the windows the dashboard asks for
    Queries     \* bound: queries of one dashboard answer that run one by one, of ten

ASSUME LogAssumption ==
    /\ StartTime \in Int /\ HoursPerDay \in Nat \ {0} /\ RetentionDays \in Nat
    /\ Queries \in Nat \ {0} /\ Null \notin Int
    /\ \A k \in Kinds : k.tokens \in Nat
    /\ IsFiniteSet(OldRows) /\ \A row \in OldRows : row.ts \in Int
    /\ \A a, b \in OldRows : a.id = b.id => a = b
    /\ \A ask \in Asks : ask.end # Null => ask.end.at \in Int /\ ask.end.offset \in Int

VARIABLES
    hour,           \* the wall clock, in hours
    life,          \* "down", "up", "stopped": the process and its lifespan
    boots,         \* processes started so far
    finished,      \* history: the row of every request that ever finished
    mine,          \* history: those that finished in the running process
    monitor,       \* the counters: totals, providers, models
    columns,       \* the table's columns: "old" lacks ttft_ms
    durable,       \* the rows SQLite has committed
    seen,          \* the rows the connection sees: its open transaction too
    conn,          \* RequestStore._connection: "none", "open", "closed"
    storageError,  \* RequestStore._last_error is set
    faults,        \* statements, commits and queries that failed so far
    pruneAt,       \* when the daily prune wakes up
    dash           \* the dashboard request that is being answered

dbVars  == <<columns, durable, seen, conn, storageError, faults>>
memVars  == <<finished, mine, monitor>>
lifeVars == <<life, boots, pruneAt>>
logVars     == <<hour, lifeVars, memVars, dbVars, dash>>

-----------------------------------------------------------------------------
(* The monitor's own counters. *)

NoStats == [requests |-> 0, errors |-> 0, tokens |-> 0, priced |-> 0]

NoMonitor == [totals |-> NoStats, providers |-> <<>>, models |-> <<>>]

\* Mutant of Failed: a deliberate rejection counts as a failure.
FailedAnyStatus(k) == k.error \/ k.status >= 400

Failed(k) == k.error \/ (k.status >= 400 /\ ~k.rejected)

\* _Stats.record.
Counted(stats, k) ==
    [requests |-> stats.requests + 1,
     errors   |-> IF Failed(k) THEN stats.errors + 1 ELSE stats.errors,
     tokens   |-> stats.tokens + k.tokens,
     priced   |-> IF k.priced THEN stats.priced + 1 ELSE stats.priced]

\* setdefault(name, _Stats()).record(...)
CountedAt(table, name, k) ==
    [n \in DOMAIN table \cup {name} |->
        LET stats == IF n \in DOMAIN table THEN table[n] ELSE NoStats
        IN  IF n = name THEN Counted(stats, k) ELSE stats]

Bumped(m, k) ==
    [totals    |-> Counted(m.totals, k),
     providers |-> CountedAt(m.providers, k.provider, k),
     models    |-> CountedAt(m.models, k.model, k)]

\* The feed entry of a request as its row: only a messages answer that said
\* something has a first-token time.
RowOf(r, k) ==
    [id |-> r, ts |-> hour, endpoint |-> k.endpoint, model |-> k.model,
     provider |-> k.provider, status |-> k.status, error |-> k.error,
     rejected |-> k.rejected, stream |-> k.stream, tokens |-> k.tokens,
     priced |-> k.priced,
     generation |-> IF k.spoke /\ k.endpoint = "messages" THEN k.generation ELSE Null]

-----------------------------------------------------------------------------
(* The store. *)

\* A statement and its commit, on the event loop's thread.
WriteOk(rows) == seen' = rows /\ durable' = rows /\ UNCHANGED faults

\* Mutant of WriteFails: the failure is not remembered.
WriteFailsQuietly(rows) ==
    /\ faults < MaxFaults /\ faults' = faults + 1
    /\ UNCHANGED <<storageError, durable>>
    /\ seen' \in {seen, rows, durable}

\* The statement fails, or the commit does: then the statement's effect stays
\* in the connection's open transaction, unless SQLite rolls it back.
WriteFails(rows) ==
    /\ faults < MaxFaults /\ faults' = faults + 1
    /\ storageError' = TRUE /\ UNCHANGED durable
    /\ seen' \in {seen, rows, durable}

\* RequestStore.record; the caller suppresses whatever it raises.
Record(row) ==
    \/ /\ conn = "open" /\ columns = "new"
       /\ WriteOk(seen \cup {row}) /\ storageError' = FALSE
    \/ conn = "open" /\ WriteFails(seen \cup {row})
    \/ conn # "open" /\ UNCHANGED <<seen, durable, storageError, faults>>

\* Mutant of Kept: the row of the cutoff itself is deleted.
KeptYounger(rows) == {row \in rows : row.ts > hour - Hours(RetentionDays)}

\* DELETE FROM request_log WHERE ts < cutoff: the rows that stay.
Kept(rows) == {row \in rows : row.ts >= hour - Hours(RetentionDays)}

\* RequestStore.prune, whose success leaves the last error alone.
Prune ==
    \/ conn = "open" /\ WriteOk(Kept(seen)) /\ UNCHANGED storageError
    \/ conn = "open" /\ WriteFails(Kept(seen))
    \/ conn # "open" /\ UNCHANGED <<seen, durable, storageError, faults>>

-----------------------------------------------------------------------------
Idle == [step |-> -1]
Sent == [step |-> Queries + 1]

LogInit ==
    /\ hour = StartTime /\ life = "down" /\ boots = 0 /\ pruneAt = StartTime
    /\ mine = {} /\ monitor = NoMonitor
    /\ columns = "old" /\ durable = OldRows /\ seen = OldRows
    /\ finished = OldRows
    /\ conn = "none" /\ storageError = FALSE /\ faults = 0
    /\ dash = Idle

\* The lifespan starts: the store is opened and migrated (or left inert), handed
\* to the monitor and pruned, with nothing running in between.
OpenStore ==
    /\ life = "down" /\ boots < MaxBoots
    /\ life' = "up" /\ boots' = boots + 1
    /\ conn' = "open" /\ columns' = "new"
    /\ \/ WriteOk(Kept(durable)) /\ storageError' = FALSE
       \/ WriteFails(Kept(durable))
    /\ pruneAt' = hour + HoursPerDay
    /\ UNCHANGED <<hour, memVars, dash>>

OpenStoreFails ==
    /\ life = "down" /\ boots < MaxBoots /\ faults < MaxFaults
    /\ life' = "up" /\ boots' = boots + 1 /\ faults' = faults + 1
    /\ conn' = "none" /\ columns' \in {columns, "new"} /\ storageError' = TRUE
    /\ pruneAt' = hour + HoursPerDay
    /\ UNCHANGED <<hour, memVars, durable, seen, dash>>

\* finish_request: the counters, then the log if the lifespan still lends it.
FinishRequest(r, k) ==
    /\ life # "down" /\ \A row \in finished : row.id # r
    /\ finished' = finished \cup {RowOf(r, k)}
    /\ mine' = mine \cup {RowOf(r, k)}
    /\ monitor' = Bumped(monitor, k)
    /\ IF life = "up" THEN Record(RowOf(r, k)) ELSE UNCHANGED <<seen, durable, storageError, faults>>
    /\ UNCHANGED <<hour, lifeVars, columns, conn, dash>>

PruneDaily ==
    /\ life = "up" /\ hour >= pruneAt
    /\ Prune
    /\ pruneAt' = hour + HoursPerDay
    /\ UNCHANGED <<hour, life, boots, memVars, columns, conn, dash>>

\* The lifespan ends: the prune task is cancelled, the monitor forgets the store,
\* and closing the connection rolls its open transaction back.
LifespanEnds ==
    /\ life = "up" /\ life' = "stopped"
    /\ conn' = IF conn = "open" THEN "closed" ELSE conn
    /\ seen' = durable
    /\ UNCHANGED <<hour, boots, pruneAt, memVars, columns, durable, storageError, faults, dash>>

\* The process ends, by itself or not; what is in memory goes with it.
ProcessEnds ==
    /\ life # "down" /\ life' = "down"
    /\ conn' = "none" /\ seen' = durable /\ storageError' = FALSE
    /\ mine' = {} /\ monitor' = NoMonitor
    /\ dash' = IF dash = Idle THEN Idle ELSE Sent
    /\ UNCHANGED <<hour, boots, pruneAt, finished, columns, durable, faults>>

HourPasses ==
    /\ hour < MaxNow /\ hour' = hour + 1
    /\ UNCHANGED <<lifeVars, memVars, dbVars, dash>>

-----------------------------------------------------------------------------
(* The dashboard's history section: ten queries, one after the other, each *)
(* in a worker thread.  Of the rows they read the first and the latest are *)
(* kept, the requests that had finished when it was asked for, and whether *)
(* a query failed, missed a row an earlier one had, or had one of theirs   *)
(* again that a failed deletion had hidden.                                *)

\* dashboard_state: a window that cannot be resolved is answered with 400.  One
\* answer is followed.
AskDashboard(ask) ==
    /\ life = "up" /\ dash = Idle
    /\ ResolveWindow(ask, hour) # Refused
    /\ dash' = [step |-> 0, window |-> ResolveWindow(ask, hour), askedAt |-> hour,
                known |-> finished, first |-> {}, latest |-> {},
                failed |-> FALSE, shifted |-> FALSE]
    /\ UNCHANGED <<hour, lifeVars, memVars, dbVars>>

Querying == dash.step \in 0..(Queries - 1)

ReadBy(rows, failed) ==
    dash' = [dash EXCEPT !.step = @ + 1,
                         !.first = IF dash.step = 0 THEN rows ELSE @,
                         !.latest = rows,
                         !.failed = @ \/ failed,
                         !.shifted = \/ @
                                     \/ ~(dash.latest \subseteq rows)
                                     \/ dash.step > 0 /\ (rows \ dash.latest) \cap dash.known # {}]

RunQuery ==
    /\ Querying /\ conn = "open"
    /\ ReadBy(seen, FALSE)
    /\ UNCHANGED <<hour, lifeVars, memVars, dbVars>>

QueryFails ==
    /\ Querying /\ conn = "open"
    /\ faults < MaxFaults /\ faults' = faults + 1
    /\ ReadBy({}, TRUE) /\ storageError' = TRUE
    /\ UNCHANGED <<hour, lifeVars, memVars, columns, durable, seen, conn>>

\* The store is inert or has been closed: no rows, and no error.  (A query that
\* looked at the connection just before it was closed has none either.)
QueryInert ==
    /\ Querying /\ conn # "open"
    /\ ReadBy({}, TRUE)
    /\ UNCHANGED <<hour, lifeVars, memVars, dbVars>>

SendAnswer ==
    /\ dash.step = Queries
    /\ dash' = Sent
    /\ UNCHANGED <<hour, lifeVars, memVars, dbVars>>

\* _history: the answer made of what its ten queries read.
Panels(read, w) ==
    [totals     |-> RangeTotals(read[1], w),
     series     |-> RangeSeries(read[2], w),
     providers  |-> ProviderTotals(read[3], w),
     models     |-> ModelTotals(read[4], w),
     tps        |-> SpeedAnswer(read[5], read[6], read[7], w),
     breakdown  |-> BreakdownAnswer(read[8], read[9], w),
     data_since |-> FirstTs(read[10])]

-----------------------------------------------------------------------------
LogNext ==
    \/ OpenStore
    \/ OpenStoreFails
    \/ \E r \in Routed, k \in Kinds : FinishRequest(r, k)
    \/ PruneDaily
    \/ LifespanEnds
    \/ ProcessEnds
    \/ \E ask \in Asks : AskDashboard(ask)
    \/ RunQuery
    \/ QueryFails
    \/ QueryInert
    \/ SendAnswer
    \/ HourPasses

LogSpec == LogInit /\ [][LogNext]_logVars

-----------------------------------------------------------------------------
(* Properties. *)

LogTypeOK ==
    /\ hour \in Int /\ pruneAt \in Int /\ life \in {"down", "up", "stopped"}
    /\ conn \in {"none", "open", "closed"} /\ columns \in {"old", "new"}
    /\ storageError \in BOOLEAN
    /\ \A row \in finished : row.ts \in Int

RowsAreFinished ==
    /\ durable \subseteq finished /\ seen \subseteq finished /\ mine \subseteq finished
    /\ IsFiniteSet(finished) /\ \A row \in mine : row.tokens \in Nat
    /\ \A a, b \in finished : a.id = b.id => a = b

OpenTransactionShows ==
    /\ storageError = FALSE => seen = durable
    /\ conn # "open" => seen = durable
    /\ conn = "open" => columns = "new" /\ life = "up"
    /\ \A row \in durable \ seen : row.ts < hour - Hours(RetentionDays)

RowsInv == LogTypeOK /\ RowsAreFinished /\ OpenTransactionShows

\* What the answer in the making goes by: the requests it did not know of finished
\* since it was asked for, and unless something shifted, its later queries only add
\* such requests to the rows of the first.
AnswerInv ==
    \/ dash \in {Idle, Sent}
    \/ /\ dash \in [step : 0..Queries, askedAt : Int, known : SUBSET finished,
                    window : {ResolveWindow(ask, dash.askedAt) : ask \in Asks} \ {Refused},
                    first : SUBSET finished, latest : SUBSET finished,
                    failed : BOOLEAN, shifted : BOOLEAN]
       /\ dash.askedAt <= hour
       /\ \A row \in finished \ dash.known : row.ts >= dash.askedAt
       /\ dash.step = 0 => dash.first = {} /\ dash.latest = {}
       /\ ~dash.shifted => /\ dash.first \subseteq dash.latest
                           /\ (dash.latest \ dash.first) \cap dash.known = {}

\* A row names its request and is what finish_request made of it, whichever
\* process wrote it; a row that is only in the open transaction is never there
\* without an error for the dashboard to show, and one that is missing there is too
\* old to be kept; without an open connection nothing is left open; and what an
\* answer has read so far differs by requests that finished since, or is marked.
LogInv == RowsInv /\ AnswerInv

\* What SQLite has committed is given up only for its age, whatever fails and
\* whenever the process ends: "a full year, not the window".
LogOnlyAges ==
    [][\A row \in durable \ durable' : row.ts < hour - Hours(RetentionDays)]_logVars

\* The counters in memory and the statistics of the log are two implementations of
\* one definition: over the requests of the running process they agree, for the
\* totals, for each provider and for each model.
MonitorAgrees ==
    /\ monitor.totals = Counters(mine)
    /\ monitor.providers = GroupBy(mine, ProviderOf, Counters)
    /\ monitor.models = GroupBy(mine, ModelOf, Counters)

Total(table) == MapThenSumSet(LAMBDA k : table[k].requests, DOMAIN table)

AddUp(a) ==
    LET requests == a.totals.requests
        shown    == [g \in DOMAIN a.breakdown |-> a.breakdown[g].counters]
        speeds   == [g \in DOMAIN a.breakdown |-> a.breakdown[g].speed]
    IN  /\ Total(a.series) = requests /\ Total(shown) = requests
        /\ Total(a.providers) = requests /\ Total(a.models) = requests
        /\ Total(speeds) = Total(a.tps.series)
        /\ Total(a.tps.by_model) = Total(a.tps.series)
        /\ \A g \in DOMAIN shown : speeds[g].requests <= shown[g].requests
        /\ requests > 0 => a.data_since # Null

\* The panels of one answer, read one after the other, tell one story: when nothing
\* happened in between they add up; when requests only finished in between, a later
\* panel counts at least what the first did, and exactly that if the window was
\* closed when it was asked for.
PanelsAddUp ==
    dash.step \in 1..Queries =>
        LET w      == dash.window
            before == Panels([i \in 1..10 |-> dash.first], w)
            after  == Panels([i \in 1..10 |-> dash.latest], w)
            closed == w.end # Null /\ Reached(dash.askedAt, w.end)
        IN  IF dash.latest = dash.first THEN AddUp(before)
            ELSE ~dash.failed /\ ~dash.shifted =>
                 /\ before.totals.requests <= Total(after.series)
                 /\ closed => before = [after EXCEPT !.tps.models = before.tps.models,
                                                    !.data_since = before.data_since]
=============================================================================

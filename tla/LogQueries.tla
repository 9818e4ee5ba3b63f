----------------------------- MODULE LogQueries -----------------------------
(***************************************************************************)
(* The statistics the request log (services/request_store.py) answers, as  *)
(* functions of the rows it holds.  A row is one finished request; a time  *)
(* is a whole number of hours and a day is HoursPerDay of them.  A number  *)
(* of tokens stands for the four token counts, durations and costs are     *)
(* left out: they are summed the same way.                                 *)
(***************************************************************************)
EXTENDS Integers, FiniteSets, FiniteSetsExt

CONSTANTS
    HoursPerDay,     \* the length of a day
    RetentionDays,   \* rows older than this are pruned
    MinGeneration,   \* TPS_MIN_GENERATION_MS: a shorter window has no throughput
    WindowDays,      \* named window |-> days it reaches back, or Null for "all"
    Null             \* SQL's NULL and Python's None

\* What the SQL statements count as an error.
IsError(row) == row.error \/ (row.status >= 400 /\ ~row.rejected)

\* A row with a throughput figure.
Qualifies(row) ==
    /\ row.endpoint = "messages" /\ row.stream
    /\ row.generation # Null /\ row.tokens > 0
    /\ row.generation >= MinGeneration

-----------------------------------------------------------------------------
(* Windows.  A bound is an instant and the UTC offset its text is written  *)
(* in; the rows' timestamps are texts in UTC, and texts are what SQLite    *)
(* compares.                                                               *)

Utc(t) == [at |-> t, offset |-> 0]

Hours(days) == days * HoursPerDay

\* ts >= bound, as texts: equal readings are ordered by the offset's text.
Reached(ts, bound) ==
    LET reading == bound.at + bound.offset
    IN  ts > reading \/ (ts = reading /\ bound.offset = 0)

\* Mutant of InRange: the upper bound is part of the window.
InRangeClosed(row, w) ==
    /\ Reached(row.ts, w.start)
    /\ w.end = Null \/ row.ts <= w.end.at

InRange(row, w) ==
    /\ Reached(row.ts, w.start)
    /\ w.end = Null \/ ~Reached(row.ts, w.end)

Within(rows, w) == {row \in rows : InRange(row, w)}

\* A date stands for its first instant, or for its end when it is an upper bound.
ParseBound(b, endOfDay) ==
    LET day == b.at \div HoursPerDay
    IN  IF b.dateOnly
        THEN Utc(Hours(IF endOfDay THEN day + 1 ELSE day))
        ELSE [at |-> b.at, offset |-> b.offset]

BucketFor(span) == IF span <= HoursPerDay THEN "hour" ELSE "day"

Later(a, b) == IF b.at > a.at THEN b ELSE a

Refused == [label |-> "refused"]

CustomWindow(start, end, now) ==
    LET floor  == Utc(now - Hours(RetentionDays))
        from   == ParseBound(start, FALSE)
        to     == IF end = Null THEN Utc(now) ELSE ParseBound(end, TRUE)
        first  == Later(from, floor)
    IN  IF \/ from.at >= to.at
           \/ end # Null /\ first.at >= to.at
        THEN Refused
        ELSE [label |-> "custom", start |-> first,
              end |-> IF end = Null THEN Null ELSE to,
              bucket |-> BucketFor(to.at - first.at),
              clamped |-> first.at > from.at]

NamedWindow(label, now) ==
    LET floor == Utc(now - Hours(RetentionDays))
        from  == Utc(now - Hours(WindowDays[label]))
        first == Later(from, floor)
    IN  IF WindowDays[label] = Null
        THEN [label |-> label, start |-> floor, end |-> Null,
              bucket |-> "day", clamped |-> FALSE]
        ELSE [label |-> label, start |-> first, end |-> Null,
              bucket |-> BucketFor(now - first.at), clamped |-> first.at > from.at]

\* The window the dashboard asks for, resolved against the clock.
ResolveWindow(ask, now) ==
    IF ask.start # Null THEN CustomWindow(ask.start, ask.end, now)
    ELSE IF ask.end # Null \/ ask.window \notin DOMAIN WindowDays THEN Refused
    ELSE NamedWindow(ask.window, now)

-----------------------------------------------------------------------------
(* Aggregates. *)

TokensOf(rows) == MapThenSumSet(LAMBDA row : row.tokens, rows)

Counters(rows) ==
    [requests |-> Cardinality(rows),
     errors   |-> Cardinality({row \in rows : IsError(row)}),
     tokens   |-> TokensOf(rows),
     priced   |-> Cardinality({row \in rows : row.priced})]

\* GROUP BY: one value of Aggregate for each value of Key that has rows.
GroupBy(rows, Key(_), Aggregate(_)) ==
    [k \in {Key(row) : row \in rows} |-> Aggregate({row \in rows : Key(row) = k})]

ProviderOf(row) == row.provider
ModelOf(row) == row.model
GroupOf(row) == <<row.provider, row.model>>

BucketOf(row, w) == IF w.bucket = "hour" THEN row.ts ELSE row.ts \div HoursPerDay

RangeTotals(rows, w) == Counters(Within(rows, w))

RangeSeries(rows, w) ==
    LET Bucket(row) == BucketOf(row, w) IN GroupBy(Within(rows, w), Bucket, Counters)

\* The statements skip rows without a provider or a model; there are none: every row is
\* written with both.
ProviderTotals(rows, w) == GroupBy(Within(rows, w), ProviderOf, Counters)
ModelTotals(rows, w)    == GroupBy(Within(rows, w), ModelOf, Counters)
Breakdown(rows, w)      == GroupBy(Within(rows, w), GroupOf, Counters)

\* Throughput: token-weighted over the rows that qualify.
Speed(rows) ==
    [requests   |-> Cardinality(rows),
     tokens     |-> TokensOf(rows),
     generation |-> MapThenSumSet(LAMBDA row : row.generation, rows)]

Qualifying(rows) == {row \in rows : Qualifies(row)}

BreakdownSpeeds(rows, w) == GroupBy(Qualifying(Within(rows, w)), GroupOf, Speed)
ModelSpeeds(rows, w)     == GroupBy(Qualifying(Within(rows, w)), ModelOf, Speed)

SpeedSeries(rows, w) ==
    LET Point(row) == <<BucketOf(row, w), row.model>>
    IN  GroupBy(Qualifying(Within(rows, w)), Point, Speed)

\* The models with a throughput figure, over the whole log and not the window.
SpeedModels(rows) == {row.model : row \in Qualifying(rows)}

\* tps(): three queries.
SpeedAnswer(seriesRows, modelRows, namesRows, w) ==
    LET byModel == ModelSpeeds(modelRows, w)
        models  == SpeedModels(namesRows)
    IN  [models   |-> models,
         series   |-> SpeedSeries(seriesRows, w),
         by_model |-> [m \in models \cap DOMAIN byModel |-> byModel[m]]]

NoSpeed == [requests |-> 0, tokens |-> 0, generation |-> 0]

\* breakdown(): the counters of a group from one query, its throughput from another.
BreakdownAnswer(rows, speedRows, w) ==
    LET groups == Breakdown(rows, w)
        speeds == BreakdownSpeeds(speedRows, w)
    IN  [g \in DOMAIN groups |->
            [counters |-> groups[g],
             speed |-> IF g \in DOMAIN speeds THEN speeds[g] ELSE NoSpeed]]

FirstTs(rows) == IF rows = {} THEN Null ELSE Min({row.ts : row \in rows})
=============================================================================

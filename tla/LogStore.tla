------------------------------- MODULE LogStore -------------------------------
(***************************************************************************)
(* The tables of deploy/clickhouse/init.sql, the queries of                *)
(* storage/clickhouse.go on them, the handler of GET /api/search           *)
(* (dashboard/routes.go), and InitDB, which seeds an empty table when the  *)
(* dashboard starts.  Meanwhile the worker inserts and the tables' TTL     *)
(* removes rows.  A browser looks through the pages of one search.         *)
(*                                                                         *)
(* A query sees one state of the database.  Handlers share nothing, so one *)
(* of them stands for all.  An insert writes the table first and then the  *)
(* materialized views, which are written together here.                    *)
(***************************************************************************)
EXTENDS Integers, FiniteSets, Metrics

CONSTANTS Rows,       \* names of log records
          Seeds,      \* Seeds[k]: the record that the k-th start would seed
          Time,       \* Time[r]: its timestamp in seconds
          Service,    \* Service[r], a number: services by name
          Errors,     \* the rows with severity ERROR or worse
          MaxAge,     \* TTL of the logs table, in seconds
          Graph,      \* span of the ingestion graph and the average rate (1 min)
          Current,    \* span of the current rate (5 s)
          ErrorSpan,  \* span of the error rate (5 min)
          TopSpan,    \* span of the services with most errors (1 h)
          Minute,     \* width of a bucket of metrics_1m, in seconds
          Begin, End, \* bound: the clock runs from Begin to End
          Searches,   \* the queries that are made
          Limit       \* page size of the browser

(* What a request asks for, and whether its parameters can be parsed.  The  *)
(* browser sends no negative limit.                                        *)
LogQueryFilter ==
  [services : SUBSET Nat, from : Nat, to : Nat, orderBy : STRING, descending : BOOLEAN,
   limit : Nat, offset : Int, parses : BOOLEAN]

Services == {Service[r] : r \in Rows}
Seconds  == 0..End
MaxStarts == Len(Seeds)

(* Every start makes its own record, at its own time.                      *)
ASSUME RowAssumption ==
  /\ IsFiniteSet(Rows) /\ Errors \subseteq Rows
  /\ Seeds \in Seq(Rows) /\ \A i, j \in DOMAIN Seeds : Seeds[i] = Seeds[j] => i = j
  /\ Time \in [Rows -> Seconds] /\ Service \in [Rows -> Nat \ {NoService}]
ASSUME SpanAssumption ==
  /\ {MaxAge, Graph, Current, ErrorSpan, TopSpan, Minute, Limit} \subseteq Nat \ {0}
  /\ Current <= Graph /\ ErrorSpan + Minute <= TopSpan + 1
  /\ Begin \in Nat /\ End \in Nat /\ Graph <= Begin /\ Begin <= End

ASSUME SearchAssumption == Searches # {} /\ Searches \subseteq LogQueryFilter

VARIABLES
  now,
  \* the database
  logs,     \* rows of the table logs
  ever,     \* all rows that were ever inserted
  behind,   \* rows that the views do not count yet
  metrics,  \* per service and second: logs and errors
  registry, \* services ever seen
  \* the start of the dashboard
  boot,     \* where InitDB is
  starts,   \* number of starts
  late,     \* starts whose insert failed or was cut off: it may come in later
  \* the search handler
  at,       \* where it is
  query,    \* its request
  page,     \* what SearchLogs returned
  total,    \* what GetFilteredLogsCount returned
  \* the browser
  tab,      \* is it looking through the pages?
  offset,   \* of the page it is at
  seen,     \* rows it was shown
  initial   \* matching rows when it began

database == <<logs, ever, behind, metrics, registry>>
process  == <<boot, starts, late>>
handler  == <<at, query, page, total>>
browser  == <<tab, offset, seen, initial>>
vars == <<now, logs, ever, behind, metrics, registry, boot, starts, late, at, query,
          page, total, tab, offset, seen, initial>>

Init ==
  /\ now = Begin
  /\ logs = {} /\ ever = {} /\ behind = {}
  /\ metrics = [b \in Services \X Seconds |-> [logs |-> 0, errors |-> 0]]
  /\ registry = {}
  /\ boot = "down" /\ starts = 0 /\ late = {}
  /\ at = "idle" /\ query = (CHOOSE q \in Searches : TRUE) /\ page = <<>> /\ total = 0
  /\ tab = "closed" /\ offset = 0 /\ seen = {} /\ initial = {}

(* The handler returns; its variables are gone. *)
Return == at' = "idle" /\ page' = <<>> /\ total' = 0

-----------------------------------------------------------------------------
(* The database *)

Inserted(r) ==
  /\ logs' = logs \cup {r}
  /\ ever' = ever \cup {r}
  /\ behind' = behind \cup {r}
  /\ UNCHANGED <<metrics, registry>>

(* The views count what came in, metrics_1m what came into metrics. *)
WriteViews(r) ==
  /\ r \in behind
  /\ behind' = behind \ {r}
  /\ metrics' = [metrics EXCEPT ![<<Service[r], Time[r]>>] =
                   [logs   |-> @.logs + 1,
                    errors |-> @.errors + (IF r \in Errors THEN 1 ELSE 0)]]
  /\ registry' = registry \cup {Service[r]}
  /\ UNCHANGED <<now, logs, ever, process, handler, browser>>

(* The worker's inserts. *)
Insert(r) ==
  /\ r \notin ever
  /\ \A k \in DOMAIN Seeds : Seeds[k] # r
  /\ Inserted(r)
  /\ UNCHANGED <<now, process, handler, browser>>

Old(r) == Time[r] + MaxAge <= now

(* Merges remove what is too old, some time after it became so. *)
Expire(r) ==
  /\ r \in logs /\ Old(r)
  /\ logs' = logs \ {r}
  /\ UNCHANGED <<now, ever, behind, metrics, registry, process, handler, browser>>

Tick ==
  /\ now < End
  /\ now' = now + 1
  /\ UNCHANGED <<database, process, handler, browser>>

-----------------------------------------------------------------------------
(* InitDB *)

Start ==
  /\ boot = "down" /\ starts < MaxStarts
  /\ boot' = "count"
  /\ starts' = starts + 1
  /\ UNCHANGED <<now, database, late, handler, browser>>

(* Slip: the table is not counted. *)
SeedAlways ==
  /\ boot = "count"
  /\ boot' = "insert"
  /\ UNCHANGED <<now, database, starts, late, handler, browser>>

(* A failure of InitDB is only logged. *)
CountRows ==
  /\ boot = "count"
  /\ boot' \in {"up", IF logs = {} THEN "insert" ELSE "up"}
  /\ UNCHANGED <<now, database, starts, late, handler, browser>>

(* The server inserts the rows of a start, also when that start no longer  *)
(* waits for it.                                                           *)
Commit(k) ==
  /\ k \in late \/ (boot = "insert" /\ k = starts)
  /\ Seeds[k] \notin ever
  /\ Inserted(Seeds[k])
  /\ UNCHANGED <<now, process, handler, browser>>

(* BatchInsert returns when the views are written, too. *)
Seeded ==
  /\ boot = "insert" /\ Seeds[starts] \in ever \ behind
  /\ boot' = "up"
  /\ UNCHANGED <<now, database, starts, late, handler, browser>>

LeaveInsert ==
  late' = IF boot = "insert" /\ Seeds[starts] \notin ever THEN late \cup {starts} ELSE late

(* Before or after the rows are in. *)
SeedFails ==
  /\ boot = "insert"
  /\ boot' = "up"
  /\ LeaveInsert
  /\ UNCHANGED <<now, database, starts, handler, browser>>

(* Slip: handlers go on without the process. *)
StopAlone ==
  /\ boot # "down"
  /\ boot' = "down"
  /\ UNCHANGED <<now, database, starts, late, handler, browser>>

(* Requests in progress are aborted; an insert is left to the server. *)
Stop ==
  /\ boot # "down"
  /\ boot' = "down"
  /\ LeaveInsert
  /\ Return
  /\ UNCHANGED <<now, database, starts, query, browser>>

-----------------------------------------------------------------------------
(* The queries *)

(* Names match by prefix, other texts likewise; 0 is no limit in time. *)
Matches(r, q) ==
  /\ q.services = {} \/ Service[r] \in q.services
  /\ Time[r] >= q.from
  /\ q.to = 0 \/ Time[r] <= q.to

Matching(q) == {r \in logs : Matches(r, q)}

ParseOrderByField(s) == IF s \in {"Timestamp", "ServiceName"} THEN s ELSE ""

Before(r1, r2, q) ==
  LET less(x, y) == IF ParseOrderByField(q.orderBy) = "ServiceName"
                    THEN Service[x] < Service[y]
                    ELSE Time[x] < Time[y]
  IN  IF q.descending THEN less(r2, r1) ELSE less(r1, r2)

Sorted(s, q) == \A i, j \in DOMAIN s : Before(s[i], s[j], q) => i < j

LimitOf(q)  == IF q.limit = 0 THEN 100 ELSE q.limit
OffsetOf(q) == IF q.offset < 0 THEN 0 ELSE q.offset

(* Rows that the order does not tell apart come in any order, and in       *)
(* another one next time.                                                  *)
SearchLogs(q) ==
  {SubSeq(s, OffsetOf(q) + 1,
          IF OffsetOf(q) + LimitOf(q) < Len(s) THEN OffsetOf(q) + LimitOf(q) ELSE Len(s)) :
     s \in {t \in SetToSeqs(Matching(q)) : Sorted(t, q)}}

GetFilteredLogsCount(q) == Cardinality(Matching(q))

GetDistinctServices == registry

(* Slip: the end of the span is included. *)
InGraphOrNow(second) == now - Graph <= second /\ second <= now

InGraph(second) == now - Graph <= second /\ second < now

(* ORDER BY: the elements of S by their keys. *)
Ordered(S, key) ==
  CHOOSE s \in SetToSeqs(S) : \A i, j \in DOMAIN s : i < j => key[s[i]] <= key[s[j]]

(* WITH FILL adds the seconds without logs, for each service that has some *)
(* in the span, or without any service when none has.                      *)
GraphRows ==
  LET having(s) == {t \in Seconds : InGraph(t) /\ metrics[<<s, t>>].logs > 0}
      names     == {s \in Services : having(s) # {}}
      seconds(s) == (now - Graph)..(now - 1) \cup having(s)
      rowsOf(s) == LET filled == Ordered(seconds(s), [t \in seconds(s) |-> t])
                   IN  [i \in DOMAIN filled |->
                          [second |-> filled[i], service |-> s,
                           count |-> metrics[<<s, filled[i]>>].logs]]
  IN  IF names = {}
      THEN [i \in 1..Graph |-> [second |-> now - Graph + i - 1, service |-> NoService, count |-> 0]]
      ELSE FoldLeft(\o, <<>>, [k \in 1..Cardinality(names) |-> rowsOf(SetToSeq(names)[k])])

(* Of the rows that the query found. *)
GetIngestionGraphMetrics(rows) == NewIngestionGraphMetrics(rows, Graph)

SumOver(buckets) ==
  [logs   |-> MapThenSumSet(LAMBDA b : metrics[b].logs, buckets),
   errors |-> MapThenSumSet(LAMBDA b : metrics[b].errors, buckets)]

SumSince(start, names) == SumOver({b \in names \X Seconds : b[2] >= start})

(* Sums of the table metrics_1m. *)
toStartOfMinute(second) == second - (second % Minute)

SumMinutesSince(start, names) ==
  SumOver({b \in names \X Seconds : toStartOfMinute(b[2]) >= start})

(* Sums that are divided by the spans, 5 s and 60 s. *)
GetLogRateStatistics == [current |-> SumSince(now - Current, Services).logs,
                         average |-> SumSince(now - Graph, Services).logs]

Percent(sum) == IF sum.logs = 0 THEN 0 ELSE (100 * sum.errors) \div sum.logs

GetErrorRateMetrics == Percent(SumSince(now - ErrorSpan, Services))

GetTopServiceErrorsStats ==
  LET sum(s) == SumMinutesSince(now - TopSpan, {s})
      found  == {s \in Services : sum(s).logs > 0}
      list   == Ordered(found, [s \in found |-> -Percent(sum(s))])
  IN  SubSeq(list, 1, IF Len(list) < 5 THEN Len(list) ELSE 5)

-----------------------------------------------------------------------------
(* GET /api/search: parse, search, count, reply *)

Ask(q) ==
  /\ boot = "up" /\ at = "idle" /\ tab = "closed"
  /\ at' = "parse"
  /\ query' = q
  /\ UNCHANGED <<now, database, process, page, total, browser>>

(* 400, or 500 when a query fails; the browser shows no rows. *)
Fail ==
  /\ at \in {"parse", "count"}
  /\ Return
  /\ UNCHANGED <<now, database, process, query, browser>>

Search ==
  /\ at = "parse" /\ query.parses
  /\ page' \in SearchLogs(query)
  /\ at' = "count"
  /\ UNCHANGED <<now, database, process, query, total, browser>>

(* Slip: what is counted is the page. *)
CountPage ==
  /\ at = "count"
  /\ total' = Len(page)
  /\ at' = "reply"
  /\ UNCHANGED <<now, database, process, query, page, browser>>

Count ==
  /\ at = "count"
  /\ total' = GetFilteredLogsCount(query)
  /\ at' = "reply"
  /\ UNCHANGED <<now, database, process, query, page, browser>>

-----------------------------------------------------------------------------
(* The browser: pages of Limit rows until the total is reached *)

(* Slip: the next page begins one row late. *)
NextOffsetLate == offset + Limit + 1

NextOffset == offset + Limit

Browse(q) ==
  /\ boot = "up" /\ at = "idle" /\ tab = "closed"
  /\ tab' = "open"
  /\ query' = q
  /\ offset' = 0
  /\ seen' = {}
  /\ initial' = Matching([q EXCEPT !.to = now])
  /\ UNCHANGED <<now, database, process, at, page, total>>

(* The search ends at the time of the request. *)
AskPage ==
  /\ boot = "up" /\ at = "idle" /\ tab = "open"
  /\ at' = "parse"
  /\ query' = [query EXCEPT !.limit = Limit, !.offset = offset, !.to = now, !.parses = TRUE]
  /\ UNCHANGED <<now, database, process, page, total, browser>>

Reply ==
  /\ at = "reply"
  /\ Return
  /\ IF tab = "open"
     THEN /\ seen' = seen \cup ToSet(page)
          /\ offset' = NextOffset
          /\ tab' = IF offset + Limit < total THEN "open" ELSE "end"
     ELSE UNCHANGED <<seen, offset, tab>>
  /\ UNCHANGED <<now, database, process, query, initial>>

-----------------------------------------------------------------------------
(* The last process has stopped. *)
Ended == boot = "down" /\ starts = MaxStarts /\ UNCHANGED vars

Next ==
  \/ \E r \in Rows : Insert(r) \/ WriteViews(r) \/ Expire(r)
  \/ Tick
  \/ Start \/ CountRows \/ Seeded \/ SeedFails \/ Stop
  \/ \E k \in DOMAIN Seeds : Commit(k)
  \/ \E q \in Searches : Ask(q) \/ Browse(q)
  \/ Fail \/ Search \/ Count \/ AskPage \/ Reply
  \/ Ended

Spec == Init /\ [][Next]_vars

-----------------------------------------------------------------------------
(* Properties *)

(* Type invariant. *)
TypeOK ==
  /\ now \in Begin..End
  /\ logs \subseteq ever /\ behind \subseteq ever /\ ever \subseteq Rows
  /\ metrics \in [Services \X Seconds -> [logs : Nat, errors : Nat]]
  /\ registry \subseteq Services
  /\ boot \in {"down", "count", "insert", "up"} /\ starts \in 0..MaxStarts
  /\ late \subseteq 1..starts
  /\ at \in {"idle", "parse", "count", "reply"} /\ (at # "idle" => boot = "up")
  /\ page \in Seq(Rows) /\ total \in Nat
  /\ tab \in {"closed", "open", "end"} /\ offset \in Nat
  /\ seen \subseteq ever /\ initial \subseteq ever

(* A reply fits together although its two queries see different states of  *)
(* the table: the page is sorted, without repetition and within the        *)
(* filter, and its rows are among the counted ones; only rows that are due *)
(* to expire may be missing from the count.                                *)
PageConsistent ==
  at = "reply" =>
    /\ \A i \in DOMAIN page : Matches(page[i], query)
    /\ \A i, j \in DOMAIN page : page[i] = page[j] => i = j
    /\ Sorted(page, query)
    /\ Len(page) <= LimitOf(query)
    /\ page # <<>> =>
         OffsetOf(query) + Len(page)
           <= total + Cardinality({r \in ever : Old(r) /\ Matches(r, query)})

(* Turning the pages shows every row that was there at the beginning,      *)
(* though rows come in between.  The exceptions: rows that are due to      *)
(* expire; rows whose sort key another row has (their order may change     *)
(* from page to page); and, unless the newest come first, any row once     *)
(* others have expired (the pages move).                                   *)
TiedWith(r) == {s \in ever \ {r} : ~Before(r, s, query) /\ ~Before(s, r, query)}
NewestFirst == query.descending /\ ParseOrderByField(query.orderBy) # "ServiceName"
BrowseMissesNothing ==
  tab = "end" =>
    \A r \in initial \ seen :
      Old(r) \/ TiedWith(r) # {} \/ (~NewestFirst /\ ever # logs)

(* The demo logs come in once, however often the dashboard starts: a later *)
(* start seeds again only when rows were removed from the table, or when   *)
(* the insert of the earlier one had failed or was cut off, and the server *)
(* may have finished it after the count.                                   *)
SeededOnce ==
  \A k, l \in DOMAIN Seeds :
    k < l /\ {Seeds[k], Seeds[l]} \subseteq ever => ever # logs \/ k \in late

(* The charts agree with each other at any time, with late logs, quiet     *)
(* services and no logs at all: every series of the graph has a point for  *)
(* every second of its axis; the graph shows no more than the average rate *)
(* counts; the filter offers every service found; an error is in the list. *)
ChartsAgree ==
  LET rows  == GraphRows
      graph == GetIngestionGraphMetrics(rows)
      rates == GetLogRateStatistics
      shown == MapThenSumSet(LAMBDA i : rows[i].count, DOMAIN rows)
  IN  /\ Len(graph.timestamps) = Graph
      /\ \A s \in DOMAIN graph.metrics :
           /\ Len(graph.metrics[s]) = Graph
           /\ \A i \in 1..Graph : graph.metrics[s][i].second = graph.timestamps[i]
      /\ shown <= rates.average
      /\ rates.current <= rates.average
      /\ {Service[r] : r \in logs \ behind} \cup DOMAIN graph.metrics \subseteq GetDistinctServices
      /\ GetErrorRateMetrics > 0 => GetTopServiceErrorsStats # <<>>
=============================================================================

------------------------------ MODULE Dashboard ------------------------------
(***************************************************************************)
(* The dashboard process (cmd/dashboard/main.go): it connects to NATS and  *)
(* ClickHouse, waits for the worker's consumer, polls it, serves the REST  *)
(* handlers of dashboard/routes.go and the event streams of                *)
(* dashboard/sse.go, and stops on a signal.                                *)
(*                                                                         *)
(* The search handler is in LogStore, the live tail in LiveTail.  The      *)
(* database and NATS may never answer; a call whose context is cancelled   *)
(* returns.                                                                *)
(***************************************************************************)
EXTENDS Integers, FiniteSets, Sequences, Metrics

CONSTANTS Clients   \* browsers, each with one request or stream at a time

VARIABLES
  \* main
  phase,      \* where run is
  conn,       \* the connection to NATS
  signalled,  \* is the context cancelled?
  attempt,    \* of GetJetstreamConsumer
  waited,     \* seconds it has waited in between
  \* its goroutines
  seeder,
  poller,
  listener,
  stopper,    \* the shutdown job
  \* the handlers
  at,         \* where the handler of a client is
  streaming,  \* does it serve an event stream?
  job,        \* what it answers
  query,      \* the state of each of its queries
  written,    \* how many replies it has written
  away        \* has the client gone?

main     == <<phase, conn, signalled, attempt, waited>>
routines == <<seeder, poller, listener, stopper>>
handlers == <<at, streaming, job, query, written, away>>
vars == <<phase, conn, signalled, attempt, waited, seeder, poller, listener, stopper,
          at, streaming, job, query, written, away>>

-----------------------------------------------------------------------------
(* What a handler does: its queries, one after the other or together, and  *)
(* how many replies or events it writes.                                   *)

Job(queries, together, writes) ==
  [queries |-> queries, together |-> together, writes |-> writes]

GetDLQStreamInfo == <<"Stream", "Info">>

writeIngestionGraphAndLogRatesEvent ==
  Job(<<"GetIngestionGraphMetrics", "GetLogRateStatistics">>, TRUE, 2)
writeErrorRateAndNatsQueueDepthMetricsEvent ==
  Job(<<"GetErrorRateMetrics", "GetNatsQueueDepthMetrics">>, TRUE, 2)
writeTopServiceErrorsStatsEvent == Job(<<"GetTopServiceErrorsStats">>, FALSE, 1)
writeStorageInfoEvent == Job(<<"GetStorageStats", "GetLogsStorageOutlook">>, FALSE, 1)
writeNatsDlQInfoEvent == Job(GetDLQStreamInfo, FALSE, 1)

Events == {writeIngestionGraphAndLogRatesEvent, writeErrorRateAndNatsQueueDepthMetricsEvent,
           writeTopServiceErrorsStatsEvent, writeStorageInfoEvent, writeNatsDlQInfoEvent}

handleDistinctServices      == Job(<<"GetDistinctServices">>, FALSE, 1)
handleLogRateStats          == Job(<<"GetLogRateStatistics">>, FALSE, 1)
handleErrorRateMetrics      == Job(<<"GetErrorRateMetrics">>, FALSE, 1)
handleIngestionGraphMetrics == Job(<<"GetIngestionGraphMetrics">>, FALSE, 1)
handleTopServiceErrors      == Job(<<"GetTopServiceErrorsStats">>, FALSE, 1)
handleStorageInfo           == Job(<<"GetStorageStats", "GetLogsStorageOutlook">>, FALSE, 1)
handleNatsDLQInfo           == Job(GetDLQStreamInfo, FALSE, 1)
handleNatsQueueDepthMetrics == Job(<<"GetNatsQueueDepthMetrics">>, FALSE, 1)
handleConfig                == Job(<<>>, FALSE, 1)

Endpoints == {handleDistinctServices, handleLogRateStats, handleErrorRateMetrics,
              handleIngestionGraphMetrics, handleTopServiceErrors, handleStorageInfo,
              handleNatsDLQInfo, handleNatsQueueDepthMetrics, handleConfig}

-----------------------------------------------------------------------------
Every(v) == [c \in Clients |-> v]

Init ==
  /\ phase = "connect" /\ conn = "none" /\ signalled = FALSE
  /\ attempt = 0 /\ waited = 0
  /\ seeder = "none" /\ poller = "none" /\ listener = "none" /\ stopper = "none"
  /\ at = Every("none") /\ streaming = Every(FALSE) /\ away = Every(FALSE)
  /\ job = Every(handleConfig) /\ query = Every(<<>>) /\ written = Every(0)

(* SIGINT or SIGTERM. *)
Signal ==
  /\ phase # "exited" /\ ~signalled
  /\ signalled' = TRUE
  /\ UNCHANGED <<phase, conn, attempt, waited, routines, handlers>>

(* The client library gives up reconnecting and closes the connection.     *)
LoseConnection ==
  /\ conn = "up"
  /\ conn' = "closed"
  /\ UNCHANGED <<phase, signalled, attempt, waited, routines, handlers>>

-----------------------------------------------------------------------------
(* run: start-up *)

Goto(p) == phase' = p /\ UNCHANGED <<conn, signalled, attempt, waited>>

(* Everything ends with the process. *)
Exit ==
  /\ phase' = "exited"
  /\ seeder' = "none" /\ poller' = "none" /\ listener' = "none" /\ stopper' = "none"
  /\ at' = Every("none") /\ streaming' = Every(FALSE) /\ away' = Every(FALSE)
  /\ job' = Every(handleConfig) /\ query' = Every(<<>>) /\ written' = Every(0)
  /\ UNCHANGED <<signalled, attempt, waited>>

(* Without NATS: os.Exit. *)
NewNatsBroker ==
  /\ phase = "connect"
  /\ \/ /\ phase' = "store" /\ conn' = "up"
        /\ seeder' \in {"none", "select"}
        /\ UNCHANGED <<signalled, attempt, waited, poller, listener, stopper, handlers>>
     \/ Exit /\ UNCHANGED conn

(* A failure panics, which runs the deferred Close. *)
NewClickHouseStore ==
  /\ phase = "store"
  /\ \/ Goto(IF seeder = "none" THEN "consumer" ELSE "initdb")
     \/ Goto("close")
  /\ UNCHANGED <<routines, handlers>>

(* A failure is logged. *)
InitDB ==
  /\ phase = "initdb"
  /\ Goto("consumer")
  /\ UNCHANGED <<routines, handlers>>

RetryAttempts == 5

GetJetstreamConsumer ==
  /\ phase = "consumer"
  /\ \/ Goto("serve")
     \/ Goto("backoff")
  /\ UNCHANGED <<routines, handlers>>

(* The delay also follows the last attempt. *)
Backoff ==
  /\ phase = "backoff"
  /\ waited' = waited + calculateExponentialBackoff(attempt, 1, 15)
  /\ attempt' = attempt + 1
  /\ phase' = IF attempt + 1 < RetryAttempts THEN "consumer" ELSE "close"
  /\ UNCHANGED <<conn, signalled, routines, handlers>>

BackoffCancelled ==
  /\ phase = "backoff" /\ signalled
  /\ Goto("close")
  /\ UNCHANGED <<routines, handlers>>

Serve ==
  /\ phase = "serve"
  /\ Goto("wait")
  /\ poller' = "select" /\ listener' = "starting" /\ stopper' = "waiting"
  /\ UNCHANGED <<seeder, handlers>>

(* run: the end *)

Wait ==
  /\ phase = "wait" /\ poller = "done" /\ stopper = "done"
  /\ Goto("close")
  /\ UNCHANGED <<routines, handlers>>

(* When the connection is closed already, nothing closes it again.         *)
Drain ==
  /\ phase = "close" /\ conn = "up"
  /\ phase' = "closing" /\ conn' = "draining"
  /\ UNCHANGED <<signalled, attempt, waited, routines, handlers>>

Closed ==
  /\ phase = "closing"
  /\ conn' = "closed"
  /\ Exit

-----------------------------------------------------------------------------
(* The goroutines of run *)

Seeder(from, to) == seeder = from /\ seeder' = to
SeederStep ==
  /\ \/ Seeder("select", "auth")           \* the ticker
     \/ Seeder("auth", "logging")          \* published, or failed
     \/ Seeder("auth", "select")           \* not encoded
     \/ Seeder("logging", "select")
     \/ signalled /\ Seeder("select", "done")
  /\ UNCHANGED <<main, poller, listener, stopper, handlers>>

Poller(from, to) ==
  /\ poller = from /\ poller' = to
  /\ UNCHANGED <<main, seeder, listener, stopper, handlers>>

Poll == Poller("select", "info")

ConsumerInfo == Poller("info", "save") \/ Poller("info", "select")

SaveConsumerInfo == Poller("save", "select")

PollCancelled ==
  /\ signalled
  /\ Poller("info", "select") \/ Poller("save", "select")

PollDone == signalled /\ Poller("select", "done")

(* A failure is logged, and the process goes on without a server.          *)
ListenAndServe ==
  /\ listener = "starting"
  /\ listener' \in IF stopper = "waiting" THEN {"open", "done"} ELSE {"done"}
  /\ UNCHANGED <<main, seeder, poller, stopper, handlers>>

BeginShutdown ==
  /\ stopper = "waiting" /\ signalled
  /\ stopper' = "shutdown"
  /\ listener' = IF listener = "open" THEN "done" ELSE listener
  /\ UNCHANGED <<main, seeder, poller, handlers>>

(* Slip: Shutdown has no timeout. *)
ShutdownWaits ==
  /\ stopper = "shutdown" /\ \A c \in Clients : at[c] = "none"
  /\ stopper' = "done"
  /\ UNCHANGED <<main, seeder, poller, listener, handlers>>

(* It waits for the handlers, at most 10 seconds. *)
Shutdown ==
  /\ stopper = "shutdown"
  /\ stopper' = "done"
  /\ UNCHANGED <<main, seeder, poller, listener, handlers>>

-----------------------------------------------------------------------------
(* The handlers *)

At(c, from, to) == at[c] = from /\ at' = [at EXCEPT ![c] = to]

(* The queries that a handler begins with: all or the first of them.       *)
Begun(j) == [i \in DOMAIN j.queries |-> IF j.together \/ i = 1 THEN "run" ELSE "next"]

Begin(c, j) ==
  /\ job' = [job EXCEPT ![c] = j]
  /\ query' = [query EXCEPT ![c] = Begun(j)]
  /\ written' = [written EXCEPT ![c] = 0]

Request(c, j) ==
  /\ listener = "open"
  /\ At(c, "none", "query")
  /\ Begin(c, j)
  /\ UNCHANGED <<main, routines, streaming, away>>

handleDashboardStream(c) ==
  /\ listener = "open"
  /\ At(c, "none", "select")
  /\ streaming' = [streaming EXCEPT ![c] = TRUE]
  /\ UNCHANGED <<main, routines, job, query, written, away>>

Leave(c) ==
  /\ at[c] # "none" /\ ~away[c]
  /\ away' = [away EXCEPT ![c] = TRUE]
  /\ UNCHANGED <<main, routines, at, streaming, job, query, written>>

Running(c) == \E i \in DOMAIN query[c] : query[c][i] = "run"

(* The handler returns; a query that still runs would go on.               *)
Return(c) ==
  /\ at' = [at EXCEPT ![c] = "none"]
  /\ streaming' = [streaming EXCEPT ![c] = FALSE]
  /\ job' = [job EXCEPT ![c] = handleConfig]
  /\ query' = IF Running(c) THEN query ELSE [query EXCEPT ![c] = <<>>]
  /\ written' = [written EXCEPT ![c] = 0]
  /\ away' = [away EXCEPT ![c] = FALSE]

(* One of the tickers. *)
Tick(c, j) ==
  /\ At(c, "select", "query")
  /\ Begin(c, j)
  /\ UNCHANGED <<main, routines, streaming, away>>

StreamDone(c) ==
  /\ at[c] = "select" /\ (away[c] \/ signalled)
  /\ Return(c)
  /\ UNCHANGED <<main, routines>>

Answer(c, i, result) ==
  /\ query[c][i] = "run"
  /\ query' = [query EXCEPT ![c][i] = result]
  /\ UNCHANGED <<main, routines, at, streaming, job, written, away>>

QueryAnswers(c, i) == \E result \in {"ok", "failed"} : Answer(c, i, result)

(* Slip: the queries have the context of the process. *)
ProcessContextDone(c) == signalled

(* The context of the queries ends with the request and, for queries made  *)
(* together, with the first that fails.                                    *)
QueryContextDone(c) ==
  away[c] \/ (job[c].together /\ \E i \in DOMAIN query[c] : query[c][i] = "failed")

QueryCancelled(c, i) == QueryContextDone(c) /\ Answer(c, i, "failed")

NextQuery(c, i) ==
  /\ at[c] = "query"
  /\ query[c][i] = "next" /\ query[c][i - 1] = "ok"
  /\ query' = [query EXCEPT ![c][i] = "run"]
  /\ UNCHANGED <<main, routines, at, streaming, job, written, away>>

Succeeded(c) == \A i \in DOMAIN query[c] : query[c][i] = "ok"

(* Slip: the first failure ends the wait. *)
FailedFirst(c) == \E i \in DOMAIN query[c] : query[c][i] = "failed"

(* A query failed, and none is running. *)
Failed(c) ==
  /\ \E i \in DOMAIN query[c] : query[c][i] = "failed"
  /\ ~Running(c)

(* A failure ends a stream; a request is answered 500.                     *)
Gather(c) ==
  /\ at[c] = "query"
  /\ \/ /\ Succeeded(c) \/ (Failed(c) /\ ~streaming[c])
        /\ At(c, "query", "write")
        /\ UNCHANGED <<streaming, job, query, written, away>>
     \/ Failed(c) /\ streaming[c] /\ Return(c)
  /\ UNCHANGED <<main, routines>>

(* Nothing bounds a write to a client that does not read. *)
Write(c) ==
  /\ at[c] = "write"
  /\ written' = [written EXCEPT ![c] = @ + 1]
  /\ written[c] + 1 < job[c].writes
  /\ UNCHANGED <<main, routines, at, streaming, job, query, away>>

WriteLast(c) ==
  /\ at[c] = "write" /\ written[c] + 1 = job[c].writes
  /\ IF streaming[c]
     THEN /\ At(c, "write", "select")
          /\ Begin(c, handleConfig)
          /\ UNCHANGED <<streaming, away>>
     ELSE Return(c)
  /\ UNCHANGED <<main, routines>>

WriteFails(c) ==
  /\ away[c] /\ at[c] = "write"
  /\ Return(c)
  /\ UNCHANGED <<main, routines>>

-----------------------------------------------------------------------------
Queries(c) == DOMAIN query[c]

(* The process has ended, or hangs in Close. *)
Ended == phase \in {"exited", "close"} /\ UNCHANGED vars

Next ==
  \/ Signal \/ LoseConnection
  \/ NewNatsBroker \/ NewClickHouseStore \/ InitDB \/ GetJetstreamConsumer
  \/ Backoff \/ BackoffCancelled \/ Serve \/ Wait \/ Drain \/ Closed
  \/ SeederStep
  \/ Poll \/ ConsumerInfo \/ SaveConsumerInfo \/ PollCancelled \/ PollDone
  \/ ListenAndServe \/ BeginShutdown \/ Shutdown
  \/ \E c \in Clients :
       \/ \E j \in Endpoints : Request(c, j)
       \/ handleDashboardStream(c) \/ Leave(c)
       \/ \E j \in Events : Tick(c, j)
       \/ \E i \in Queries(c) : QueryAnswers(c, i) \/ QueryCancelled(c, i) \/ NextQuery(c, i)
       \/ StreamDone(c) \/ Gather(c) \/ Write(c) \/ WriteLast(c) \/ WriteFails(c)
  \/ Ended

(* Calls with a timeout return: Connect, Consumer, the delay, Drain and    *)
(* Shutdown.  Database calls return once they are cancelled.  A select     *)
(* takes each ready case in the long run, so that the one of the context   *)
(* is taken.  A write returns when the client has gone.                    *)
Fairness ==
  /\ WF_vars(NewNatsBroker) /\ WF_vars(signalled /\ NewClickHouseStore)
  /\ WF_vars(signalled /\ InitDB)
  /\ WF_vars(GetJetstreamConsumer) /\ WF_vars(Backoff)
  /\ WF_vars(Serve) /\ WF_vars(Wait) /\ WF_vars(Drain) /\ WF_vars(Closed)
  /\ WF_vars(PollCancelled) /\ SF_vars(PollDone)
  /\ WF_vars(BeginShutdown) /\ WF_vars(Shutdown)
  /\ \A c \in Clients :
       /\ SF_vars(StreamDone(c)) /\ WF_vars(Gather(c))
       /\ WF_vars(\E i \in Queries(c) : QueryCancelled(c, i) \/ NextQuery(c, i))
       /\ WF_vars(away[c] /\ (Write(c) \/ WriteLast(c) \/ WriteFails(c)))

Spec == Init /\ [][Next]_vars /\ Fairness

-----------------------------------------------------------------------------
(* Properties *)

(* Type invariant.  The start-up waits no more than 30 seconds for the     *)
(* consumer.                                                               *)
TypeOK ==
  /\ phase \in {"connect", "store", "initdb", "consumer", "backoff", "serve", "wait",
                "close", "closing", "exited"}
  /\ conn \in {"none", "up", "draining", "closed"} /\ signalled \in BOOLEAN
  /\ attempt \in 0..RetryAttempts /\ waited \in 0..30
  /\ seeder \in {"none", "select", "auth", "logging", "done"}
  /\ poller \in {"none", "select", "info", "save", "done"}
  /\ listener \in {"none", "starting", "open", "done"}
  /\ stopper \in {"none", "waiting", "shutdown", "done"}
  /\ at \in [Clients -> {"none", "select", "query", "write"}]
  /\ streaming \in [Clients -> BOOLEAN] /\ away \in [Clients -> BOOLEAN]
  /\ job \in [Clients -> Events \cup Endpoints]
  /\ written \in [Clients -> 0..2]
  /\ \A c \in Clients : query[c] \in Seq({"next", "run", "ok", "failed"})

(* The goroutines that fetch the halves of an event write to variables of  *)
(* the handler: none of them runs once the handler has gone on, also when  *)
(* the other failed or the client left.  And a stream sends an event only  *)
(* when it has all of it.                                                  *)
FetchesJoined ==
  \A c \in Clients :
    /\ Running(c) => at[c] = "query"
    /\ at[c] = "write" /\ streaming[c] => Succeeded(c)

(* After a signal the process ends, whatever it is doing, be the start-up, *)
(* a query without answer, or a write to a client that does not read.  The *)
(* exception: NATS has been given up, when Close waits for ever.           *)
ShutdownCompletes == signalled ~> (phase = "exited" \/ conn = "closed")

(* The handler of a client that has gone ends, even if the database never  *)
(* answers.                                                                *)
ClientGoneReleases ==
  \A c \in Clients : (away[c] /\ at[c] # "none") ~> (at[c] = "none")
=============================================================================

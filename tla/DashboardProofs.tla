---------------------------- MODULE DashboardProofs ----------------------------
(***************************************************************************)
(* Proofs about the dashboard process, for any number of browsers: its     *)
(* start-up waits a bounded time, and no fetch outlives its handler.  They *)
(* begin with the arithmetic of Metrics, for all amounts.                  *)
(***************************************************************************)
EXTENDS Dashboard, TLAPS, SequenceTheorems

-----------------------------------------------------------------------------
(* What 2^n is for the attempts that occur.                                *)
LEMMA Powers == 2^0 = 1 /\ 2^1 = 2 /\ 2^2 = 4 /\ 2^3 = 8 /\ 2^4 = 16
  OBVIOUS

(* calculateExponentialBackoff: with five attempts, a base of one second   *)
(* and a maximum of 15, as GetJetstreamConsumer uses it, the delays are 1, *)
(* 2, 4, 8 and 15 seconds, so that the start-up waits 30 seconds at most.  *)
THEOREM BackoffDelays ==
  /\ calculateExponentialBackoff(0, 1, 15) = 1
  /\ calculateExponentialBackoff(1, 1, 15) = 2
  /\ calculateExponentialBackoff(2, 1, 15) = 4
  /\ calculateExponentialBackoff(3, 1, 15) = 8
  /\ calculateExponentialBackoff(4, 1, 15) = 15
  BY Powers DEF calculateExponentialBackoff

(* DelayCalculator: whatever count JetStream reports, the delay is 0, when *)
(* no backoff is configured, or an entry of the backoff; it never indexes  *)
(* out of range.                                                           *)
THEOREM DelayFromBackoff ==
  ASSUME NEW backoff \in Seq(Nat), NEW count \in Int
  PROVE  /\ backoff = <<>> => DelayCalculator(backoff, count) = 0
         /\ backoff # <<>> =>
              \E i \in 1..Len(backoff) :
                /\ DelayCalculator(backoff, count) = backoff[i]
                /\ count \in 1..Len(backoff) => i = count
<1>1. CASE backoff = <<>>
  BY <1>1 DEF DelayCalculator
<1>2. CASE backoff # <<>>
  <2>1. Len(backoff) \in Nat /\ Len(backoff) >= 1
    BY <1>2
  <2>2. CASE count >= Len(backoff)
    BY <1>2, <2>1, <2>2 DEF DelayCalculator
  <2>3. CASE count < Len(backoff) /\ count < 1
    BY <1>2, <2>1, <2>3 DEF DelayCalculator
  <2>4. CASE count < Len(backoff) /\ count >= 1
    <3>1. count \in 1..Len(backoff) /\ DelayCalculator(backoff, count) = backoff[count]
      BY <1>2, <2>1, <2>4 DEF DelayCalculator
    <3>2. QED
      BY <1>2, <3>1
  <2>5. QED
    BY <2>1, <2>2, <2>3, <2>4
<1>3. QED
  BY <1>1, <1>2

-----------------------------------------------------------------------------
(* StartPresenceListener: the other side counts as active all the time     *)
(* between two heartbeats if and only if they are seen at most the timeout *)
(* apart.  By default that is the interval at which they are sent, so that *)
(* a heartbeat seen later than the one before it was leaves a gap in which *)
(* the worker does not publish to the live tail.                           *)
THEOREM PresenceGap ==
  ASSUME NEW seen \in Nat \ {0}, NEW next \in Nat, NEW timeout \in Nat \ {0}, seen < next
  PROVE  (\A now \in seen..(next - 1) : isActive(seen, now, timeout)) <=> next - seen <= timeout
<1>1. ASSUME next - seen <= timeout, NEW now \in seen..(next - 1)
      PROVE  isActive(seen, now, timeout)
  BY <1>1 DEF isActive
<1>2. ASSUME next - seen > timeout
      PROVE  seen + timeout \in seen..(next - 1) /\ ~isActive(seen, seen + timeout, timeout)
  BY <1>2 DEF isActive
<1>3. next - seen <= timeout \/ next - seen > timeout
  OBVIOUS
<1>4. QED
  BY <1>1, <1>2, <1>3

-----------------------------------------------------------------------------
(* handleStorageInfo: the days that remain, free / (growth / 30), exceed   *)
(* 30 just when the growth fits into the free space.  So the card asks for *)
(* action if and only if the projected logs exceed both the bytes in use   *)
(* and, to the byte, the capacity; it gives a runway although they will    *)
(* fit when they exceed the bytes in use only; and otherwise it is stable. *)
THEOREM CardMeaning ==
  ASSUME NEW total \in Nat, NEW free \in 0..total, NEW projected \in Nat
  PROVE  LET card == StorageCard([total |-> total, free |-> free], projected)
         IN  /\ card = "stable"  <=> projected <= total - free
             /\ card = "warning" <=> total - free < projected /\ projected < total
             /\ card = "error"   <=> total - free < projected /\ total <= projected
<1> DEFINE card == StorageCard([total |-> total, free |-> free], projected)
<1>1. CASE projected <= total - free
  BY <1>1 DEF StorageCard
<1>2. CASE total - free < projected /\ projected < total
  <2>1. free * 30 > 30 * (projected - (total - free))
    BY <1>2
  <2>2. QED
    BY <1>2, <2>1 DEF StorageCard
<1>3. CASE total - free < projected /\ total <= projected
  <2>1. ~(free * 30 > 30 * (projected - (total - free)))
    BY <1>3
  <2>2. QED
    BY <1>3, <2>1 DEF StorageCard
<1>4. QED
  BY <1>1, <1>2, <1>3

(* Once the history has reached the TTL the projection is what is stored,  *)
(* and a disk that holds the logs, among other things, is stable.          *)
THEOREM SteadyStateIsStable ==
  ASSUME NEW parts \in Seq(Nat), Len(parts) >= LOGS_TTL_DAYS, Total(parts) \in Nat,
         NEW total \in Nat, NEW free \in 0..total, Total(parts) <= total - free
  PROVE  StorageCard([total |-> total, free |-> free], ProjectedSteadyStateBytes(parts)) = "stable"
<1>1. ProjectedSteadyStateBytes(parts) = Total(parts)
  BY DEF ProjectedSteadyStateBytes
<1>2. QED
  BY <1>1 DEF StorageCard

-----------------------------------------------------------------------------
(* The invariant of the process *)

(* What was waited after each number of attempts: 1 + 2 + 4 + 8 + 15.      *)
WaitedAfter == <<0, 1, 3, 7, 15, 30>>

BackoffInv ==
  /\ attempt \in 0..RetryAttempts
  /\ waited = WaitedAfter[attempt + 1]
  /\ phase \in {"connect", "store", "initdb", "consumer", "backoff"} => attempt < RetryAttempts

ProcessOK ==
  /\ phase \in {"connect", "store", "initdb", "consumer", "backoff", "serve", "wait",
                "close", "closing", "exited"}
  /\ conn \in {"none", "up", "draining", "closed"} /\ signalled \in BOOLEAN
  /\ seeder \in {"none", "select", "auth", "logging", "done"}
  /\ poller \in {"none", "select", "info", "save", "done"}
  /\ listener \in {"none", "starting", "open", "done"}
  /\ stopper \in {"none", "waiting", "shutdown", "done"}

Jobs    == Events \cup Endpoints
Results == {"next", "run", "ok", "failed"}

HandlersOK ==
  /\ at \in [Clients -> {"none", "select", "query", "write"}]
  /\ streaming \in [Clients -> BOOLEAN] /\ away \in [Clients -> BOOLEAN]
  /\ job \in [Clients -> Jobs]
  /\ written \in [Clients -> 0..2]
  /\ query \in [Clients -> Seq(Results)]

Inv == BackoffInv /\ ProcessOK /\ HandlersOK /\ FetchesJoined

-----------------------------------------------------------------------------
(* The jobs *)

LEMMA ShortSequences ==
  ASSUME NEW S, NEW x \in S, NEW y \in S
  PROVE  << >> \in Seq(S) /\ <<x>> \in Seq(S) /\ <<x, y>> \in Seq(S)
OBVIOUS

Names ==
  {"Stream", "Info", "GetIngestionGraphMetrics", "GetLogRateStatistics", "GetErrorRateMetrics",
   "GetNatsQueueDepthMetrics", "GetTopServiceErrorsStats", "GetStorageStats",
   "GetLogsStorageOutlook", "GetDistinctServices"}

LEMMA JobKinds ==
  ASSUME NEW j \in Jobs
  PROVE  j.queries \in Seq(Names) /\ j.writes \in {1, 2}
<1>0. \A x \in Names : <<x>> \in Seq(Names)
  BY ShortSequences
<1>1. /\ j.queries \in
           {<< >>, <<"Stream", "Info">>, <<"GetIngestionGraphMetrics", "GetLogRateStatistics">>,
            <<"GetErrorRateMetrics", "GetNatsQueueDepthMetrics">>, <<"GetTopServiceErrorsStats">>,
            <<"GetStorageStats", "GetLogsStorageOutlook">>, <<"GetDistinctServices">>,
            <<"GetLogRateStatistics">>, <<"GetErrorRateMetrics">>, <<"GetIngestionGraphMetrics">>,
            <<"GetNatsQueueDepthMetrics">>}
      /\ j.writes \in {1, 2}
  BY DEF Jobs, Job, Events, GetDLQStreamInfo,
     writeIngestionGraphAndLogRatesEvent, writeErrorRateAndNatsQueueDepthMetricsEvent,
     writeTopServiceErrorsStatsEvent, writeStorageInfoEvent, writeNatsDlQInfoEvent,
     Endpoints, handleDistinctServices, handleLogRateStats,
     handleErrorRateMetrics, handleIngestionGraphMetrics, handleTopServiceErrors,
     handleStorageInfo, handleNatsDLQInfo, handleNatsQueueDepthMetrics, handleConfig
<1>2. << >> \in Seq(Names)
  OBVIOUS
<1>3. \A x, y \in Names : <<x, y>> \in Seq(Names)
  BY ShortSequences
<1>4. /\ "Stream" \in Names /\ "Info" \in Names /\ "GetIngestionGraphMetrics" \in Names
      /\ "GetLogRateStatistics" \in Names /\ "GetErrorRateMetrics" \in Names
      /\ "GetNatsQueueDepthMetrics" \in Names /\ "GetTopServiceErrorsStats" \in Names
      /\ "GetStorageStats" \in Names /\ "GetLogsStorageOutlook" \in Names
      /\ "GetDistinctServices" \in Names
  BY DEF Names
<1>5. QED
  BY <1>0, <1>1, <1>2, <1>3, <1>4

LEMMA BegunType ==
  ASSUME NEW j \in Jobs
  PROVE  Begun(j) \in Seq(Results)
<1>1. j.queries \in Seq(Names)
  BY JobKinds
<1>2. DOMAIN j.queries = 1..Len(j.queries) /\ Len(j.queries) \in Nat
  BY <1>1, LenProperties
<1>3. Begun(j) \in [1..Len(j.queries) -> Results]
  BY <1>2 DEF Begun, Results
<1>4. QED
  BY <1>2, <1>3, SeqDef

LEMMA ConfigQueries == handleConfig \in Jobs /\ Begun(handleConfig) = <<>>
<1>1. handleConfig \in Jobs
  BY DEF Jobs, Endpoints
<1>2. handleConfig.queries = <<>>
  BY DEF handleConfig, Job
<1>3. QED
  BY <1>1, <1>2 DEF Begun

(* One query changes its state.                                            *)
LEMMA SetQuery ==
  ASSUME HandlersOK, NEW c \in Clients, NEW i \in DOMAIN query[c], NEW r \in Results,
         query' = [query EXCEPT ![c][i] = r]
  PROVE  /\ query' \in [Clients -> Seq(Results)]
         /\ DOMAIN query'[c] = DOMAIN query[c]
         /\ \A k \in DOMAIN query[c] : query'[c][k] = IF k = i THEN r ELSE query[c][k]
         /\ \A d \in Clients \ {c} : query'[d] = query[d]
<1>1. query \in [Clients -> Seq(Results)] /\ query[c] \in Seq(Results)
  BY DEF HandlersOK
<1>2. DOMAIN query[c] = 1..Len(query[c]) /\ Len(query[c]) \in Nat
  BY <1>1, LenProperties
<1>3. query'[c] = [query[c] EXCEPT ![i] = r]
  BY <1>1
<1>4. query[c] \in [1..Len(query[c]) -> Results]
  BY <1>1, <1>2, LenProperties
<1>5. query'[c] \in [1..Len(query[c]) -> Results]
  BY <1>2, <1>3, <1>4
<1>6. query'[c] \in Seq(Results)
  BY <1>2, <1>5, SeqDef
<1>7. \A d \in Clients \ {c} : query'[d] = query[d]
  BY <1>1
<1>8. query' \in [Clients -> Seq(Results)]
  BY <1>1, <1>6, <1>7
<1>9. QED
  BY <1>2, <1>3, <1>4, <1>7, <1>8

-----------------------------------------------------------------------------
(* The first state *)

LEMMA InitInv == Init => Inv
<1> SUFFICES ASSUME Init PROVE Inv
  OBVIOUS
<1>1. BackoffInv
  BY DEF Init, BackoffInv, RetryAttempts, WaitedAfter
<1>2. ProcessOK
  <2>1. signalled \in BOOLEAN
    BY DEF Init
  <2>2. QED
    BY <2>1 DEF Init, ProcessOK
<1>3. HandlersOK
  <2>1. streaming \in [Clients -> BOOLEAN] /\ away \in [Clients -> BOOLEAN]
    BY DEF Init, Every
  <2>2. <<>> \in Seq(Results)
    BY EmptySeq
  <2>3. query \in [Clients -> Seq(Results)]
    BY <2>2 DEF Init, Every
  <2>4. job \in [Clients -> Jobs]
    BY ConfigQueries DEF Init, Every
  <2>5. QED
    BY <2>1, <2>3, <2>4 DEF Init, Every, HandlersOK
<1>4. FetchesJoined
  BY DEF Init, Every, FetchesJoined, Running
<1>5. QED
  BY <1>1, <1>2, <1>3, <1>4 DEF Inv

-----------------------------------------------------------------------------
(* The process *)

(* The end of the process ends all handlers.                               *)
LEMMA ExitInv ==
  ASSUME Inv, Exit, conn' \in {"none", "up", "draining", "closed"}
  PROVE  Inv'
<1>1. BackoffInv'
  BY DEF Inv, Exit, BackoffInv
<1>2. ProcessOK'
  BY DEF Inv, Exit, ProcessOK
<1>3. HandlersOK'
  <2>1. streaming' \in [Clients -> BOOLEAN] /\ away' \in [Clients -> BOOLEAN]
    BY DEF Exit, Every
  <2>2. <<>> \in Seq(Results)
    BY EmptySeq
  <2>3. query' \in [Clients -> Seq(Results)]
    BY <2>2 DEF Exit, Every
  <2>4. job' \in [Clients -> Jobs]
    BY ConfigQueries DEF Exit, Every
  <2>5. QED
    BY <2>1, <2>3, <2>4 DEF Exit, Every, HandlersOK
<1>4. FetchesJoined'
  BY DEF Exit, Every, FetchesJoined, Running
<1>5. QED
  BY <1>1, <1>2, <1>3, <1>4 DEF Inv

(* Steps that leave the handlers alone.                                    *)
LEMMA HandlersSame ==
  ASSUME HandlersOK, FetchesJoined, UNCHANGED handlers
  PROVE  HandlersOK' /\ FetchesJoined'
  BY DEF handlers, HandlersOK, FetchesJoined, Running, Succeeded

(* The delays add up to 30 seconds.                                        *)
LEMMA BackoffKept == Inv /\ Backoff => BackoffInv'
<1> SUFFICES ASSUME Inv, Backoff PROVE BackoffInv'
  OBVIOUS
<1>1. attempt \in 0..4 /\ waited = WaitedAfter[attempt + 1]
  BY DEF Inv, Backoff, BackoffInv, RetryAttempts
<1>2. waited' = waited + calculateExponentialBackoff(attempt, 1, 15) /\ attempt' = attempt + 1
  BY DEF Backoff
<1>3. /\ WaitedAfter[1] = 0 /\ WaitedAfter[2] = 1 /\ WaitedAfter[3] = 3
      /\ WaitedAfter[4] = 7 /\ WaitedAfter[5] = 15 /\ WaitedAfter[6] = 30
  BY DEF WaitedAfter
<1>4. attempt = 0 \/ attempt = 1 \/ attempt = 2 \/ attempt = 3 \/ attempt = 4
  BY <1>1
<1>5. waited' = WaitedAfter[attempt' + 1]
  BY <1>1, <1>2, <1>3, <1>4, BackoffDelays
<1>6. attempt' \in 0..RetryAttempts
  BY <1>1, <1>2 DEF RetryAttempts
<1>7. phase' \in {"connect", "store", "initdb", "consumer", "backoff"}
        => attempt' < RetryAttempts
  BY <1>2 DEF Backoff
<1>8. QED
  BY <1>5, <1>6, <1>7 DEF BackoffInv

LEMMA StartInv ==
  ASSUME Inv,
         \/ NewNatsBroker \/ NewClickHouseStore \/ InitDB \/ GetJetstreamConsumer
         \/ Backoff \/ BackoffCancelled \/ Serve
  PROVE  Inv'
<1> USE DEF Goto, routines
<1>1. CASE NewNatsBroker /\ Exit /\ UNCHANGED conn
  BY <1>1, ExitInv DEF Inv, ProcessOK
<1>2. CASE NewNatsBroker /\ ~Exit
  <2>1. BackoffInv' /\ ProcessOK' /\ UNCHANGED handlers
    BY <1>2 DEF NewNatsBroker, Inv, BackoffInv, ProcessOK
  <2>2. QED
    BY <2>1, HandlersSame DEF Inv
<1>3. CASE Backoff
  <2>1. ProcessOK' /\ UNCHANGED handlers
    BY <1>3 DEF Backoff, Inv, ProcessOK
  <2>2. QED
    BY <1>3, <2>1, BackoffKept, HandlersSame DEF Inv
<1>4. CASE NewClickHouseStore \/ InitDB \/ GetJetstreamConsumer \/ BackoffCancelled \/ Serve
  <2>1. BackoffInv'
    BY <1>4 DEF NewClickHouseStore, InitDB, GetJetstreamConsumer, BackoffCancelled, Serve,
                Inv, BackoffInv
  <2>2. ProcessOK'
    BY <1>4 DEF NewClickHouseStore, InitDB, GetJetstreamConsumer, BackoffCancelled, Serve,
                Inv, ProcessOK
  <2>3. UNCHANGED handlers
    BY <1>4 DEF NewClickHouseStore, InitDB, GetJetstreamConsumer, BackoffCancelled, Serve
  <2>4. QED
    BY <2>1, <2>2, <2>3, HandlersSame DEF Inv
<1>5. NewNatsBroker /\ Exit => UNCHANGED conn
  BY DEF NewNatsBroker, Exit
<1>6. QED
  BY <1>1, <1>2, <1>3, <1>4, <1>5

LEMMA RoutineInv ==
  ASSUME Inv,
         \/ Signal \/ LoseConnection \/ Wait \/ Drain \/ SeederStep
         \/ Poll \/ ConsumerInfo \/ SaveConsumerInfo \/ PollCancelled \/ PollDone
         \/ ListenAndServe \/ BeginShutdown \/ Shutdown
  PROVE  Inv'
<1> USE DEF Goto, Seeder, Poller, main, routines
<1>1. UNCHANGED handlers /\ UNCHANGED <<attempt, waited>>
  BY DEF Signal, LoseConnection, Wait, Drain, SeederStep, Poll, ConsumerInfo,
         SaveConsumerInfo, PollCancelled, PollDone, ListenAndServe, BeginShutdown, Shutdown
<1>2. phase' = phase \/ phase' \in {"close", "closing"}
  BY DEF Signal, LoseConnection, Wait, Drain, SeederStep, Poll, ConsumerInfo,
         SaveConsumerInfo, PollCancelled, PollDone, ListenAndServe, BeginShutdown, Shutdown
<1>3. BackoffInv'
  BY <1>1, <1>2 DEF Inv, BackoffInv
<1>4. signalled' \in BOOLEAN
  BY DEF Signal, LoseConnection, Wait, Drain, SeederStep, Poll, ConsumerInfo, SaveConsumerInfo,
         PollCancelled, PollDone, ListenAndServe, BeginShutdown, Shutdown, Inv, ProcessOK
<1>5. /\ conn' \in {"none", "up", "draining", "closed"}
      /\ seeder' \in {"none", "select", "auth", "logging", "done"}
      /\ poller' \in {"none", "select", "info", "save", "done"}
      /\ listener' \in {"none", "starting", "open", "done"}
      /\ stopper' \in {"none", "waiting", "shutdown", "done"}
  BY DEF Signal, LoseConnection, Wait, Drain, SeederStep, Poll, ConsumerInfo, SaveConsumerInfo,
         PollCancelled, PollDone, ListenAndServe, BeginShutdown, Shutdown, Inv, ProcessOK
<1>6. ProcessOK'
  BY <1>2, <1>4, <1>5 DEF Inv, ProcessOK
<1>7. QED
  BY <1>1, <1>3, <1>6, HandlersSame DEF Inv

LEMMA ClosedInv == Inv /\ Closed => Inv'
  BY ExitInv DEF Closed

-----------------------------------------------------------------------------
(* The handlers *)

(* What a handler does leaves the process alone.                           *)
LEMMA ProcessSame ==
  ASSUME BackoffInv, ProcessOK, UNCHANGED <<main, routines>>
  PROVE  BackoffInv' /\ ProcessOK'
  BY DEF main, routines, BackoffInv, ProcessOK

(* The joined fetches of one client.                                       *)
Joined(c) == /\ Running(c) => at[c] = "query"
             /\ at[c] = "write" /\ streaming[c] => Succeeded(c)

LEMMA OthersJoined ==
  ASSUME Inv, NEW c \in Clients, Joined(c)',
         \A d \in Clients \ {c} :
           at'[d] = at[d] /\ streaming'[d] = streaming[d] /\ query'[d] = query[d]
  PROVE  FetchesJoined'
<1> SUFFICES ASSUME NEW d \in Clients PROVE Joined(d)'
  BY DEF FetchesJoined, Joined
<1>1. CASE d = c
  BY <1>1
<1>2. CASE d # c
  BY <1>2 DEF Inv, FetchesJoined, Joined, Running, Succeeded
<1>3. QED
  BY <1>1, <1>2

(* A handler that returns has no query running.                            *)
LEMMA ReturnInv ==
  ASSUME Inv, NEW c \in Clients, ~Running(c), Return(c)
  PROVE  HandlersOK' /\ FetchesJoined'
<1>1. /\ query' = [query EXCEPT ![c] = <<>>]
      /\ at' = [at EXCEPT ![c] = "none"] /\ streaming' = [streaming EXCEPT ![c] = FALSE]
      /\ job' = [job EXCEPT ![c] = handleConfig] /\ written' = [written EXCEPT ![c] = 0]
      /\ away' = [away EXCEPT ![c] = FALSE]
  BY DEF Return
<1>2. <<>> \in Seq(Results)
  BY EmptySeq
<1>3. HandlersOK'
  BY <1>1, <1>2, ConfigQueries DEF Inv, HandlersOK
<1>4. Joined(c)'
  BY <1>1 DEF Inv, HandlersOK, Joined, Running
<1>5. QED
  BY <1>1, <1>3, <1>4, OthersJoined DEF Inv, HandlersOK

LEMMA HandlerInv ==
  ASSUME Inv, NEW c \in Clients,
         \/ \E j \in Endpoints : Request(c, j)
         \/ handleDashboardStream(c) \/ Leave(c)
         \/ \E j \in Events : Tick(c, j)
         \/ StreamDone(c) \/ Gather(c) \/ Write(c) \/ WriteLast(c) \/ WriteFails(c)
  PROVE  Inv'
<1> USE DEF At
<1>1. UNCHANGED <<main, routines>>
  BY DEF Request, handleDashboardStream, Leave, Tick, StreamDone, Gather, Write, WriteLast,
         WriteFails
<1>2. SUFFICES HandlersOK' /\ FetchesJoined'
  BY <1>1, ProcessSame DEF Inv
<1>3. /\ HandlersOK /\ FetchesJoined /\ Joined(c)
  BY DEF Inv, FetchesJoined, Joined
<1>4. CASE \E j \in Jobs : (Request(c, j) \/ Tick(c, j))
  <2>1. PICK j \in Jobs : Request(c, j) \/ Tick(c, j)
    BY <1>4
  <2>2. /\ at' = [at EXCEPT ![c] = "query"] /\ job' = [job EXCEPT ![c] = j]
        /\ query' = [query EXCEPT ![c] = Begun(j)] /\ written' = [written EXCEPT ![c] = 0]
        /\ UNCHANGED <<streaming, away>>
    BY <2>1 DEF Request, Tick, Begin
  <2>3. HandlersOK'
    BY <1>3, <2>2, BegunType DEF HandlersOK
  <2>4. Joined(c)'
    BY <1>3, <2>2 DEF HandlersOK, Joined
  <2>5. QED
    BY <1>3, <2>2, <2>3, <2>4, OthersJoined DEF HandlersOK
<1>5. CASE handleDashboardStream(c)
  <2>1. /\ at[c] = "none" /\ at' = [at EXCEPT ![c] = "select"]
        /\ streaming' = [streaming EXCEPT ![c] = TRUE]
        /\ UNCHANGED <<job, query, written, away>>
    BY <1>5 DEF handleDashboardStream
  <2>2. HandlersOK'
    BY <1>3, <2>1 DEF HandlersOK
  <2>3. Joined(c)'
    BY <1>3, <2>1 DEF HandlersOK, Joined, Running
  <2>4. QED
    BY <1>3, <2>1, <2>2, <2>3, OthersJoined DEF HandlersOK
<1>6. CASE Leave(c)
  BY <1>3, <1>6 DEF Leave, HandlersOK, FetchesJoined, Running, Succeeded
<1>7. CASE Write(c)
  <2>1. /\ written' = [written EXCEPT ![c] = @ + 1] /\ written[c] + 1 < job[c].writes
        /\ UNCHANGED <<at, streaming, job, query, away>>
    BY <1>7 DEF Write
  <2>2. written[c] \in 0..2 /\ job[c].writes \in {1, 2}
    BY <1>3, JobKinds DEF HandlersOK
  <2>3. HandlersOK'
    BY <1>3, <2>1, <2>2 DEF HandlersOK
  <2>4. QED
    BY <1>3, <2>1, <2>3 DEF FetchesJoined, Running, Succeeded
<1>8. CASE Return(c) /\ at[c] # "query"
  BY <1>3, <1>8, ReturnInv DEF Joined
<1>9. CASE StreamDone(c) \/ WriteFails(c)
  BY <1>8, <1>9 DEF StreamDone, WriteFails
<1>10. CASE Gather(c)
  <2>1. CASE Failed(c) /\ streaming[c] /\ Return(c)
    BY <2>1, ReturnInv DEF Failed
  <2>2. CASE /\ Succeeded(c) \/ (Failed(c) /\ ~streaming[c])
             /\ at' = [at EXCEPT ![c] = "write"]
             /\ UNCHANGED <<streaming, job, query, written, away>>
    <3>1. HandlersOK'
      BY <1>3, <2>2 DEF HandlersOK
    <3>2. ~Running(c)
      BY <2>2 DEF Succeeded, Failed, Running
    <3>3. Joined(c)'
      BY <1>3, <2>2, <3>2 DEF HandlersOK, Joined, Running, Succeeded
    <3>4. QED
      BY <1>3, <2>2, <3>1, <3>3, OthersJoined DEF HandlersOK
  <2>3. QED
    BY <1>10, <2>1, <2>2 DEF Gather
<1>11. CASE WriteLast(c)
  <2>1. CASE streaming[c]
    <3>1. /\ at[c] = "write" /\ at' = [at EXCEPT ![c] = "select"]
          /\ job' = [job EXCEPT ![c] = handleConfig]
          /\ query' = [query EXCEPT ![c] = <<>>] /\ written' = [written EXCEPT ![c] = 0]
          /\ UNCHANGED <<streaming, away>>
      BY <1>11, <2>1, ConfigQueries DEF WriteLast, Begin
    <3>2. <<>> \in Seq(Results)
      BY EmptySeq
    <3>3. HandlersOK'
      BY <1>3, <3>1, <3>2, ConfigQueries DEF HandlersOK
    <3>4. Joined(c)'
      BY <1>3, <3>1 DEF HandlersOK, Joined, Running
    <3>5. QED
      BY <1>3, <3>1, <3>3, <3>4, OthersJoined DEF HandlersOK
  <2>2. CASE ~streaming[c]
    BY <1>8, <1>11, <2>2 DEF WriteLast
  <2>3. QED
    BY <2>1, <2>2
<1>12. Events \subseteq Jobs /\ Endpoints \subseteq Jobs
  BY DEF Jobs
<1>13. QED
  BY <1>4, <1>5, <1>6, <1>7, <1>9, <1>10, <1>11, <1>12

LEMMA QueryInv ==
  ASSUME Inv, NEW c \in Clients, NEW i \in Queries(c),
         QueryAnswers(c, i) \/ QueryCancelled(c, i) \/ NextQuery(c, i)
  PROVE  Inv'
<1>1. PICK r \in Results : query' = [query EXCEPT ![c][i] = r]
  BY DEF QueryAnswers, QueryCancelled, NextQuery, Answer, Results
<1>2. UNCHANGED <<main, routines, at, streaming, job, written, away>>
  BY DEF QueryAnswers, QueryCancelled, NextQuery, Answer
<1>3. HandlersOK /\ Joined(c) /\ i \in DOMAIN query[c]
  BY DEF Inv, FetchesJoined, Joined, Queries
<1>4. at[c] = "query"
  <2>1. CASE NextQuery(c, i)
    BY <2>1 DEF NextQuery
  <2>2. CASE QueryAnswers(c, i) \/ QueryCancelled(c, i)
    <3>1. query[c][i] = "run"
      BY <2>2 DEF QueryAnswers, QueryCancelled, Answer
    <3>2. QED
      BY <1>3, <3>1 DEF Joined, Running
  <2>3. QED
    BY <2>1, <2>2
<1>5. /\ query' \in [Clients -> Seq(Results)]
      /\ \A d \in Clients \ {c} : query'[d] = query[d]
  BY <1>1, <1>3, SetQuery
<1>6. HandlersOK'
  BY <1>2, <1>3, <1>5 DEF HandlersOK
<1>7. Joined(c)'
  BY <1>2, <1>4 DEF Joined
<1>8. FetchesJoined'
  BY <1>2, <1>5, <1>7, OthersJoined
<1>9. QED
  BY <1>2, <1>6, <1>8, ProcessSame DEF Inv

-----------------------------------------------------------------------------
(* The theorems *)

LEMMA StutterInv == Inv /\ UNCHANGED vars => Inv'
<1> SUFFICES ASSUME Inv, UNCHANGED vars PROVE Inv'
  OBVIOUS
<1>1. UNCHANGED <<main, routines>> /\ UNCHANGED handlers
  BY DEF vars, main, routines, handlers
<1>2. QED
  BY <1>1, ProcessSame, HandlersSame DEF Inv

LEMMA NextInv == Inv /\ [Next]_vars => Inv'
<1> SUFFICES ASSUME Inv, [Next]_vars PROVE Inv'
  OBVIOUS
<1>1. CASE \E c \in Clients :
              \/ \E j \in Endpoints : Request(c, j)
              \/ handleDashboardStream(c) \/ Leave(c)
              \/ \E j \in Events : Tick(c, j)
              \/ \E i \in Queries(c) :
                   QueryAnswers(c, i) \/ QueryCancelled(c, i) \/ NextQuery(c, i)
              \/ StreamDone(c) \/ Gather(c) \/ Write(c) \/ WriteLast(c) \/ WriteFails(c)
  BY <1>1, HandlerInv, QueryInv
<1>2. CASE Ended \/ UNCHANGED vars
  BY <1>2, StutterInv DEF Ended
<1>3. QED
  BY <1>1, <1>2, StartInv, RoutineInv, ClosedInv DEF Next

(* The inductive invariant holds in every reachable state. *)
THEOREM Invariance == Spec => []Inv
  BY InitInv, NextInv, PTL DEF Spec

(* Type correctness; with it, that GetJetstreamConsumer waits 30 seconds   *)
(* at most in between its attempts.                                        *)
THEOREM TypeCorrect == Spec => []TypeOK
<1>1. Inv => TypeOK
  <2> SUFFICES ASSUME Inv PROVE TypeOK
    OBVIOUS
  <2>1. waited \in 0..30
    <3>1. attempt \in 0..5 /\ waited = WaitedAfter[attempt + 1]
      BY DEF Inv, BackoffInv, RetryAttempts
    <3>2. \A k \in 1..6 : WaitedAfter[k] \in 0..30
      BY DEF WaitedAfter
    <3>3. QED
      BY <3>1, <3>2
  <2>2. \A c \in Clients : query[c] \in Seq({"next", "run", "ok", "failed"})
    BY DEF Inv, HandlersOK, Results
  <2>3. QED
    BY <2>1, <2>2 DEF Inv, BackoffInv, ProcessOK, HandlersOK, Jobs, TypeOK
<1>2. QED
  BY <1>1, Invariance, PTL

(* No goroutine of an event (errgroup) writes to the variables of a        *)
(* handler that has gone on, and a stream sends whole events only.         *)
THEOREM FetchSafety == Spec => []FetchesJoined
<1>1. Inv => FetchesJoined
  BY DEF Inv
<1>2. QED
  BY <1>1, Invariance, PTL
=============================================================================

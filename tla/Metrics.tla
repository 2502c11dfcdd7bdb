------------------------------- MODULE Metrics -------------------------------
(***************************************************************************)
(* The arithmetic behind the dashboard: core/metrics.go, the storage card  *)
(* (storage/clickhouse.go, dashboard/routes.go and sse.go) and the delays  *)
(* between retries (transport/nats.go, worker/worker.go).  The quotients   *)
(* that the code computes in floating point are compared by multiplying    *)
(* out; amounts stay far below 2^64.                                       *)
(***************************************************************************)
EXTENDS Integers, Sequences, SequencesExt

-----------------------------------------------------------------------------
(* Delays before a retry *)

(* Slip: without the maximum. *)
UncappedBackoff(attempt, baseDelay, maxDelay) == baseDelay * 2^attempt

(* base << attempt, at most maxDelay. *)
calculateExponentialBackoff(attempt, baseDelay, maxDelay) ==
  IF baseDelay * 2^attempt > maxDelay THEN maxDelay ELSE baseDelay * 2^attempt

(* The delay after a delivery: its entry in NATS_BACKOFF, or the last one. *)
DelayCalculator(backoff, deliveredCount) ==
  IF backoff = <<>> THEN 0
  ELSE IF deliveredCount >= Len(backoff) THEN backoff[Len(backoff)]
  ELSE backoff[IF deliveredCount < 1 THEN 1 ELSE deliveredCount]

(* Has a heartbeat of the other side been seen recently? *)
isActive(lastSeen, now, timeout) == lastSeen # 0 /\ now - lastSeen < timeout

-----------------------------------------------------------------------------
(* Storage outlook: parts are the bytes of each day, the oldest first *)

LOGS_TTL_DAYS == 30

Total(parts) == FoldSeq(+, 0, parts)

(* The day that is still filling is left out, unless it is the only one.   *)
Usable(parts) == IF Len(parts) > 1 THEN Front(parts) ELSE parts

ProjectedSteadyStateBytes(parts) ==
  IF Len(parts) >= LOGS_TTL_DAYS THEN Total(parts)
  ELSE IF parts = <<>> THEN 0
  ELSE (Total(Usable(parts)) \div Len(Usable(parts))) * LOGS_TTL_DAYS

(* The colour of the card.  daysRemaining is free / (growth / 30). *)
StorageCard(disk, projectedTotal) ==
  LET usedBytes == disk.total - disk.free
  IN  IF projectedTotal <= usedBytes THEN "stable"
      ELSE IF disk.free * 30 > 30 * (projectedTotal - usedBytes) THEN "warning"
      ELSE "error"

-----------------------------------------------------------------------------
(* Ingestion graph: rows are records [second, service, count] *)

(* Services are numbers here; the empty name is 0. *)
NoService == 0

(* The rows of a service, appended one by one. *)
SeriesOf(s, rows) ==
  FoldLeft(LAMBDA list, row : IF row.service = s THEN Append(list, row) ELSE list, <<>>, rows)

NewIngestionMetricsMap(rows) ==
  [s \in {rows[i].service : i \in DOMAIN rows} \ {NoService} |-> SeriesOf(s, rows)]

(* Indexes rows without looking at their number: too few would panic. *)
NewIngestionGraphMetrics(rows, numTimestamps) ==
  IF rows = <<>> THEN [timestamps |-> <<>>, metrics |-> [s \in {} |-> <<>>]]
  ELSE [timestamps |-> [i \in 1..numTimestamps |-> rows[i].second],
        metrics    |-> NewIngestionMetricsMap(rows)]

-----------------------------------------------------------------------------
(* Queue depth: samples are records, one for each SaveConsumerInfo *)

GetNatsQueueDepthMetrics(samples, now, durationMinutes) ==
  LET recent == SelectSeq(samples, LAMBDA s : s.timestamp >= now - 60 * durationMinutes)
      rows   == SortSeq(recent, LAMBDA s, t : s.timestamp < t.timestamp)
  IN  [timestamps     |-> [i \in DOMAIN rows |-> rows[i].timestamp],
       numPending     |-> [i \in DOMAIN rows |-> rows[i].numPending],
       numAckPending  |-> [i \in DOMAIN rows |-> rows[i].numAckPending],
       numRedelivered |-> [i \in DOMAIN rows |-> rows[i].numRedelivered]]
=============================================================================

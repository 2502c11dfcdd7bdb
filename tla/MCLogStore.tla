------------------------------ MODULE MCLogStore ------------------------------
(* Instances of LogStore for TLC: r2 is late, r1 and s1 tie in their time. *)
EXTENDS LogStore

CONSTANTS r1, r2, s1, s2

SomeTimes    == r1 :> 2 @@ r2 :> 1 @@ s1 :> 2 @@ s2 :> 4
SomeServices == r1 :> 1 @@ r2 :> 2 @@ s1 :> 1 @@ s2 :> 3
SomeSeeds    == <<s1, s2>>

Plain == [services |-> {}, from |-> 0, to |-> 0, orderBy |-> "Body",
          descending |-> TRUE, limit |-> 0, offset |-> -1, parses |-> TRUE]
SomeSearches == { Plain,
                  [Plain EXCEPT !.orderBy = "ServiceName", !.descending = FALSE,
                   !.services = {1, 3}, !.limit = 1, !.offset = 1],
                  [Plain EXCEPT !.services = {2}, !.parses = FALSE] }

(* Bounds: the behaviour is followed until the last page was shown; while  *)
(* a search is made, the views are behind by one row at most (a search     *)
(* reads the table alone, the charts read the views).                      *)
Searching == at # "idle" \/ tab = "open"
Bounds == tab # "end" /\ (Searching => Cardinality(behind) <= 1)

(* The storage outlook lies between the emptiest and the fullest day, over *)
(* short histories and around the TTL.                                     *)
Histories == UNION {[1..n -> {0, 3, 7}] : n \in 1..4}
             \cup {[i \in 1..n |-> IF i = n THEN 1 ELSE 6] : n \in 28..31}
ASSUME OutlookAssumption ==
  \A parts \in Histories :
    LET days == {parts[i] : i \in DOMAIN parts}
        length == IF Len(parts) > LOGS_TTL_DAYS THEN Len(parts) ELSE LOGS_TTL_DAYS
    IN  /\ ProjectedSteadyStateBytes(parts) <= Max(days) * length
        /\ ProjectedSteadyStateBytes(parts) >= Min(days) * LOGS_TTL_DAYS

(* The queue depth chart shows the samples of its minutes and no others,   *)
(* in order of time, whatever the order they were saved in.                *)
Sample(t) == [timestamp |-> t, numPending |-> t, numAckPending |-> t, numRedelivered |-> t]
ASSUME QueueDepthAssumption ==
  \A times \in UNION {[1..n -> {0, 39, 40, 41, 100}] : n \in 0..3} :
    LET depth == GetNatsQueueDepthMetrics([i \in DOMAIN times |-> Sample(times[i])], 100, 1)
    IN  /\ ToSet(depth.timestamps) = {times[i] : i \in DOMAIN times} \cap 40..100
        /\ Len(depth.timestamps) = Cardinality({i \in DOMAIN times : times[i] >= 40})
        /\ \A i, j \in DOMAIN depth.timestamps :
             i < j => depth.timestamps[i] <= depth.timestamps[j]
        /\ depth.numPending = depth.timestamps
=============================================================================

--------------------------- MODULE WorkerPoolProofs ---------------------------
(***************************************************************************)
(* Proofs about the insert callback and its goroutines, for any number of  *)
(* workers, any size of the pool and any batches, in two layers: first how *)
(* the callback waits for the jobs and the columns stay aligned, for which *)
(* it does not matter what an interval covers; then splitMessages, a       *)
(* recursive function, and what becomes of every message.                  *)
(***************************************************************************)
EXTENDS WorkerPool, TLAPS, SequenceTheorems, FiniteSetTheorems

BusyStates  == {"run", "decode", "decoded", "append", "unlock", "tail"}
BusyWorkers == {w \in Workers : Busy(w)}
Intervals   == {splitMessages(n)[i] : n \in Nat, i \in Nat}

Shape ==
  /\ cb \in CallStates
  /\ jobs \in Seq(Intervals)
  /\ msgs \in Seq(Kinds)
  /\ mu \in Workers \cup {NoOne}
  /\ state \in [Workers -> WorkerStates]
  /\ DOMAIN req = Workers

(* While jobs are submitted at least one is missing, afterwards none.      *)
SubmitInv ==
  /\ cb = "submit" => sent \in Nat /\ sent < Parts(Len(msgs))
  /\ cb = "wait" => sent = Parts(Len(msgs))

(* Inside Append a worker holds the mutex, and the two columns differ only *)
(* by the row it is appending.                                             *)
MutexInv ==
  /\ \A w \in Workers : mu = w <=> state[w] \in {"append", "unlock"}
  /\ \A w \in Workers : state[w] = "unlock" => first = Append(last, req[w])
  /\ (\A w \in Workers : state[w] # "unlock") => first = last

Inv == Shape /\ SubmitInv /\ NoJobAfterWait /\ MutexInv /\ RowsAligned

-----------------------------------------------------------------------------
(* Intervals, queues of jobs and sets of workers                           *)

LEMMA NumberOfIntervals ==
  ASSUME NEW n \in Nat
  PROVE  /\ Parts(n) \in Nat /\ Len(splitMessages(n)) = Parts(n)
         /\ n > 0 => Parts(n) > 0
<1>1. Parts(n) \in Nat /\ (n > 0 => Parts(n) > 0)
  BY WorkersAssumption DEF Parts
<1>2. Len(splitMessages(n)) = Parts(n)
  BY <1>1 DEF splitMessages
<1>3. QED
  BY <1>1, <1>2

LEMMA AppendJob ==
  ASSUME NEW q \in Seq(Intervals), NEW x \in Intervals
  PROVE  /\ Append(q, x) \in Seq(Intervals)
         /\ Len(Append(q, x)) = Len(q) + 1 /\ Len(q) \in Nat
         /\ Append(q, x) # <<>>
  BY AppendProperties, LenProperties

LEMMA TakeJob ==
  ASSUME NEW q \in Seq(Intervals), q # <<>>
  PROVE  /\ Tail(q) \in Seq(Intervals)
         /\ Len(Tail(q)) = Len(q) - 1 /\ Len(q) \in Nat \ {0}
  BY HeadTailProperties, EmptySeq, LenProperties

LEMMA Lengths ==
  ASSUME Shape
  PROVE  /\ Len(jobs) \in Nat /\ (Len(jobs) = 0 <=> jobs = <<>>)
         /\ Len(msgs) \in Nat
  BY EmptySeq, LenProperties DEF Shape

LEMMA BusyFinite ==
  /\ IsFiniteSet(BusyWorkers) /\ Cardinality(BusyWorkers) \in Nat
  /\ Cardinality(BusyWorkers) = 0 <=> \A w \in Workers : ~Busy(w)
<1>1. IsFiniteSet(Workers)
  BY FS_Interval, WorkersAssumption DEF Workers
<1>2. IsFiniteSet(BusyWorkers)
  BY <1>1, FS_Subset DEF BusyWorkers
<1>3. Cardinality(BusyWorkers) = 0 <=> BusyWorkers = {}
  BY <1>2, FS_EmptySet
<1>4. QED
  BY <1>2, <1>3, FS_CardinalityType DEF BusyWorkers

(* One worker begins or ends a job.                                        *)
LEMMA BusyChange ==
  ASSUME Shape, NEW w \in Workers, NEW s \in WorkerStates,
         state' = [state EXCEPT ![w] = s]
  PROVE  /\ \A v \in Workers : v # w => (Busy(v)' <=> Busy(v))
         /\ Busy(w)' <=> s \in BusyStates
         /\ (Busy(w) <=> s \in BusyStates) =>
              Cardinality(BusyWorkers') = Cardinality(BusyWorkers)
         /\ ~Busy(w) /\ s \in BusyStates =>
              Cardinality(BusyWorkers') = Cardinality(BusyWorkers) + 1
         /\ Busy(w) /\ s \notin BusyStates =>
              Cardinality(BusyWorkers') = Cardinality(BusyWorkers) - 1
<1>1. /\ \A v \in Workers : v # w => (Busy(v)' <=> Busy(v))
      /\ Busy(w)' <=> s \in BusyStates
  BY DEF Busy, BusyStates, Shape
<1>2. CASE Busy(w) <=> s \in BusyStates
  <2>1. BusyWorkers' = BusyWorkers
    BY <1>1, <1>2 DEF BusyWorkers
  <2>2. QED
    BY <1>1, <1>2, <2>1
<1>3. CASE ~Busy(w) /\ s \in BusyStates
  <2>1. BusyWorkers' = BusyWorkers \cup {w} /\ w \notin BusyWorkers
    BY <1>1, <1>3 DEF BusyWorkers
  <2>2. Cardinality(BusyWorkers') = Cardinality(BusyWorkers) + 1
    BY <2>1, BusyFinite, FS_AddElement
  <2>3. QED
    BY <1>1, <1>3, <2>2
<1>4. CASE Busy(w) /\ s \notin BusyStates
  <2>1. BusyWorkers' = BusyWorkers \ {w} /\ w \in BusyWorkers
    BY <1>1, <1>4 DEF BusyWorkers
  <2>2. Cardinality(BusyWorkers') = Cardinality(BusyWorkers) - 1
    BY <2>1, BusyFinite, FS_RemoveElement
  <2>3. QED
    BY <1>1, <1>4, <2>2
<1>5. QED
  BY <1>2, <1>3, <1>4

-----------------------------------------------------------------------------
LEMMA InitInv == Init => Inv
<1> SUFFICES ASSUME Init PROVE Inv
  OBVIOUS
<1>1. Shape
  BY EmptySeq DEF Init, Shape, CallStates, WorkerStates
<1>2. SubmitInv /\ NoJobAfterWait /\ MutexInv /\ RowsAligned
  BY WorkersAssumption
     DEF Init, SubmitInv, NoJobAfterWait, MutexInv, RowsAligned, Busy, NoOne, Workers
<1>3. QED
  BY <1>1, <1>2 DEF Inv

-----------------------------------------------------------------------------
(* The callback                                                            *)

(* Its steps touch neither the mutex nor the goroutines.                   *)
LEMMA CallbackMutex ==
  ASSUME Inv, UNCHANGED <<mu, workerVars>>,
         \/ UNCHANGED columnVars
         \/ (\A w \in Workers : ~Busy(w)) /\ first' = last'
  PROVE  MutexInv'
<1>1. UNCHANGED <<mu, state, req>>
  BY DEF workerVars
<1>2. CASE UNCHANGED columnVars
  BY <1>1, <1>2 DEF Inv, MutexInv, columnVars
<1>3. CASE (\A w \in Workers : ~Busy(w)) /\ first' = last'
  BY <1>1, <1>3 DEF Inv, MutexInv, Busy
<1>4. QED
  BY <1>2, <1>3

LEMMA CallStep ==
  ASSUME Inv, NEW ms \in Batches, Call(ms)
  PROVE  Inv'
<1>1. /\ ms \in Seq(Kinds) /\ ms # <<>> /\ Len(ms) \in Nat /\ Len(ms) > 0
  BY BatchesAssumption, EmptySeq, LenProperties
<1>2. /\ cb = "idle" /\ cb' = "submit" /\ msgs' = ms /\ sent' = 0
      /\ wg' = Len(splitMessages(Len(ms)))
      /\ first' = <<>> /\ last' = <<>>
      /\ UNCHANGED <<jobs, mu, workerVars, inserted>>
  BY DEF Call, FastInsert
<1>3. jobs = <<>> /\ \A w \in Workers : ~Busy(w)
  BY <1>2 DEF Inv, NoJobAfterWait
<1>4. Shape'
  BY <1>1, <1>2 DEF Inv, Shape, CallStates, workerVars
<1>5. SubmitInv'
  BY <1>1, <1>2, NumberOfIntervals DEF SubmitInv
<1>6. NoJobAfterWait'
  <2>1. BusyWorkers' = BusyWorkers
    BY <1>2 DEF BusyWorkers, Busy, workerVars
  <2>2. Cardinality(BusyWorkers') = 0 /\ Len(jobs') = 0
    BY <1>2, <1>3, <2>1, BusyFinite
  <2>3. Len(splitMessages(Len(ms))) \in Nat
    BY <1>1, NumberOfIntervals
  <2>4. QED
    BY <1>2, <2>2, <2>3 DEF NoJobAfterWait, BusyWorkers
<1>7. MutexInv'
  BY <1>2, <1>3, CallbackMutex
<1>8. RowsAligned'
  BY <1>2 DEF Inv, RowsAligned
<1>9. QED
  BY <1>4, <1>5, <1>6, <1>7, <1>8 DEF Inv

LEMMA SubmitStep == ASSUME Inv, Submit PROVE Inv'
<1> DEFINE n == Len(msgs)
           x == splitMessages(n)[sent + 1]
<1>1. /\ cb = "submit" /\ sent \in Nat /\ sent < Parts(n) /\ n \in Nat
      /\ Len(splitMessages(n)) = Parts(n) /\ Parts(n) \in Nat
  BY Lengths, NumberOfIntervals DEF Submit, Inv, SubmitInv
<1>2. x \in Intervals
  BY <1>1 DEF Intervals
<1>3. /\ jobs' = Append(jobs, x) /\ jobs' \in Seq(Intervals)
      /\ Len(jobs') = Len(jobs) + 1 /\ Len(jobs) \in Nat
  BY <1>2, AppendJob DEF Submit, Inv, Shape
<1>4. /\ sent' = sent + 1
      /\ cb' = IF sent + 1 = Parts(n) THEN "wait" ELSE "submit"
      /\ UNCHANGED <<msgs, wg, columnVars, mu, workerVars, inserted>>
  BY <1>1 DEF Submit, callVars, storeVars
<1>5. Shape'
  BY <1>3, <1>4 DEF Inv, Shape, CallStates, workerVars
<1>6. SubmitInv'
  BY <1>1, <1>4 DEF SubmitInv
<1>7. NoJobAfterWait'
  <2>1. BusyWorkers' = BusyWorkers
    BY <1>4 DEF BusyWorkers, Busy, workerVars
  <2>2. wg = Len(splitMessages(n)) - sent + Len(jobs) + Cardinality(BusyWorkers)
    BY <1>1 DEF Inv, NoJobAfterWait, BusyWorkers
  <2>3. wg' = Len(splitMessages(n)) - sent' + Len(jobs') + Cardinality(BusyWorkers')
    BY <1>1, <1>3, <1>4, <2>1, <2>2, BusyFinite
  <2>4. QED
    BY <1>4, <2>3 DEF NoJobAfterWait, BusyWorkers
<1>8. MutexInv'
  BY <1>4, CallbackMutex
<1>9. RowsAligned'
  BY <1>4 DEF Inv, RowsAligned
<1>10. QED
  BY <1>5, <1>6, <1>7, <1>8, <1>9 DEF Inv

(* wg.Wait returns: no job is left, since the counter is their number.     *)
LEMMA WaitStep == ASSUME Inv, Wait PROVE Inv'
<1>1. /\ cb = "wait" /\ wg = 0 /\ cb' = "flush"
      /\ UNCHANGED <<msgs, jobs, columnVars, mu, workerVars, inserted>>
  BY DEF Wait, callVars, storeVars
<1>2. Len(jobs) = 0 /\ Cardinality(BusyWorkers) = 0
  <2>1. wg = Len(splitMessages(Len(msgs))) - sent + Len(jobs) + Cardinality(BusyWorkers)
    BY <1>1 DEF Inv, NoJobAfterWait, BusyWorkers
  <2>2. /\ sent = Len(splitMessages(Len(msgs))) /\ sent \in Nat
        /\ Len(jobs) \in Nat
    BY <1>1, Lengths, NumberOfIntervals DEF Inv, SubmitInv
  <2>3. QED
    BY <1>1, <2>1, <2>2, BusyFinite
<1>3. jobs = <<>> /\ \A w \in Workers : ~Busy(w)
  BY <1>2, Lengths, BusyFinite DEF Inv
<1>4. NoJobAfterWait'
  BY <1>1, <1>3 DEF NoJobAfterWait, Busy, workerVars
<1>5. Shape' /\ SubmitInv' /\ RowsAligned'
  BY <1>1 DEF Inv, Shape, SubmitInv, RowsAligned, CallStates, workerVars
<1>6. MutexInv'
  BY <1>1, CallbackMutex
<1>7. QED
  BY <1>4, <1>5, <1>6 DEF Inv

LEMMA FinishStep == ASSUME Inv, Flush \/ Put \/ Close PROVE Inv'
<1>1. /\ cb \in {"flush", "put", "idle"} /\ cb' \in {"put", "idle", "closed"}
      /\ UNCHANGED <<msgs, jobs, columnVars, mu, workerVars>>
      /\ inserted' \in {inserted, [first |-> first, last |-> last]}
  BY DEF Flush, Put, Close, callVars, storeVars
<1>2. jobs = <<>> /\ \A w \in Workers : ~Busy(w)
  BY <1>1 DEF Inv, NoJobAfterWait
<1>3. NoJobAfterWait'
  BY <1>1, <1>2 DEF NoJobAfterWait, Busy, workerVars
<1>4. Shape' /\ SubmitInv'
  BY <1>1 DEF Inv, Shape, SubmitInv, CallStates, workerVars
<1>5. first = last
  BY <1>2 DEF Inv, MutexInv, Busy
<1>6. RowsAligned'
  BY <1>1, <1>5 DEF Inv, RowsAligned
<1>7. MutexInv'
  BY <1>1, CallbackMutex
<1>8. QED
  BY <1>3, <1>4, <1>6, <1>7 DEF Inv

-----------------------------------------------------------------------------
(* The goroutines                                                          *)

(* A goroutine works only while the callback submits or waits.             *)
LEMMA WorkTime ==
  ASSUME Inv, (\E w \in Workers : Busy(w)) \/ jobs # <<>>
  PROVE  cb \in {"submit", "wait"}
  BY DEF Inv, Shape, NoJobAfterWait, CallStates

(* The counter follows when a worker takes a job, goes on with it, or ends *)
(* it.                                                                     *)
LEMMA CountStep ==
  ASSUME Inv, NEW w \in Workers, NEW s \in WorkerStates,
         state' = [state EXCEPT ![w] = s], UNCHANGED <<cb, msgs, sent>>,
         \/ Busy(w) /\ s \in BusyStates /\ UNCHANGED <<jobs, wg>>
         \/ ~Busy(w) /\ s \in BusyStates /\ jobs # <<>> /\ jobs' = Tail(jobs) /\ wg' = wg
         \/ Busy(w) /\ s \notin BusyStates /\ jobs' = jobs /\ wg' = wg - 1
  PROVE  Shape' => NoJobAfterWait'
<1> DEFINE n == Len(splitMessages(Len(msgs)))
<1>1. cb \in {"submit", "wait"}
  BY WorkTime
<1>2. wg = n - sent + Len(jobs) + Cardinality(BusyWorkers)
  BY <1>1 DEF Inv, NoJobAfterWait, BusyWorkers
<1>3. n \in Nat /\ sent \in Nat /\ Len(jobs) \in Nat
  BY <1>1, Lengths, NumberOfIntervals DEF Inv, SubmitInv
<1>4. jobs # <<>> => Len(Tail(jobs)) = Len(jobs) - 1
  BY TakeJob DEF Inv, Shape
<1>5. Cardinality(BusyWorkers) \in Nat
  BY BusyFinite
<1>6. wg' = n - sent + Len(jobs') + Cardinality(BusyWorkers')
  <2>1. CASE Busy(w) /\ s \in BusyStates /\ UNCHANGED <<jobs, wg>>
    <3>1. Cardinality(BusyWorkers') = Cardinality(BusyWorkers)
      BY <2>1, BusyChange DEF Inv
    <3>2. QED
      BY <1>2, <2>1, <3>1
  <2>2. CASE ~Busy(w) /\ s \in BusyStates /\ jobs # <<>> /\ jobs' = Tail(jobs) /\ wg' = wg
    <3>1. Cardinality(BusyWorkers') = Cardinality(BusyWorkers) + 1
      BY <2>2, BusyChange DEF Inv
    <3>2. QED
      BY <1>2, <1>3, <1>4, <1>5, <2>2, <3>1
  <2>3. CASE Busy(w) /\ s \notin BusyStates /\ jobs' = jobs /\ wg' = wg - 1
    <3>1. Cardinality(BusyWorkers') = Cardinality(BusyWorkers) - 1
      BY <2>3, BusyChange DEF Inv
    <3>2. QED
      BY <1>2, <1>3, <1>5, <2>3, <3>1
  <2>4. QED
    BY <2>1, <2>2, <2>3
<1>7. QED
  BY <1>1, <1>6 DEF NoJobAfterWait, BusyWorkers

(* A step outside Append.                                                  *)
LEMMA OutsideStep ==
  ASSUME Inv, NEW w \in Workers, NEW s \in WorkerStates,
         state' = [state EXCEPT ![w] = s],
         state[w] \notin {"append", "unlock"}, s \notin {"append", "unlock"},
         UNCHANGED <<mu, columnVars>>,
         DOMAIN req' = Workers, \A v \in Workers : v # w => req'[v] = req[v]
  PROVE  MutexInv'
<1>1. \A v \in Workers : state'[v] = IF v = w THEN s ELSE state[v]
  BY DEF Inv, Shape
<1>2. \A v \in Workers : mu' = v <=> state'[v] \in {"append", "unlock"}
  BY <1>1 DEF Inv, MutexInv
<1>3. \A v \in Workers : state'[v] = "unlock" => v # w /\ state[v] = "unlock"
  BY <1>1
<1>4. (\A v \in Workers : state'[v] # "unlock") => \A v \in Workers : state[v] # "unlock"
  BY <1>1
<1>5. QED
  BY <1>2, <1>3, <1>4 DEF Inv, MutexInv, columnVars

LEMMA TakeStep == ASSUME Inv, NEW w \in Workers, Take(w) PROVE Inv'
<1>1. /\ state[w] = "idle" /\ state' = [state EXCEPT ![w] = "run"]
      /\ jobs # <<>> /\ jobs' = Tail(jobs)
      /\ UNCHANGED <<cb, msgs, sent, wg, columnVars, mu, req, inserted>>
  BY DEF Take, callVars, decodeVars, storeVars
<1>2. "run" \in WorkerStates /\ "run" \in BusyStates
  BY DEF WorkerStates, BusyStates
<1>3. Shape'
  BY <1>1, <1>2, TakeJob DEF Inv, Shape
<1>4. NoJobAfterWait'
  BY <1>1, <1>2, <1>3, CountStep DEF Busy
<1>5. MutexInv'
  BY <1>1, <1>2, OutsideStep DEF Inv, Shape
<1>6. SubmitInv' /\ RowsAligned'
  BY <1>1 DEF Inv, SubmitInv, RowsAligned
<1>7. QED
  BY <1>3, <1>4, <1>5, <1>6 DEF Inv

(* Decompressing, decoding, skipping, and the end of a job.                *)
LEMMA OutsideWork ==
  ASSUME Inv, NEW w \in Workers,
         Decompress(w) \/ Skip(w) \/ Decode(w) \/ Panic(w) \/ Done(w)
  PROVE  Inv'
<1>1. PICK s \in {"run", "decode", "decoded", "idle"} :
        /\ state' = [state EXCEPT ![w] = s]
        /\ s = "idle" => wg' = wg - 1
        /\ s # "idle" => wg' = wg
  BY DEF Decompress, Skip, Decode, Panic, Done
<1>2. /\ state[w] \in {"run", "decode", "tail"}
      /\ UNCHANGED <<cb, msgs, sent, jobs, columnVars, mu, inserted>>
  BY DEF Decompress, Skip, Decode, Panic, Done, Working, callVars, decodeVars, storeVars
<1>3. DOMAIN req' = Workers /\ \A v \in Workers : v # w => req'[v] = req[v]
  BY DEF Decompress, Skip, Decode, Panic, Done, decodeVars, Inv, Shape
<1>4. s \in WorkerStates /\ Busy(w) /\ (s \in BusyStates <=> s # "idle")
  BY <1>2 DEF WorkerStates, BusyStates, Busy
<1>5. Shape'
  BY <1>1, <1>2, <1>3, <1>4 DEF Inv, Shape
<1>6. NoJobAfterWait'
  BY <1>1, <1>2, <1>4, <1>5, CountStep
<1>7. MutexInv'
  BY <1>1, <1>2, <1>3, <1>4, OutsideStep
<1>8. SubmitInv' /\ RowsAligned'
  BY <1>2 DEF Inv, SubmitInv, RowsAligned
<1>9. QED
  BY <1>5, <1>6, <1>7, <1>8 DEF Inv

(* Append, between Lock and the deferred Unlock.                           *)
LEMMA AppendStep ==
  ASSUME Inv, NEW w \in Workers, Lock(w) \/ AppendFirst(w) \/ AppendLast(w)
  PROVE  Inv'
<1>1. PICK s \in {"append", "unlock", "tail", "run"} : state' = [state EXCEPT ![w] = s]
  BY DEF Lock, AppendFirst, AppendLast
<1>2. /\ state[w] \in {"decoded", "append", "unlock"}
      /\ UNCHANGED <<cb, msgs, sent, jobs, wg, inserted>>
  BY DEF Lock, AppendFirst, AppendLast, callVars, storeVars
<1>3. s \in WorkerStates /\ s \in BusyStates /\ Busy(w)
  BY <1>2 DEF WorkerStates, BusyStates, Busy
<1>4. DOMAIN req' = Workers /\ mu' \in Workers \cup {NoOne}
  BY DEF Lock, AppendFirst, AppendLast, decodeVars, Inv, Shape
<1>5. Shape'
  BY <1>1, <1>2, <1>3, <1>4 DEF Inv, Shape
<1>6. NoJobAfterWait'
  BY <1>1, <1>2, <1>3, <1>5, CountStep
<1>7. SubmitInv' /\ RowsAligned'
  BY <1>2 DEF Inv, SubmitInv, RowsAligned
<1>8. NoOne \notin Workers
  BY DEF NoOne, Workers
<1>9. \A v \in Workers : state'[v] = IF v = w THEN s ELSE state[v]
  BY <1>1, <1>3 DEF Inv, Shape
<1>10. CASE Lock(w)
  <2>1. /\ mu = NoOne /\ mu' = w /\ state'[w] = "append"
        /\ UNCHANGED <<first, last, req>>
    BY <1>10 DEF Lock, columnVars, decodeVars, Inv, Shape
  <2>2. \A v \in Workers : state[v] \notin {"append", "unlock"}
    BY <1>8, <2>1 DEF Inv, MutexInv
  <2>3. MutexInv'
    BY <1>9, <2>1, <2>2 DEF Inv, MutexInv
  <2>4. QED
    BY <1>5, <1>6, <1>7, <2>3 DEF Inv
<1>11. CASE AppendFirst(w)
  <2>1. /\ state[w] = "append" /\ mu' = mu /\ state'[w] = "unlock"
        /\ first' = Append(first, req[w]) /\ UNCHANGED <<last, req>>
    BY <1>11 DEF AppendFirst, decodeVars, Inv, Shape
  <2>2. \A v \in Workers : v # w => state[v] \notin {"append", "unlock"}
    BY <2>1 DEF Inv, MutexInv
  <2>3. mu = w /\ first = last
    BY <2>1, <2>2 DEF Inv, MutexInv
  <2>4. MutexInv'
    BY <1>9, <2>1, <2>2, <2>3 DEF MutexInv
  <2>5. QED
    BY <1>5, <1>6, <1>7, <2>4 DEF Inv
<1>12. CASE AppendLast(w)
  <2>1. /\ state[w] = "unlock" /\ mu' = NoOne /\ state'[w] \in {"tail", "run"}
        /\ last' = Append(last, req[w]) /\ first' = first
    BY <1>12 DEF AppendLast, Inv, Shape
  <2>2. \A v \in Workers : v # w => state[v] \notin {"append", "unlock"}
    BY <2>1 DEF Inv, MutexInv
  <2>3. first = Append(last, req[w])
    BY <2>1 DEF Inv, MutexInv
  <2>4. MutexInv'
    BY <1>8, <1>9, <2>1, <2>2, <2>3 DEF MutexInv
  <2>5. QED
    BY <1>5, <1>6, <1>7, <2>4 DEF Inv
<1>13. QED
  BY <1>10, <1>11, <1>12

LEMMA LeaveStep == ASSUME Inv, NEW w \in Workers, Leave(w) PROVE Inv'
<1>1. /\ cb = "closed" /\ jobs = <<>>
      /\ state[w] = "idle" /\ state' = [state EXCEPT ![w] = "exited"]
      /\ UNCHANGED <<cb, msgs, jobs, columnVars, mu, req, inserted>>
  BY DEF Leave, callVars, decodeVars, storeVars
<1>2. "exited" \in WorkerStates /\ "exited" \notin BusyStates
  BY DEF WorkerStates, BusyStates
<1>3. Shape'
  BY <1>1, <1>2 DEF Inv, Shape
<1>4. NoJobAfterWait'
  BY <1>1, <1>2, BusyChange DEF Inv, NoJobAfterWait
<1>5. MutexInv'
  BY <1>1, <1>2, OutsideStep DEF Inv, Shape
<1>6. SubmitInv' /\ RowsAligned'
  BY <1>1 DEF Inv, SubmitInv, RowsAligned
<1>7. QED
  BY <1>3, <1>4, <1>5, <1>6 DEF Inv

LEMMA StutterStep == ASSUME Inv, UNCHANGED vars PROVE Inv'
  BY DEF vars, Inv, Shape, SubmitInv, NoJobAfterWait, MutexInv, RowsAligned, Busy

LEMMA NextInv == Inv /\ [Next]_vars => Inv'
<1> SUFFICES ASSUME Inv, [Next]_vars PROVE Inv'
  OBVIOUS
<1>1. CASE Callback
  BY <1>1, CallStep, SubmitStep, WaitStep, FinishStep DEF Callback
<1>2. ASSUME NEW w \in Workers, Worker(w) PROVE Inv'
  BY <1>2, TakeStep, OutsideWork, AppendStep, LeaveStep DEF Worker
<1>3. CASE Finished \/ UNCHANGED vars
  BY <1>3, StutterStep DEF Finished
<1>4. QED
  BY <1>1, <1>2, <1>3 DEF Next

-----------------------------------------------------------------------------
(* splitMessages                                                           *)

Less == {s \in Nat \X Nat : s[1] < s[2]}

LEMMA LeastElement ==
  ASSUME NEW T, T \subseteq Nat, T # {}
  PROVE  \E x \in T : \A y \in T : x <= y
<1>1. IsWellFoundedOn(Less, Nat)
  BY NatLessThanWellFounded DEF OpToRel, Less
<1>2. PICK x \in T : \A y \in T : ~(<<y, x>> \in Less)
  BY <1>1, WFMin
<1>3. \A a, b \in Nat : a < b => <<a, b>> \in Less
  BY DEF Less
<1>4. ASSUME NEW y \in T PROVE x <= y
  <2>1. x \in Nat /\ y \in Nat /\ ~(<<y, x>> \in Less)
    BY <1>2, <1>4
  <2>2. ~(y < x)
    BY <1>3, <2>1
  <2>3. QED
    BY <2>1, <2>2
<1>5. QED
  BY <1>4

(* Where the i-th interval starts: the first ones are one longer.          *)
StartOf(n, i) ==
  1 + (i - 1) * (n \div Parts(n)) + (IF i - 1 <= n % Parts(n) THEN i - 1 ELSE n % Parts(n))

LEMMA PartsBounds ==
  ASSUME NEW n \in Nat \ {0}
  PROVE  Parts(n) \in Nat \ {0} /\ Parts(n) <= n /\ Parts(n) <= NumWorkers
  BY WorkersAssumption DEF Parts

LEMMA Division ==
  ASSUME NEW n \in Nat \ {0}
  PROVE  /\ Parts(n) \in Nat \ {0} /\ Parts(n) <= n /\ Parts(n) <= NumWorkers
         /\ n \div Parts(n) \in Nat \ {0}
         /\ n % Parts(n) \in 0..(Parts(n) - 1)
         /\ n = Parts(n) * (n \div Parts(n)) + (n % Parts(n))
<1>1. Parts(n) \in Nat \ {0} /\ Parts(n) <= n /\ Parts(n) <= NumWorkers
  BY PartsBounds
<1>2. /\ n \div Parts(n) \in Int
      /\ n % Parts(n) \in 0..(Parts(n) - 1)
      /\ n = Parts(n) * (n \div Parts(n)) + (n % Parts(n))
  BY <1>1
<1>3. n \div Parts(n) >= 1
  BY <1>1
<1>4. n \div Parts(n) \in Nat \ {0}
  BY <1>2, <1>3
<1>5. QED
  BY ONLY <1>1, <1>2, <1>4

LEMMA NextStart ==
  ASSUME NEW n \in Nat \ {0}, NEW i \in Nat \ {0}
  PROVE  /\ StartOf(n, i) \in Nat \ {0}
         /\ StartOf(n, 1) = 1
         /\ Size(n, i) \in Nat \ {0}
         /\ StartOf(n, i + 1) = StartOf(n, i) + Size(n, i)
<1> DEFINE q == n \div Parts(n)
           r == n % Parts(n)
<1>1. q \in Nat \ {0} /\ r \in Nat
  BY Division
<1>2. (i - 1) * q \in Nat
  BY <1>1
<1>3. i * q = (i - 1) * q + q
  BY <1>1
<1>4. (1 - 1) * q = 0
  BY <1>1
<1>5. StartOf(n, i + 1) = 1 + i * q + (IF i <= r THEN i ELSE r)
  BY DEF StartOf
<1>6. StartOf(n, i) = 1 + (i - 1) * q + (IF i - 1 <= r THEN i - 1 ELSE r)
  BY DEF StartOf
<1>7. Size(n, i) = q + (IF i <= r THEN 1 ELSE 0)
  BY DEF Size
<1>8. StartOf(n, 1) = 1
  BY <1>1, <1>4 DEF StartOf
<1> HIDE DEF q, r
<1>9. QED
  BY <1>1, <1>2, <1>3, <1>5, <1>6, <1>7, <1>8

LEMMA SplitMessages ==
  ASSUME NEW n \in Nat \ {0}
  PROVE  splitMessages(n) =
           [i \in 1..Parts(n) |-> [from |-> StartOf(n, i),
                                   to   |-> StartOf(n, i) + Size(n, i) - 1]]
<1> DEFINE k == Parts(n)
           g == [i \in 1..k |-> StartOf(n, i)]
           body(h) == [i \in 1..k |-> IF i = 1 THEN 1 ELSE h[i - 1] + Size(n, i - 1)]
           f == CHOOSE h : h = body(h)
<1>1. k \in Nat \ {0}
  BY PartsBounds
<1>2. g = body(g)
  <2>1. \A i \in 1..k : g[i] = IF i = 1 THEN 1 ELSE g[i - 1] + Size(n, i - 1)
    <3> TAKE i \in 1..k
    <3>1. CASE i = 1
      BY <1>1, <3>1, NextStart
    <3>2. CASE i # 1
      <4>1. i - 1 \in Nat \ {0} /\ i - 1 \in 1..k /\ i - 1 + 1 = i
        BY <1>1, <3>2
      <4> DEFINE j == i - 1
      <4>2. StartOf(n, j + 1) = StartOf(n, j) + Size(n, j)
        BY <4>1, NextStart
      <4>3. QED
        BY <1>1, <3>2, <4>1, <4>2
    <3>3. QED
      BY <3>1, <3>2
  <2>2. QED
    BY <2>1
<1>3. f = body(f)
  BY <1>2
<1>4. \A i \in 1..k : f[i] = IF i = 1 THEN 1 ELSE f[i - 1] + Size(n, i - 1)
  BY <1>3
<1>5. \A i \in 1..k : g[i] = IF i = 1 THEN 1 ELSE g[i - 1] + Size(n, i - 1)
  BY <1>2
<1> HIDE DEF f, g
<1>6. \A i \in 1..k : f[i] = g[i]
  <2> DEFINE T == {i \in 1..k : f[i] # g[i]}
  <2> SUFFICES ASSUME T # {} PROVE FALSE
    OBVIOUS
  <2>1. T \subseteq Nat /\ T # {}
    BY <1>1
  <2> HIDE DEF T
  <2>2. PICK x \in T : \A y \in T : x <= y
    BY <2>1, LeastElement
  <2>3. x \in 1..k /\ f[x] # g[x]
    BY <2>2 DEF T
  <2>4. x # 1
    BY <1>4, <1>5, <2>3
  <2>5. x - 1 \in 1..k /\ x - 1 < x
    BY <1>1, <2>3, <2>4
  <2>6. f[x - 1] = g[x - 1]
    BY <1>1, <2>2, <2>5 DEF T
  <2>7. QED
    BY <1>4, <1>5, <2>3, <2>4, <2>6
<1>7. splitMessages(n) = [i \in 1..k |-> [from |-> f[i], to |-> f[i] + Size(n, i) - 1]]
  BY DEF splitMessages, f
<1>8. \A i \in 1..k : f[i] = StartOf(n, i)
  BY <1>6 DEF g
<1>9. QED
  BY <1>7, <1>8

(* The intervals: they are not empty, end where the next one starts, do    *)
(* not overlap, and cover all messages.                                    *)
LEMMA IntervalBounds ==
  ASSUME NEW n \in Nat \ {0}, NEW i \in 1..Parts(n)
  PROVE  /\ i \in DOMAIN splitMessages(n)
         /\ splitMessages(n)[i].from \in Nat \ {0}
         /\ splitMessages(n)[i].to \in Nat
         /\ splitMessages(n)[i].from <= splitMessages(n)[i].to
         /\ splitMessages(n)[i].to = StartOf(n, i + 1) - 1
         /\ splitMessages(n)[i].from = StartOf(n, i)
<1>1. i \in Nat \ {0}
  BY PartsBounds
<1>2. /\ splitMessages(n)[i] = [from |-> StartOf(n, i), to |-> StartOf(n, i) + Size(n, i) - 1]
      /\ i \in DOMAIN splitMessages(n)
  BY SplitMessages
<1>3. /\ StartOf(n, i) \in Nat \ {0} /\ Size(n, i) \in Nat \ {0}
      /\ StartOf(n, i + 1) = StartOf(n, i) + Size(n, i)
  BY <1>1, NextStart
<1>4. QED
  BY <1>2, <1>3

LEMMA LaterStart ==
  ASSUME NEW n \in Nat \ {0}, NEW i \in Nat \ {0}, NEW j \in Nat, i <= j
  PROVE  StartOf(n, i) <= StartOf(n, j)
<1> DEFINE q == n \div Parts(n)
           r == n % Parts(n)
<1>1. q \in Nat /\ r \in Nat
  BY Division
<1>2. (i - 1) * q <= (j - 1) * q /\ (i - 1) * q \in Int /\ (j - 1) * q \in Int
  <2>1. PICK d \in Nat : j - 1 = i - 1 + d
    <3>1. j - i \in Nat /\ j - 1 = i - 1 + (j - i)
      OBVIOUS
    <3>2. QED
      BY <3>1
  <2>2. (i - 1 + d) * q = (i - 1) * q + d * q /\ d * q \in Nat /\ (i - 1) * q \in Int
    BY <1>1
  <2>3. QED
    BY <2>1, <2>2
<1>3. /\ StartOf(n, i) = 1 + (i - 1) * q + (IF i - 1 <= r THEN i - 1 ELSE r)
      /\ StartOf(n, j) = 1 + (j - 1) * q + (IF j - 1 <= r THEN j - 1 ELSE r)
  BY DEF StartOf
<1> HIDE DEF q, r
<1>4. QED
  BY <1>1, <1>2, <1>3

LEMMA IntervalsDisjoint ==
  ASSUME NEW n \in Nat \ {0}, NEW i \in 1..Parts(n), NEW j \in 1..Parts(n), i < j
  PROVE  splitMessages(n)[i].to < splitMessages(n)[j].from
<1>1. i + 1 \in Nat \ {0} /\ j \in Nat \ {0} /\ i + 1 <= j
  BY PartsBounds
<1>2. StartOf(n, i + 1) <= StartOf(n, j)
  BY <1>1, LaterStart
<1>3. StartOf(n, i + 1) \in Nat /\ StartOf(n, j) \in Nat
  BY <1>1, NextStart
<1>4. QED
  BY <1>2, <1>3, IntervalBounds

LEMMA LastStart ==
  ASSUME NEW n \in Nat \ {0}
  PROVE  StartOf(n, Parts(n) + 1) = n + 1
<1> DEFINE k == Parts(n)
           q == n \div k
           r == n % k
<1>1. k \in Nat \ {0} /\ q \in Nat /\ r \in 0..(k - 1) /\ n = k * q + r
  BY Division
<1>2. \A i \in Nat : StartOf(n, i) = 1 + (i - 1) * q + (IF i - 1 <= r THEN i - 1 ELSE r)
  BY DEF StartOf
<1> HIDE DEF k, q, r
<1>3. PICK i \in Nat : i = k + 1
  BY <1>1
<1>4. i - 1 = k /\ ~(i - 1 <= r) /\ k * q \in Nat
  BY <1>1, <1>3
<1>5. StartOf(n, i) = 1 + k * q + r
  BY <1>2, <1>4
<1>6. StartOf(n, k + 1) = n + 1
  BY <1>1, <1>3, <1>4, <1>5
<1>7. QED
  BY <1>6 DEF k

LEMMA IntervalsCover ==
  ASSUME NEW n \in Nat \ {0}, NEW m \in 1..n
  PROVE  \E i \in 1..Parts(n) : m \in splitMessages(n)[i].from..splitMessages(n)[i].to
<1> DEFINE T == {i \in 1..Parts(n) : m < StartOf(n, i + 1)}
<1>1. Parts(n) \in Nat \ {0}
  BY PartsBounds
<1>2. Parts(n) \in T
  BY <1>1, LastStart
<1>3. T \subseteq Nat /\ T # {}
  BY <1>1, <1>2
<1> HIDE DEF T
<1>4. PICK i \in T : \A y \in T : i <= y
  BY <1>3, LeastElement
<1>5. i \in 1..Parts(n) /\ m < StartOf(n, i + 1) /\ i \in Nat \ {0}
  BY <1>1, <1>4 DEF T
<1>6. StartOf(n, i) <= m
  <2>1. CASE i = 1
    BY <2>1, NextStart
  <2>2. CASE i # 1
    <3> DEFINE h == i - 1
    <3>1. h \in 1..Parts(n) /\ ~(i <= h) /\ h + 1 = i /\ h \in Nat \ {0}
      BY <1>1, <1>5, <2>2
    <3>2. h \notin T
      BY <1>4, <3>1
    <3>3. ~(m < StartOf(n, h + 1))
      BY <3>1, <3>2 DEF T
    <3>4. StartOf(n, i) \in Nat
      BY <1>5, NextStart
    <3>5. QED
      BY <3>1, <3>3, <3>4
  <2>3. QED
    BY <2>1, <2>2
<1>7. /\ splitMessages(n)[i].from = StartOf(n, i)
      /\ splitMessages(n)[i].to = StartOf(n, i + 1) - 1
      /\ StartOf(n, i) \in Nat /\ StartOf(n, i + 1) \in Nat
  BY <1>5, IntervalBounds, NextStart
<1>8. m \in splitMessages(n)[i].from..splitMessages(n)[i].to
  BY <1>5, <1>6, <1>7
<1>9. QED
  BY <1>5, <1>8

-----------------------------------------------------------------------------
(* What becomes of every message                                           *)

Split    == splitMessages(Len(msgs))
HoldsRow == {"decoded", "append", "unlock"}

CallInv ==
  /\ cb \in {"submit", "wait", "flush", "put"} => call >= 1 /\ Len(msgs) > 0
  /\ cb = "flush" => sent = Parts(Len(msgs))
  /\ pool \in Seq(Seq(Rows))

(* Whose interval is whose: the jobs in the channel and at work are those  *)
(* submitted, each in one place, and a worker is inside its interval.      *)
JobsInv ==
  /\ \A x \in DOMAIN jobs : \E p \in DOMAIN Split : p <= sent /\ jobs[x] = Split[p]
  /\ \A x, y \in DOMAIN jobs : jobs[x].to = jobs[y].to => x = y
  /\ \A w \in Workers : Busy(w) =>
       \E p \in DOMAIN Split : /\ p <= sent /\ end[w] = Split[p].to
                               /\ Split[p].from <= pos[w] /\ pos[w] <= end[w] + 1
  /\ \A v, w \in Workers : Busy(v) /\ Busy(w) /\ end[v] = end[w] => v = w
  /\ \A w \in Workers : Busy(w) => \A x \in DOMAIN jobs : end[w] # jobs[x].to
  /\ \A w \in Workers : Busy(w) /\ state[w] # "run" => pos[w] <= end[w]

(* A buffer outside the pool belongs to one worker, which is decoding the  *)
(* payload in it.                                                          *)
BuffersInv ==
  /\ \A w \in Workers : held[w] # NoBuffer =>
       state[w] = "decode" /\ content[held[w]] = <<call, pos[w]>>
  /\ \A v, w \in Workers : held[v] = held[w] /\ held[w] # NoBuffer => v = w
  /\ \A b \in Buffers : content[b] # NoRow => \E w \in Workers : held[w] = b

(* What a worker has decoded is the payload it is at.                      *)
DecodedInv ==
  \A w \in Workers : state[w] \in HoldsRow =>
    req[w] = <<call, pos[w]>> /\ msgs[pos[w]] # "bad"

(* The rows that are still to come, and those that never will.             *)
ToCome(j) ==
  \/ \E p \in DOMAIN Split : p > sent /\ j \in Split[p].from..Split[p].to
  \/ \E x \in DOMAIN jobs : j \in jobs[x].from..jobs[x].to
  \/ \E w \in Workers : Busy(w) /\ j \in pos[w]..end[w] /\ ~(state[w] = "tail" /\ j = pos[w])
Dropped(j) == msgs[j] = "bad" \/ \E i \in 1..j : msgs[i] = "panic" /\ SameJob(i, j)

(* The rows so far are those of the call, once each, and none of them is   *)
(* still to come; every message has its row, or will have it, or never.    *)
RowsInv ==
  cb \in {"submit", "wait", "flush"} =>
    /\ \A r \in DOMAIN last :
         \E j \in DOMAIN msgs : last[r] = <<call, j>> /\ msgs[j] # "bad" /\ ~ToCome(j)
    /\ \A r1, r2 \in DOMAIN last : last[r1] = last[r2] => r1 = r2
    /\ \A j \in DOMAIN msgs : RowOf(last, j) \/ Dropped(j) \/ ToCome(j)

Whole == /\ Inv /\ TypeOK /\ CallInv /\ JobsInv /\ BuffersInv /\ DecodedInv
         /\ RowsInv /\ InsertComplete

LEMMA SplitFacts ==
  ASSUME TypeOK, Len(msgs) > 0
  PROVE  /\ DOMAIN Split = 1..Parts(Len(msgs)) /\ DOMAIN msgs = 1..Len(msgs)
         /\ Len(msgs) \in Nat \ {0} /\ Parts(Len(msgs)) \in Nat \ {0}
         /\ \A p \in DOMAIN Split : /\ Split[p].from \in Nat \ {0} /\ Split[p].to \in Nat
                                    /\ Split[p].from <= Split[p].to /\ Split[p].to <= Len(msgs)
         /\ \A p, q \in DOMAIN Split :
              (\E j \in Int : /\ j \in Split[p].from..Split[p].to
                              /\ j \in Split[q].from..Split[q].to) => p = q
         /\ \A p, q \in DOMAIN Split : Split[p].to = Split[q].to => p = q
         /\ \A j \in DOMAIN msgs : \E p \in DOMAIN Split : j \in Split[p].from..Split[p].to
<1> DEFINE n == Len(msgs)
<1>1. n \in Nat \ {0} /\ DOMAIN msgs = 1..n
  BY LenProperties DEF TypeOK
<1>2. Parts(n) \in Nat \ {0}
  BY <1>1, PartsBounds
<1>3. DOMAIN splitMessages(n) = 1..Parts(n)
  BY <1>1, SplitMessages
<1>4. \A p \in 1..Parts(n) :
        /\ splitMessages(n)[p].from \in Nat \ {0} /\ splitMessages(n)[p].to \in Nat
        /\ splitMessages(n)[p].from <= splitMessages(n)[p].to
        /\ splitMessages(n)[p].to <= n
  <2> TAKE p \in 1..Parts(n)
  <2>1. /\ splitMessages(n)[p].from \in Nat \ {0} /\ splitMessages(n)[p].to \in Nat
        /\ splitMessages(n)[p].from <= splitMessages(n)[p].to
        /\ splitMessages(n)[p].to = StartOf(n, p + 1) - 1
    BY <1>1, IntervalBounds
  <2>2. p + 1 \in Nat \ {0} /\ Parts(n) + 1 \in Nat \ {0} /\ p + 1 <= Parts(n) + 1
    BY <1>2
  <2>3. StartOf(n, p + 1) <= StartOf(n, Parts(n) + 1)
    BY <1>1, <2>2, LaterStart
  <2>4. StartOf(n, Parts(n) + 1) = n + 1 /\ StartOf(n, p + 1) \in Nat
    BY <1>1, <2>2, LastStart, NextStart
  <2>5. QED
    BY <1>1, <2>1, <2>3, <2>4
<1>5. \A p, q \in 1..Parts(n) : p < q => splitMessages(n)[p].to < splitMessages(n)[q].from
  BY <1>1, IntervalsDisjoint
<1>6. \A p, q \in 1..Parts(n) : p = q \/ p < q \/ q < p
  BY <1>2
<1>7. \A p, q \in 1..Parts(n) :
        (\E j \in Int : /\ j \in splitMessages(n)[p].from..splitMessages(n)[p].to
                        /\ j \in splitMessages(n)[q].from..splitMessages(n)[q].to) => p = q
  BY <1>4, <1>5, <1>6
<1>8. \A p, q \in 1..Parts(n) : splitMessages(n)[p].to = splitMessages(n)[q].to => p = q
  BY <1>4, <1>5, <1>6
<1>9. \A j \in 1..n : \E p \in 1..Parts(n) :
        j \in splitMessages(n)[p].from..splitMessages(n)[p].to
  BY <1>1, IntervalsCover
<1>10. QED
  BY <1>1, <1>2, <1>3, <1>4, <1>7, <1>8, <1>9 DEF Split

(* While there is work, there is a call with messages.                     *)
LEMMA AtWork ==
  ASSUME Whole, (\E w \in Workers : Busy(w)) \/ jobs # <<>>
  PROVE  /\ cb \in {"submit", "wait"} /\ Len(msgs) > 0 /\ call \in 1..MaxCalls
         /\ sent \in Nat /\ sent <= Parts(Len(msgs))
<1>1. cb \in {"submit", "wait"}
  BY WorkTime DEF Whole
<1>2. Len(msgs) > 0 /\ call \in 1..MaxCalls
  BY <1>1, CallsAssumption DEF Whole, CallInv, TypeOK
<1>3. Parts(Len(msgs)) \in Nat
  BY <1>2, SplitFacts DEF Whole
<1>4. sent \in Nat /\ sent <= Parts(Len(msgs))
  BY <1>1, <1>3 DEF Whole, Inv, SubmitInv
<1>5. QED
  BY <1>1, <1>2, <1>4

(* The message a worker is at is in nobody else's interval.                *)
LEMMA OnlyHere ==
  ASSUME Whole, NEW w \in Workers, Busy(w), NEW j \in pos[w]..end[w]
  PROVE  /\ j \in DOMAIN msgs
         /\ \E p \in DOMAIN Split : /\ j \in Split[p].from..Split[p].to
                                    /\ pos[w] \in Split[p].from..Split[p].to
                                    /\ pos[w] \in DOMAIN msgs
         /\ \A p \in DOMAIN Split : p > sent => j \notin Split[p].from..Split[p].to
         /\ \A x \in DOMAIN jobs : j \notin jobs[x].from..jobs[x].to
         /\ \A v \in Workers : Busy(v) /\ v # w => j \notin pos[v]..end[v]
<1>1. /\ DOMAIN msgs = 1..Len(msgs) /\ Len(msgs) \in Nat
      /\ DOMAIN Split \subseteq Nat /\ sent \in Nat
      /\ \A p \in DOMAIN Split : /\ Split[p].from \in Nat \ {0} /\ Split[p].to \in Nat
                                 /\ Split[p].from <= Split[p].to /\ Split[p].to <= Len(msgs)
      /\ \A p, q \in DOMAIN Split :
           (\E i \in Int : /\ i \in Split[p].from..Split[p].to
                           /\ i \in Split[q].from..Split[q].to) => p = q
  BY AtWork, SplitFacts DEF Whole
<1>2. \A v \in Workers : pos[v] \in Nat /\ end[v] \in Nat
  BY DEF Whole, TypeOK
<1>3. PICK p \in DOMAIN Split : /\ p <= sent /\ end[w] = Split[p].to
                                /\ Split[p].from <= pos[w] /\ pos[w] <= end[w] + 1
  BY DEF Whole, JobsInv
<1>4. j \in Int /\ pos[w] <= j /\ j <= end[w]
  BY <1>2
<1>5. j \in Split[p].from..Split[p].to /\ pos[w] \in Split[p].from..Split[p].to
  BY <1>1, <1>2, <1>3, <1>4
<1>6. j \in DOMAIN msgs /\ pos[w] \in DOMAIN msgs
  BY <1>1, <1>2, <1>3, <1>4
<1>7. \A q \in DOMAIN Split : j \in Split[q].from..Split[q].to => q = p
  BY <1>1, <1>4, <1>5
<1>8. \A q \in DOMAIN Split : q > sent => j \notin Split[q].from..Split[q].to
  BY <1>1, <1>3, <1>7
<1>9. ASSUME NEW x \in DOMAIN jobs PROVE j \notin jobs[x].from..jobs[x].to
  <2>1. PICK q \in DOMAIN Split : jobs[x] = Split[q]
    BY DEF Whole, JobsInv
  <2>2. jobs[x].to # end[w]
    BY DEF Whole, JobsInv
  <2>3. QED
    BY <1>3, <1>7, <2>1, <2>2
<1>10. ASSUME NEW v \in Workers, Busy(v), v # w PROVE j \notin pos[v]..end[v]
  <2>1. PICK q \in DOMAIN Split : end[v] = Split[q].to /\ Split[q].from <= pos[v]
    BY <1>10 DEF Whole, JobsInv
  <2>2. end[v] # end[w]
    BY <1>10 DEF Whole, JobsInv
  <2>3. q # p
    BY <1>3, <2>1, <2>2
  <2>4. j \notin Split[q].from..Split[q].to
    BY <1>7, <2>3
  <2>5. QED
    BY <1>1, <1>2, <1>4, <2>1, <2>4
<1>11. QED
  BY <1>5, <1>6, <1>8, <1>9, <1>10

-----------------------------------------------------------------------------
(* A worker goes on with its payload or its interval, or ends its job.     *)
Moves(w, s, i) ==
  /\ s \in WorkerStates /\ i \in {pos[w], pos[w] + 1}
  /\ state' = [state EXCEPT ![w] = s]
  /\ pos' = [pos EXCEPT ![w] = i]
  /\ UNCHANGED <<cb, callVars, sent, jobs, end, storeVars>>
  /\ s \in BusyStates => Busy(w) /\ state[w] # "tail" /\ i <= end[w] + 1
  /\ s \in BusyStates /\ s # "run" => i <= end[w]
  /\ s = "tail" => i = pos[w]

LEMMA MoveFacts ==
  ASSUME Whole, NEW w \in Workers, NEW s, NEW i, Moves(w, s, i)
  PROVE  /\ UNCHANGED <<cb, call, msgs, result, sent, jobs, end, pool, inserted>>
         /\ i \in Nat /\ pos[w] <= i
         /\ \A v \in Workers : pos[v] \in Nat /\ end[v] \in Nat
         /\ state' \in [Workers -> WorkerStates] /\ pos' \in [Workers -> Nat]
         /\ \A v \in Workers : state'[v] = IF v = w THEN s ELSE state[v]
         /\ \A v \in Workers : pos'[v] = IF v = w THEN i ELSE pos[v]
         /\ \A v \in Workers : v # w => (Busy(v)' <=> Busy(v))
         /\ Busy(w)' <=> s \in BusyStates
<1>1. UNCHANGED <<cb, call, msgs, result, sent, jobs, end, pool, inserted>>
  BY DEF Moves, callVars, storeVars
<1>2. \A v \in Workers : pos[v] \in Nat /\ end[v] \in Nat
  BY DEF Whole, TypeOK
<1>3. i \in Nat /\ pos[w] <= i
  BY <1>2 DEF Moves
<1>4. /\ state' \in [Workers -> WorkerStates]
      /\ \A v \in Workers : state'[v] = IF v = w THEN s ELSE state[v]
  BY DEF Moves, Whole, TypeOK
<1>5. /\ pos' \in [Workers -> Nat]
      /\ \A v \in Workers : pos'[v] = IF v = w THEN i ELSE pos[v]
  BY <1>3 DEF Moves, Whole, TypeOK
<1>6. \A v \in Workers : v # w => (Busy(v)' <=> Busy(v))
  BY <1>4 DEF Busy
<1>7. Busy(w)' <=> s \in BusyStates
  BY <1>4 DEF Busy, BusyStates
<1>8. QED
  BY <1>1, <1>2, <1>3, <1>4, <1>5, <1>6, <1>7

LEMMA MoveJobs ==
  ASSUME Whole, NEW w \in Workers, NEW s, NEW i, Moves(w, s, i)
  PROVE  JobsInv'
<1>1. /\ UNCHANGED <<sent, jobs, end, msgs>>
      /\ \A v \in Workers : state'[v] = IF v = w THEN s ELSE state[v]
      /\ \A v \in Workers : pos'[v] = IF v = w THEN i ELSE pos[v]
      /\ \A v \in Workers : v # w => (Busy(v)' <=> Busy(v))
      /\ Busy(w)' <=> s \in BusyStates
      /\ i \in Nat /\ pos[w] <= i
      /\ \A v \in Workers : pos[v] \in Nat /\ end[v] \in Nat
  BY MoveFacts
<1>2. /\ Busy(w)' => Busy(w) /\ i <= end[w] + 1
      /\ Busy(w)' /\ s # "run" => i <= end[w]
  BY <1>1 DEF Moves
<1>3. Split' = Split
  BY <1>1 DEF Split
<1>4. \A v \in Workers : Busy(v)' => Busy(v)
  BY <1>1, <1>2
<1>5. /\ \A x \in DOMAIN jobs' : \E p \in DOMAIN Split' : p <= sent' /\ jobs'[x] = Split'[p]
      /\ \A x, y \in DOMAIN jobs' : jobs'[x].to = jobs'[y].to => x = y
  BY <1>1, <1>3 DEF Whole, JobsInv
<1>6. ASSUME NEW v \in Workers, Busy(v)'
      PROVE  \E p \in DOMAIN Split' : /\ p <= sent' /\ end'[v] = Split'[p].to
                                      /\ Split'[p].from <= pos'[v] /\ pos'[v] <= end'[v] + 1
  <2>1. PICK p \in DOMAIN Split : /\ p <= sent /\ end[v] = Split[p].to
                                  /\ Split[p].from <= pos[v] /\ pos[v] <= end[v] + 1
    BY <1>4, <1>6 DEF Whole, JobsInv
  <2>2. Split[p].from \in Nat
    BY <1>4, <1>6, AtWork, SplitFacts DEF Whole
  <2>3. Split[p].from <= pos'[v] /\ pos'[v] <= end[v] + 1
    BY <1>1, <1>2, <1>6, <2>1, <2>2
  <2>4. QED
    BY <1>1, <1>3, <2>1, <2>3
<1>7. \A u, v \in Workers : Busy(u)' /\ Busy(v)' /\ end'[u] = end'[v] => u = v
  BY <1>1, <1>4 DEF Whole, JobsInv
<1>8. \A v \in Workers : Busy(v)' => \A x \in DOMAIN jobs' : end'[v] # jobs'[x].to
  BY <1>1, <1>4 DEF Whole, JobsInv
<1>9. \A v \in Workers : Busy(v)' /\ state'[v] # "run" => pos'[v] <= end'[v]
  BY <1>1, <1>2 DEF Whole, JobsInv
<1>10. QED
  BY <1>5, <1>6, <1>7, <1>8, <1>9 DEF JobsInv

(* Nothing is to come that was not, and what was still is, except what the *)
(* worker has left behind.                                                 *)
LEMMA MoveToCome ==
  ASSUME Whole, NEW w \in Workers, NEW s, NEW i, Moves(w, s, i), NEW j \in Nat
  PROVE  /\ ToCome(j)' => ToCome(j)
         /\ ToCome(j) =>
              \/ ToCome(j)'
              \/ /\ Busy(w) /\ j \in pos[w]..end[w] /\ ~(state[w] = "tail" /\ j = pos[w])
                 /\ s \notin BusyStates \/ j < i \/ (s = "tail" /\ j = pos[w])
<1>1. /\ UNCHANGED <<sent, jobs, end, msgs>>
      /\ \A v \in Workers : state'[v] = IF v = w THEN s ELSE state[v]
      /\ \A v \in Workers : pos'[v] = IF v = w THEN i ELSE pos[v]
      /\ \A v \in Workers : v # w => (Busy(v)' <=> Busy(v))
      /\ Busy(w)' <=> s \in BusyStates
      /\ i \in Nat /\ pos[w] <= i
      /\ \A v \in Workers : pos[v] \in Nat /\ end[v] \in Nat
  BY MoveFacts
<1>2. Busy(w)' => Busy(w) /\ state[w] # "tail"
  BY <1>1 DEF Moves
<1>3. Split' = Split
  BY <1>1 DEF Split
<1> DEFINE Here(v) == Busy(v) /\ j \in pos[v]..end[v] /\ ~(state[v] = "tail" /\ j = pos[v])
           There(v) == Busy(v)' /\ j \in pos'[v]..end'[v] /\ ~(state'[v] = "tail" /\ j = pos'[v])
           Rest == \/ \E p \in DOMAIN Split : p > sent /\ j \in Split[p].from..Split[p].to
                   \/ \E x \in DOMAIN jobs : j \in jobs[x].from..jobs[x].to
<1>4. ToCome(j) <=> Rest \/ \E v \in Workers : Here(v)
  BY DEF ToCome
<1>5. ToCome(j)' <=> Rest \/ \E v \in Workers : There(v)
  BY <1>1, <1>3 DEF ToCome
<1>6. \A v \in Workers : v # w => (There(v) <=> Here(v))
  BY <1>1
<1>7. There(w) => Here(w)
  BY <1>1, <1>2
<1>8. i \in {pos[w], pos[w] + 1} /\ (s = "tail" => i = pos[w])
  BY DEF Moves
<1>9. Here(w) => There(w) \/ s \notin BusyStates \/ j < i \/ (s = "tail" /\ j = pos[w])
  BY <1>1, <1>8
<1> HIDE DEF There, Rest
<1>10. QED
  BY <1>4, <1>5, <1>6, <1>7, <1>9

(* RowOf, Dropped and the answer of the last insert are about the call.    *)
LEMMA SameCall ==
  ASSUME UNCHANGED <<call, msgs>>, NEW j
  PROVE  /\ Dropped(j)' <=> Dropped(j)
         /\ last' = last => (RowOf(last, j)' <=> RowOf(last, j))
  BY DEF Dropped, SameJob, RowOf

LEMMA MoveInsert ==
  ASSUME Whole, UNCHANGED <<cb, call, msgs, inserted>>
  PROVE  InsertComplete'
  BY DEF Whole, InsertComplete, RowOf, SameJob

LEMMA MoveRows ==
  ASSUME Whole, NEW w \in Workers, NEW s, NEW i, Moves(w, s, i), last' = last,
         \A j \in DOMAIN msgs :
           /\ Busy(w) /\ j \in pos[w]..end[w] /\ ~(state[w] = "tail" /\ j = pos[w])
           /\ s \notin BusyStates \/ j < i \/ (s = "tail" /\ j = pos[w])
           => Dropped(j)
  PROVE  RowsInv'
<1>1. UNCHANGED <<cb, call, msgs>>
  BY MoveFacts
<1>2. DOMAIN msgs \subseteq Nat
  BY LenProperties DEF Whole, TypeOK
<1> SUFFICES ASSUME cb' \in {"submit", "wait", "flush"}
             PROVE  /\ \A r \in DOMAIN last' :
                         \E j \in DOMAIN msgs' : /\ last'[r] = <<call', j>> /\ msgs'[j] # "bad"
                                                /\ ~ToCome(j)'
                    /\ \A r1, r2 \in DOMAIN last' : last'[r1] = last'[r2] => r1 = r2
                    /\ \A j \in DOMAIN msgs' : RowOf(last, j)' \/ Dropped(j)' \/ ToCome(j)'
  BY DEF RowsInv
<1>3. /\ \A r \in DOMAIN last :
           \E j \in DOMAIN msgs : last[r] = <<call, j>> /\ msgs[j] # "bad" /\ ~ToCome(j)
      /\ \A r1, r2 \in DOMAIN last : last[r1] = last[r2] => r1 = r2
      /\ \A j \in DOMAIN msgs : RowOf(last, j) \/ Dropped(j) \/ ToCome(j)
  BY <1>1 DEF Whole, RowsInv
<1>4. ASSUME NEW r \in DOMAIN last'
      PROVE  \E j \in DOMAIN msgs' : /\ last'[r] = <<call', j>> /\ msgs'[j] # "bad"
                                     /\ ~ToCome(j)'
  <2>1. PICK j \in DOMAIN msgs : last[r] = <<call, j>> /\ msgs[j] # "bad" /\ ~ToCome(j)
    BY <1>3
  <2>2. ~ToCome(j)'
    BY <1>2, <2>1, MoveToCome
  <2>3. QED
    BY <1>1, <2>1, <2>2
<1>5. ASSUME NEW j \in DOMAIN msgs
      PROVE  RowOf(last, j)' \/ Dropped(j)' \/ ToCome(j)'
  <2>1. RowOf(last, j) \/ Dropped(j) \/ ToCome(j)
    BY <1>3
  <2>2. ToCome(j) => Dropped(j) \/ ToCome(j)'
    BY <1>2, MoveToCome
  <2>3. QED
    BY <1>1, <2>1, <2>2, SameCall
<1>6. QED
  BY <1>1, <1>3, <1>4, <1>5

(* Buffers: a worker that holds none, or gives its own back.               *)
LEMMA MoveBuffers ==
  ASSUME Whole, NEW w \in Workers, NEW s, NEW i, Moves(w, s, i),
         Release(w) \/ (state[w] # "decode" /\ UNCHANGED <<held, content>>)
  PROVE  /\ BuffersInv'
         /\ held' \in [Workers -> Buffers \cup {NoBuffer}]
         /\ content' \in [Buffers -> Rows \cup {NoRow}]
<1>1. /\ UNCHANGED call
      /\ \A v \in Workers : state'[v] = IF v = w THEN s ELSE state[v]
      /\ \A v \in Workers : pos'[v] = IF v = w THEN i ELSE pos[v]
  BY MoveFacts
<1>2. /\ held \in [Workers -> Buffers \cup {NoBuffer}]
      /\ content \in [Buffers -> Rows \cup {NoRow}]
  BY DEF Whole, TypeOK
<1>3. /\ \A v \in Workers : held[v] # NoBuffer =>
           state[v] = "decode" /\ content[held[v]] = <<call, pos[v]>>
      /\ \A u, v \in Workers : held[u] = held[v] /\ held[v] # NoBuffer => u = v
      /\ \A b \in Buffers : content[b] # NoRow => \E v \in Workers : held[v] = b
  BY DEF Whole, BuffersInv
<1>4. NoBuffer \notin Buffers
  BY DEF NoBuffer, Buffers
<1>5. CASE Release(w)
  <2>1. /\ held' \in [Workers -> Buffers \cup {NoBuffer}]
        /\ \A v \in Workers : held'[v] = IF v = w THEN NoBuffer ELSE held[v]
    BY <1>2, <1>5 DEF Release
  <2>2. /\ content' \in [Buffers -> Rows \cup {NoRow}]
        /\ \A b \in Buffers : content'[b] = IF b = held[w] THEN NoRow ELSE content[b]
    BY <1>2, <1>4, <1>5 DEF Release
  <2>3. \A v \in Workers : held'[v] # NoBuffer =>
           state'[v] = "decode" /\ content'[held'[v]] = <<call', pos'[v]>>
    <3> TAKE v \in Workers
    <3> HAVE held'[v] # NoBuffer
    <3>1. v # w /\ held'[v] = held[v] /\ held[v] \in Buffers
      BY <1>2, <2>1
    <3>2. content'[held[v]] = content[held[v]]
      BY <1>3, <2>2, <3>1
    <3>3. QED
      BY <1>1, <1>3, <3>1, <3>2
  <2>4. \A u, v \in Workers : held'[u] = held'[v] /\ held'[v] # NoBuffer => u = v
    BY <1>3, <2>1
  <2>5. \A b \in Buffers : content'[b] # NoRow => \E v \in Workers : held'[v] = b
    <3> TAKE b \in Buffers
    <3> HAVE content'[b] # NoRow
    <3>1. b # held[w] /\ content[b] # NoRow
      BY <2>2
    <3>2. PICK v \in Workers : held[v] = b
      BY <1>3, <3>1
    <3>3. QED
      BY <2>1, <3>1, <3>2
  <2>6. QED
    BY <2>1, <2>2, <2>3, <2>4, <2>5 DEF BuffersInv
<1>6. CASE state[w] # "decode" /\ UNCHANGED <<held, content>>
  <2>1. held[w] = NoBuffer
    BY <1>3, <1>6
  <2>2. \A v \in Workers : held'[v] # NoBuffer =>
           state'[v] = "decode" /\ content'[held'[v]] = <<call', pos'[v]>>
    BY <1>1, <1>3, <1>6, <2>1
  <2>3. QED
    BY <1>2, <1>3, <1>6, <2>2 DEF BuffersInv
<1>7. QED
  BY <1>5, <1>6

LEMMA MoveDecoded ==
  ASSUME Whole, NEW w \in Workers, NEW s, NEW i, Moves(w, s, i),
         \A v \in Workers : v # w => req'[v] = req[v],
         s \in HoldsRow => req'[w] = <<call, i>> /\ msgs[i] # "bad"
  PROVE  DecodedInv'
<1>1. /\ UNCHANGED <<call, msgs>>
      /\ \A v \in Workers : state'[v] = IF v = w THEN s ELSE state[v]
      /\ \A v \in Workers : pos'[v] = IF v = w THEN i ELSE pos[v]
  BY MoveFacts
<1>2. ASSUME NEW v \in Workers, state'[v] \in HoldsRow
      PROVE  req'[v] = <<call', pos'[v]>> /\ msgs'[pos'[v]] # "bad"
  BY <1>1, <1>2 DEF Whole, DecodedInv
<1>3. QED
  BY <1>2 DEF DecodedInv

LEMMA MoveType ==
  ASSUME Whole, NEW w \in Workers, NEW s, NEW i, Moves(w, s, i),
         wg' \in 0..NumWorkers, mu' \in Workers \cup {NoOne},
         first' \in Seq(Rows), last' \in Seq(Rows),
         held' \in [Workers -> Buffers \cup {NoBuffer}],
         req' \in [Workers -> Rows \cup {NoRow}],
         content' \in [Buffers -> Rows \cup {NoRow}]
  PROVE  TypeOK' /\ CallInv'
<1>1. /\ UNCHANGED <<cb, call, msgs, result, sent, jobs, end, pool>>
      /\ state' \in [Workers -> WorkerStates] /\ pos' \in [Workers -> Nat]
  BY MoveFacts
<1>2. TypeOK'
  BY <1>1 DEF Whole, TypeOK
<1>3. CallInv'
  BY <1>1 DEF Whole, CallInv
<1>4. QED
  BY <1>2, <1>3

(* The steps of a goroutine after Take.                                    *)

LEMMA RowHere ==
  ASSUME Whole, NEW w \in Workers, Busy(w)
  PROVE  <<call, pos[w]>> \in Rows /\ <<call, pos[w]>> # NoRow
<1>1. call \in 1..MaxCalls
  BY AtWork
<1>2. pos[w] \in Nat
  BY DEF Whole, TypeOK
<1>3. QED
  BY <1>1, <1>2 DEF Rows, NoRow

LEMMA JobLeft ==
  ASSUME Whole, NEW w \in Workers, Busy(w)
  PROVE  wg - 1 \in 0..NumWorkers
<1>1. cb \in {"submit", "wait"} /\ Len(msgs) > 0 /\ sent \in Nat /\ sent <= Parts(Len(msgs))
  BY AtWork
<1>2. /\ Len(msgs) \in Nat /\ Len(jobs) \in Nat
      /\ Parts(Len(msgs)) \in Nat /\ Len(splitMessages(Len(msgs))) = Parts(Len(msgs))
  BY Lengths, NumberOfIntervals DEF Whole, Inv
<1>3. wg = Len(splitMessages(Len(msgs))) - sent + Len(jobs) + Cardinality(BusyWorkers)
  BY <1>1 DEF Whole, Inv, NoJobAfterWait, BusyWorkers
<1>4. Cardinality(BusyWorkers) \in Nat /\ Cardinality(BusyWorkers) # 0
  BY BusyFinite
<1>5. wg \in 0..NumWorkers /\ NumWorkers \in Nat
  BY WorkersAssumption DEF Whole, TypeOK
<1>6. QED
  BY <1>1, <1>2, <1>3, <1>4, <1>5

(* There are as many buffers as workers, so a worker without one finds one.*)
LEMMA FreeBuffer ==
  ASSUME Whole, NEW w \in Workers, held[w] = NoBuffer
  PROVE  \E b \in Buffers : content[b] = NoRow
<1> SUFFICES ASSUME \A b \in Buffers : content[b] # NoRow PROVE FALSE
  OBVIOUS
<1> DEFINE Others == Workers \ {w}
           holder == [b \in Buffers |-> CHOOSE v \in Workers : held[v] = b]
<1>1. \A b \in Buffers : holder[b] \in Workers /\ held[holder[b]] = b
  BY DEF Whole, BuffersInv
<1>2. NoBuffer \notin Buffers
  BY DEF NoBuffer, Buffers
<1>3. holder \in [Buffers -> Others]
  BY <1>1, <1>2
<1>4. /\ IsFiniteSet(Workers) /\ Cardinality(Workers) = NumWorkers
      /\ Buffers = Workers /\ NumWorkers \in Nat \ {0}
  BY FS_Interval, WorkersAssumption DEF Workers, Buffers
<1>5. IsFiniteSet(Others) /\ Cardinality(Others) = NumWorkers - 1
  BY <1>4, FS_RemoveElement
<1>6. Cardinality(Others) < Cardinality(Buffers)
  BY <1>4, <1>5
<1> HIDE DEF holder, Others
<1>7. \E b, c \in Buffers : b # c /\ holder[b] = holder[c]
  BY <1>3, <1>4, <1>5, <1>6, FS_PigeonHole
<1>8. QED
  BY <1>1, <1>7

LEMMA DecompressBuffers ==
  ASSUME Whole, NEW w \in Workers, Decompress(w)
  PROVE  /\ BuffersInv'
         /\ held' \in [Workers -> Buffers \cup {NoBuffer}]
         /\ content' \in [Buffers -> Rows \cup {NoRow}]
<1>1. /\ UNCHANGED <<call, pos>> /\ state[w] = "run" /\ Busy(w)
      /\ \A v \in Workers : state'[v] = IF v = w THEN "decode" ELSE state[v]
  BY DEF Decompress, Working, callVars, Busy, Whole, TypeOK
<1>2. /\ held \in [Workers -> Buffers \cup {NoBuffer}]
      /\ content \in [Buffers -> Rows \cup {NoRow}]
  BY DEF Whole, TypeOK
<1>3. /\ \A v \in Workers : held[v] # NoBuffer =>
           state[v] = "decode" /\ content[held[v]] = <<call, pos[v]>>
      /\ \A u, v \in Workers : held[u] = held[v] /\ held[v] # NoBuffer => u = v
      /\ \A b \in Buffers : content[b] # NoRow => \E v \in Workers : held[v] = b
  BY DEF Whole, BuffersInv
<1>4. held[w] = NoBuffer
  BY <1>1, <1>3
<1> DEFINE free == CHOOSE b \in Buffers : content[b] = NoRow
<1>5. free \in Buffers /\ content[free] = NoRow
  BY <1>4, FreeBuffer
<1>6. \/ /\ held' = [held EXCEPT ![w] = free]
         /\ content' = [content EXCEPT ![free] = <<call, pos[w]>>]
      \/ UNCHANGED <<held, content>>
  BY DEF Decompress
<1> HIDE DEF free
<1>7. CASE UNCHANGED <<held, content>>
  <2>1. \A v \in Workers : held'[v] # NoBuffer =>
           state'[v] = "decode" /\ content'[held'[v]] = <<call', pos'[v]>>
    BY <1>1, <1>3, <1>4, <1>7
  <2>2. QED
    BY <1>2, <1>3, <1>7, <2>1 DEF BuffersInv
<1>8. CASE /\ held' = [held EXCEPT ![w] = free]
           /\ content' = [content EXCEPT ![free] = <<call, pos[w]>>]
  <2>1. <<call, pos[w]>> \in Rows /\ <<call, pos[w]>> # NoRow
    BY <1>1, RowHere
  <2>2. /\ held' \in [Workers -> Buffers \cup {NoBuffer}]
        /\ \A v \in Workers : held'[v] = IF v = w THEN free ELSE held[v]
    BY <1>2, <1>5, <1>8
  <2>3. /\ content' \in [Buffers -> Rows \cup {NoRow}]
        /\ \A b \in Buffers : content'[b] = IF b = free THEN <<call, pos[w]>> ELSE content[b]
    BY <1>2, <1>5, <1>8, <2>1
  <2>4. \A v \in Workers : v # w => held[v] # free
    <3> SUFFICES ASSUME NEW v \in Workers, v # w, held[v] = free PROVE FALSE
      OBVIOUS
    <3>1. held[v] # NoBuffer
      BY <1>5 DEF NoBuffer, Buffers
    <3>2. state[v] = "decode" /\ content[free] = <<call, pos[v]>>
      BY <1>3, <3>1
    <3>3. Busy(v)
      BY <3>2 DEF Busy
    <3>4. QED
      BY <1>5, <3>2, <3>3, RowHere
  <2>5. \A v \in Workers : held'[v] # NoBuffer =>
           state'[v] = "decode" /\ content'[held'[v]] = <<call', pos'[v]>>
    <3> TAKE v \in Workers
    <3> HAVE held'[v] # NoBuffer
    <3>1. CASE v = w
      BY <1>1, <1>5, <2>2, <2>3, <3>1
    <3>2. CASE v # w
      <4>1. held'[v] = held[v] /\ held[v] \in Buffers /\ held[v] # free
        BY <1>2, <2>2, <2>4, <3>2
      <4>2. content'[held[v]] = content[held[v]] /\ held[v] # NoBuffer
        BY <2>2, <2>3, <3>2, <4>1
      <4>3. QED
        BY <1>1, <1>3, <3>2, <4>1, <4>2
    <3>3. QED
      BY <3>1, <3>2
  <2>6. \A u, v \in Workers : held'[u] = held'[v] /\ held'[v] # NoBuffer => u = v
    BY <1>3, <2>2, <2>4
  <2>7. \A b \in Buffers : content'[b] # NoRow => \E v \in Workers : held'[v] = b
    <3> TAKE b \in Buffers
    <3> HAVE content'[b] # NoRow
    <3>1. CASE b = free
      BY <2>2, <3>1
    <3>2. CASE b # free
      <4>1. PICK v \in Workers : held[v] = b
        BY <1>3, <2>3, <3>2
      <4>2. v # w
        BY <1>4, <4>1 DEF NoBuffer, Buffers
      <4>3. QED
        BY <2>2, <4>1, <4>2
    <3>3. QED
      BY <3>1, <3>2
  <2>8. QED
    BY <2>2, <2>3, <2>5, <2>6, <2>7 DEF BuffersInv
<1>9. QED
  BY <1>6, <1>7, <1>8

(* What is common to these steps.                                          *)
LEMMA MoveWhole ==
  ASSUME Whole, NEW w \in Workers, NEW s, NEW i, Moves(w, s, i), [Next]_vars,
         wg' \in {wg, wg - 1}, wg' = wg - 1 => Busy(w),
         first' \in Seq(Rows), last' \in Seq(Rows),
         BuffersInv', held' \in [Workers -> Buffers \cup {NoBuffer}],
         content' \in [Buffers -> Rows \cup {NoRow}],
         req' \in [Workers -> Rows \cup {NoRow}],
         \A v \in Workers : v # w => req'[v] = req[v],
         s \in HoldsRow => req'[w] = <<call, i>> /\ msgs[i] # "bad",
         RowsInv'
  PROVE  Whole'
<1>1. Inv'
  BY NextInv DEF Whole
<1>2. wg' \in 0..NumWorkers
  BY JobLeft, WorkersAssumption DEF Whole, TypeOK
<1>3. TypeOK' /\ CallInv'
  BY <1>1, <1>2, MoveType DEF Inv, Shape
<1>4. JobsInv' /\ DecodedInv'
  BY MoveJobs, MoveDecoded
<1>5. InsertComplete'
  BY MoveFacts, MoveInsert
<1>6. QED
  BY <1>1, <1>3, <1>4, <1>5 DEF Whole

(* Steps inside a payload: nothing is left behind.                         *)
LEMMA InsideRows ==
  ASSUME Whole, NEW w \in Workers, NEW s \in {"decode", "decoded", "append", "unlock"},
         Moves(w, s, pos[w]), last' = last
  PROVE  RowsInv'
<1>1. pos[w] \in Nat /\ end[w] \in Nat
  BY DEF Whole, TypeOK
<1>2. s \in BusyStates /\ s # "tail"
  BY DEF BusyStates
<1>3. QED
  BY <1>1, <1>2, MoveRows

LEMMA InTheInterval ==
  ASSUME Whole, NEW w \in Workers, Busy(w), state[w] # "run" \/ pos[w] <= end[w]
  PROVE  /\ pos[w] \in Nat /\ end[w] \in Nat /\ pos[w] <= end[w]
         /\ pos[w] \in DOMAIN msgs
<1>1. pos[w] \in Nat /\ end[w] \in Nat /\ pos[w] <= end[w]
  BY DEF Whole, TypeOK, JobsInv
<1>2. pos[w] \in DOMAIN msgs
  BY <1>1, OnlyHere
<1>3. QED
  BY <1>1, <1>2

LEMMA DecompressWhole ==
  ASSUME Whole, NEW w \in Workers, Decompress(w), [Next]_vars
  PROVE  Whole'
<1>1. /\ state[w] = "run" /\ pos[w] <= end[w] /\ Busy(w)
      /\ state' = [state EXCEPT ![w] = "decode"]
      /\ UNCHANGED <<cb, callVars, sent, jobs, wg, first, last, pos, end, req, storeVars>>
  BY DEF Decompress, Working, columnVars, Busy
<1>2. /\ pos[w] \in Nat /\ end[w] \in Nat /\ pos[w] <= end[w] + 1
      /\ pos' = [pos EXCEPT ![w] = pos[w]]
  BY <1>1 DEF Whole, TypeOK
<1>3. Moves(w, "decode", pos[w])
  BY <1>1, <1>2 DEF Moves, WorkerStates
<1>4. RowsInv'
  BY <1>1, <1>3, InsideRows
<1>5. /\ BuffersInv' /\ held' \in [Workers -> Buffers \cup {NoBuffer}]
      /\ content' \in [Buffers -> Rows \cup {NoRow}]
  BY DecompressBuffers
<1>6. /\ first' \in Seq(Rows) /\ last' \in Seq(Rows)
      /\ req' \in [Workers -> Rows \cup {NoRow}]
  BY <1>1 DEF Whole, TypeOK
<1>7. "decode" \notin HoldsRow
  BY DEF HoldsRow
<1>8. QED
  BY <1>1, <1>3, <1>4, <1>5, <1>6, <1>7, MoveWhole

LEMMA DecodeWhole ==
  ASSUME Whole, NEW w \in Workers, Decode(w), [Next]_vars
  PROVE  Whole'
<1>1. /\ state[w] = "decode" /\ pos[w] <= end[w] /\ Busy(w) /\ msgs[pos[w]] # "bad"
      /\ state' = [state EXCEPT ![w] = "decoded"] /\ Release(w)
      /\ UNCHANGED <<cb, callVars, sent, jobs, wg, first, last, pos, end, storeVars>>
  BY DEF Decode, Working, Kind, columnVars, Busy
<1>2. /\ pos[w] \in Nat /\ end[w] \in Nat /\ pos[w] <= end[w] + 1
      /\ pos' = [pos EXCEPT ![w] = pos[w]]
  BY <1>1 DEF Whole, TypeOK
<1>3. Moves(w, "decoded", pos[w])
  BY <1>1, <1>2 DEF Moves, WorkerStates
<1>4. RowsInv'
  BY <1>1, <1>3, InsideRows
<1>5. /\ BuffersInv' /\ held' \in [Workers -> Buffers \cup {NoBuffer}]
      /\ content' \in [Buffers -> Rows \cup {NoRow}]
  BY <1>1, <1>3, MoveBuffers
<1>6. <<call, pos[w]>> \in Rows
  BY <1>1, RowHere
<1>7. held[w] # NoBuffer => content[held[w]] = <<call, pos[w]>>
  BY DEF Whole, BuffersInv
<1>8. req' = [req EXCEPT ![w] = <<call, pos[w]>>]
  BY <1>7 DEF Decode
<1>9. /\ req' \in [Workers -> Rows \cup {NoRow}]
      /\ req'[w] = <<call, pos[w]>> /\ \A v \in Workers : v # w => req'[v] = req[v]
  BY <1>6, <1>8 DEF Whole, TypeOK
<1>10. first' \in Seq(Rows) /\ last' \in Seq(Rows)
  BY <1>1 DEF Whole, TypeOK
<1>11. QED
  BY <1>1, <1>3, <1>4, <1>5, <1>9, <1>10, MoveWhole

LEMMA LockWhole ==
  ASSUME Whole, NEW w \in Workers, Lock(w) \/ AppendFirst(w), [Next]_vars
  PROVE  Whole'
<1>1. PICK s \in {"append", "unlock"} : state' = [state EXCEPT ![w] = s]
  BY DEF Lock, AppendFirst
<1>2. /\ state[w] \in {"decoded", "append"} /\ Busy(w) /\ state[w] \in HoldsRow
      /\ UNCHANGED <<cb, callVars, sent, jobs, wg, last, pos, end, held, req, content, storeVars>>
      /\ first' \in {first, Append(first, req[w])}
  BY DEF Lock, AppendFirst, columnVars, decodeVars, Busy, HoldsRow
<1>3. pos[w] \in Nat /\ end[w] \in Nat /\ pos[w] <= end[w] /\ pos[w] <= end[w] + 1
  BY <1>2, InTheInterval
<1>4. req[w] = <<call, pos[w]>> /\ msgs[pos[w]] # "bad"
  BY <1>2 DEF Whole, DecodedInv
<1>5. pos' = [pos EXCEPT ![w] = pos[w]]
  BY <1>2 DEF Whole, TypeOK
<1>6. Moves(w, s, pos[w])
  BY <1>1, <1>2, <1>3, <1>5 DEF Moves, WorkerStates
<1>7. RowsInv'
  BY <1>2, <1>6, InsideRows
<1>8. /\ BuffersInv' /\ held' \in [Workers -> Buffers \cup {NoBuffer}]
      /\ content' \in [Buffers -> Rows \cup {NoRow}]
  BY <1>2, <1>6, MoveBuffers
<1>9. req[w] \in Rows
  BY <1>2, <1>4, RowHere
<1>10. first' \in Seq(Rows)
  <2>1. first \in Seq(Rows)
    BY DEF Whole, TypeOK
  <2>2. Append(first, req[w]) \in Seq(Rows)
    BY <1>9, <2>1, AppendProperties
  <2>3. QED
    BY <1>2, <2>1, <2>2
<1>11. last' \in Seq(Rows) /\ req' \in [Workers -> Rows \cup {NoRow}]
  BY <1>2 DEF Whole, TypeOK
<1>12. QED
  BY <1>2, <1>4, <1>6, <1>7, <1>8, <1>10, <1>11, MoveWhole

LEMMA SkipWhole ==
  ASSUME Whole, NEW w \in Workers, Skip(w), [Next]_vars
  PROVE  Whole'
<1>1. /\ state[w] \in {"run", "decode"} /\ pos[w] <= end[w] /\ Busy(w)
      /\ msgs[pos[w]] = "bad" /\ Release(w)
      /\ state' = [state EXCEPT ![w] = "run"]
      /\ pos' = [pos EXCEPT ![w] = pos[w] + 1]
      /\ UNCHANGED <<cb, callVars, sent, jobs, wg, first, last, end, req, storeVars>>
  BY DEF Skip, Working, Kind, columnVars, Busy
<1>2. pos[w] \in Nat /\ end[w] \in Nat
  BY DEF Whole, TypeOK
<1>3. Moves(w, "run", pos[w] + 1)
  BY <1>1, <1>2 DEF Moves, WorkerStates
<1>4. \A j \in pos[w]..end[w] : j < pos[w] + 1 => Dropped(j)
  BY <1>1, <1>2 DEF Dropped
<1>5. "run" \in BusyStates /\ "run" \notin HoldsRow
  BY DEF BusyStates, HoldsRow
<1>6. RowsInv'
  BY <1>1, <1>3, <1>4, <1>5, MoveRows
<1>7. /\ BuffersInv' /\ held' \in [Workers -> Buffers \cup {NoBuffer}]
      /\ content' \in [Buffers -> Rows \cup {NoRow}]
  BY <1>1, <1>3, MoveBuffers
<1>8. /\ first' \in Seq(Rows) /\ last' \in Seq(Rows)
      /\ req' \in [Workers -> Rows \cup {NoRow}]
  BY <1>1 DEF Whole, TypeOK
<1>9. QED
  BY <1>1, <1>3, <1>5, <1>6, <1>7, <1>8, MoveWhole

(* A panic drops the rest of the interval.                                 *)
LEMMA PanicWhole ==
  ASSUME Whole, NEW w \in Workers, Panic(w), [Next]_vars
  PROVE  Whole'
<1>1. /\ state[w] \in {"decode", "tail"} /\ pos[w] <= end[w] /\ Busy(w)
      /\ msgs[pos[w]] = "panic" /\ Release(w) /\ wg' = wg - 1
      /\ state' = [state EXCEPT ![w] = "idle"]
      /\ UNCHANGED <<cb, callVars, sent, jobs, first, last, pos, end, req, storeVars>>
  BY DEF Panic, Working, Kind, columnVars, Busy
<1>2. pos[w] \in Nat /\ end[w] \in Nat /\ pos' = [pos EXCEPT ![w] = pos[w]]
  BY <1>1 DEF Whole, TypeOK
<1>3. "idle" \notin BusyStates /\ "idle" \notin HoldsRow
  BY DEF BusyStates, HoldsRow
<1>4. Moves(w, "idle", pos[w])
  BY <1>1, <1>2, <1>3 DEF Moves, WorkerStates
<1>5. ASSUME NEW j \in pos[w]..end[w] PROVE Dropped(j)
  <2>1. /\ pos[w] \in DOMAIN msgs
        /\ \E p \in DOMAIN Split : {pos[w], j} \subseteq Split[p].from..Split[p].to
    BY <1>1, OnlyHere
  <2>2. pos[w] \in 1..j
    <3>1. DOMAIN msgs = 1..Len(msgs) /\ Len(msgs) \in Nat
      BY LenProperties DEF Whole, TypeOK
    <3>2. QED
      BY <1>2, <2>1, <3>1
  <2>3. SameJob(pos[w], j)
    BY <2>1 DEF SameJob, Split
  <2>4. QED
    BY <1>1, <2>2, <2>3 DEF Dropped
<1>6. RowsInv'
  BY <1>1, <1>4, <1>5, MoveRows
<1>7. /\ BuffersInv' /\ held' \in [Workers -> Buffers \cup {NoBuffer}]
      /\ content' \in [Buffers -> Rows \cup {NoRow}]
  BY <1>1, <1>4, MoveBuffers
<1>8. /\ first' \in Seq(Rows) /\ last' \in Seq(Rows)
      /\ req' \in [Workers -> Rows \cup {NoRow}]
  BY <1>1 DEF Whole, TypeOK
<1>9. QED
  BY <1>1, <1>3, <1>4, <1>6, <1>7, <1>8, MoveWhole

LEMMA DoneWhole ==
  ASSUME Whole, NEW w \in Workers, Done(w) \/ Leave(w), [Next]_vars
  PROVE  Whole'
<1>1. PICK s \in {"idle", "exited"} :
        /\ state' = [state EXCEPT ![w] = s]
        /\ \/ Busy(w) /\ pos[w] > end[w] /\ wg' = wg - 1
           \/ ~Busy(w) /\ wg' = wg
  BY DEF Done, Leave, Busy
<1>2. /\ state[w] \in {"run", "idle"}
      /\ UNCHANGED <<cb, callVars, sent, jobs, first, last, pos, end, held, req, content, storeVars>>
  BY DEF Done, Leave, columnVars, decodeVars
<1>3. pos[w] \in Nat /\ end[w] \in Nat /\ pos' = [pos EXCEPT ![w] = pos[w]]
  BY <1>2 DEF Whole, TypeOK
<1>4. s \notin BusyStates /\ s \notin HoldsRow /\ s # "tail"
  BY DEF BusyStates, HoldsRow
<1>5. Moves(w, s, pos[w])
  BY <1>1, <1>2, <1>3, <1>4 DEF Moves, WorkerStates
<1>6. \A j \in pos[w]..end[w] : ~Busy(w)
  BY <1>1, <1>3
<1>7. RowsInv'
  BY <1>2, <1>5, <1>6, MoveRows
<1>8. /\ BuffersInv' /\ held' \in [Workers -> Buffers \cup {NoBuffer}]
      /\ content' \in [Buffers -> Rows \cup {NoRow}]
  BY <1>2, <1>5, MoveBuffers
<1>9. /\ first' \in Seq(Rows) /\ last' \in Seq(Rows)
      /\ req' \in [Workers -> Rows \cup {NoRow}]
  BY <1>2 DEF Whole, TypeOK
<1>10. wg' \in {wg, wg - 1} /\ (wg' = wg - 1 => Busy(w))
  BY <1>1 DEF Whole, TypeOK
<1>11. QED
  BY <1>2, <1>4, <1>5, <1>7, <1>8, <1>9, <1>10, MoveWhole

(* The row appended is the one of the payload the worker was at, and no    *)
(* other worker has it or will get it.                                     *)
LEMMA AppendRows ==
  ASSUME Whole, NEW w \in Workers, NEW s \in {"tail", "run"}, NEW i,
         state[w] = "unlock", Moves(w, s, i), i = IF s = "tail" THEN pos[w] ELSE pos[w] + 1,
         last' = Append(last, <<call, pos[w]>>)
  PROVE  RowsInv'
<1> DEFINE n == Len(last)
<1>0. PICK j0 : j0 = pos[w]
  OBVIOUS
<1>1. Busy(w) /\ pos[w] \in Nat /\ end[w] \in Nat /\ pos[w] <= end[w] /\ j0 \in DOMAIN msgs
  <2>1. Busy(w)
    BY DEF Busy
  <2>2. QED
    BY <1>0, <2>1, InTheInterval
<1>2. /\ UNCHANGED <<cb, call, msgs, sent, jobs, end>> /\ i \in Nat /\ j0 <= i
      /\ \A v \in Workers : pos[v] \in Nat /\ end[v] \in Nat
      /\ \A v \in Workers : state'[v] = IF v = w THEN s ELSE state[v]
      /\ \A v \in Workers : pos'[v] = IF v = w THEN i ELSE pos[v]
      /\ \A v \in Workers : v # w => (Busy(v)' <=> Busy(v))
  BY <1>0, MoveFacts
<1>3. /\ \A r \in DOMAIN last :
           \E j \in DOMAIN msgs : last[r] = <<call, j>> /\ msgs[j] # "bad" /\ ~ToCome(j)
      /\ \A r1, r2 \in DOMAIN last : last[r1] = last[r2] => r1 = r2
      /\ \A j \in DOMAIN msgs : RowOf(last, j) \/ Dropped(j) \/ ToCome(j)
  BY <1>1, AtWork DEF Whole, RowsInv
<1>4. msgs[j0] # "bad"
  BY <1>0 DEF Whole, DecodedInv, HoldsRow
<1>5. DOMAIN msgs \subseteq Nat
  BY LenProperties DEF Whole, TypeOK
<1>6. ToCome(j0)
  BY <1>0, <1>1 DEF ToCome
<1>7. ~ToCome(j0)'
  <2>1. j0 \in pos[w]..end[w]
    BY <1>0, <1>1
  <2>2. /\ \A p \in DOMAIN Split : p > sent => j0 \notin Split[p].from..Split[p].to
        /\ \A x \in DOMAIN jobs : j0 \notin jobs[x].from..jobs[x].to
        /\ \A v \in Workers : Busy(v) /\ v # w => j0 \notin pos[v]..end[v]
    BY <1>1, <2>1, OnlyHere
  <2>3. Split' = Split
    BY <1>2 DEF Split
  <2>4. ~(j0 \in pos'[w]..end'[w] /\ ~(state'[w] = "tail" /\ j0 = pos'[w]))
    BY <1>0, <1>1, <1>2
  <2>5. QED
    BY <1>2, <2>2, <2>3, <2>4 DEF ToCome
<1>8. /\ n \in Nat /\ DOMAIN last = 1..n /\ DOMAIN last' = 1..(n + 1)
      /\ last'[n + 1] = <<call, j0>> /\ \A r \in 1..n : last'[r] = last[r]
  <2>1. last \in Seq(Rows) /\ <<call, j0>> \in Rows
    BY <1>0, <1>1, RowHere DEF Whole, TypeOK
  <2>2. QED
    BY <1>0, <2>1, AppendProperties, LenProperties
<1> HIDE DEF n
<1>9. \A r \in DOMAIN last : last[r] # <<call, j0>>
  <2>1. ASSUME NEW r \in DOMAIN last, last[r] = <<call, j0>> PROVE FALSE
    <3>1. PICK j \in DOMAIN msgs : last[r] = <<call, j>> /\ ~ToCome(j)
      BY <1>3
    <3>2. j = j0
      BY <2>1, <3>1
    <3>3. QED
      BY <1>6, <3>1, <3>2
  <2>2. QED
    BY <2>1
<1>10. ASSUME NEW r \in DOMAIN last'
       PROVE  \E j \in DOMAIN msgs' : /\ last'[r] = <<call', j>> /\ msgs'[j] # "bad"
                                      /\ ~ToCome(j)'
  <2>1. CASE r = n + 1
    BY <1>1, <1>2, <1>4, <1>7, <1>8, <2>1
  <2>2. CASE r # n + 1
    <3>1. r \in 1..n /\ last'[r] = last[r]
      BY <1>8, <2>2
    <3>2. PICK j \in DOMAIN msgs : last[r] = <<call, j>> /\ msgs[j] # "bad" /\ ~ToCome(j)
      BY <1>3, <1>8, <3>1
    <3>3. ~ToCome(j)'
      BY <1>5, <3>2, MoveToCome
    <3>4. QED
      BY <1>2, <3>1, <3>2, <3>3
  <2>3. QED
    BY <2>1, <2>2
<1>11. \A r1, r2 \in DOMAIN last' : last'[r1] = last'[r2] => r1 = r2
  <2>1. \A r \in 1..n : last'[r] # <<call, j0>>
    BY <1>8, <1>9
  <2>2. QED
    BY <1>3, <1>8, <2>1
<1>12. ASSUME NEW j \in DOMAIN msgs
       PROVE  RowOf(last, j)' \/ Dropped(j)' \/ ToCome(j)'
  <2>1. CASE j = j0
    BY <1>2, <1>8, <2>1 DEF RowOf
  <2>2. CASE j # j0
    <3>1. RowOf(last, j) => RowOf(last, j)'
      BY <1>2, <1>8 DEF RowOf
    <3>2. Dropped(j) => Dropped(j)'
      BY <1>2, SameCall
    <3>3. s \in BusyStates
      BY DEF BusyStates
    <3>4. ~(j \in pos[w]..end[w] /\ (j < i \/ (s = "tail" /\ j = pos[w])))
      BY <1>0, <1>1, <1>2, <1>5, <2>2
    <3>5. j \in Nat
      BY <1>5
    <3>6. ToCome(j) => ToCome(j)'
      BY <3>3, <3>4, <3>5, MoveToCome
    <3>7. QED
      BY <1>3, <3>1, <3>2, <3>6
  <2>3. QED
    BY <2>1, <2>2
<1>13. QED
  BY <1>2, <1>10, <1>11, <1>12 DEF RowsInv

LEMMA AppendLastWhole ==
  ASSUME Whole, NEW w \in Workers, AppendLast(w), [Next]_vars
  PROVE  Whole'
<1>1. PICK s \in {"tail", "run"} :
        /\ state' = [state EXCEPT ![w] = s]
        /\ s = "tail" => pos' = pos
        /\ s = "run" => pos' = [pos EXCEPT ![w] = pos[w] + 1]
  BY DEF AppendLast
<1>2. /\ state[w] = "unlock" /\ Busy(w) /\ state[w] \in HoldsRow
      /\ last' = Append(last, req[w]) /\ req' = [req EXCEPT ![w] = NoRow]
      /\ UNCHANGED <<cb, callVars, sent, jobs, wg, first, end, held, content, storeVars>>
  BY DEF AppendLast, Busy, HoldsRow
<1>3. pos[w] \in Nat /\ end[w] \in Nat /\ pos[w] <= end[w] /\ pos[w] + 1 <= end[w] + 1
  BY <1>2, InTheInterval
<1>4. PICK i : i = IF s = "tail" THEN pos[w] ELSE pos[w] + 1
  OBVIOUS
<1>5. pos' = [pos EXCEPT ![w] = i]
  BY <1>1, <1>4 DEF Whole, TypeOK
<1>6. /\ s \in WorkerStates /\ s \in BusyStates /\ s \notin HoldsRow
      /\ i \in {pos[w], pos[w] + 1} /\ i <= end[w] + 1
      /\ s # "run" => i <= end[w]
  BY <1>3, <1>4 DEF WorkerStates, BusyStates, HoldsRow
<1>7. Moves(w, s, i)
  BY <1>1, <1>2, <1>4, <1>5, <1>6 DEF Moves
<1>8. req[w] = <<call, pos[w]>> /\ req[w] \in Rows
  BY <1>2, RowHere DEF Whole, DecodedInv
<1>9. RowsInv'
  BY <1>2, <1>4, <1>7, <1>8, AppendRows
<1>10. /\ BuffersInv' /\ held' \in [Workers -> Buffers \cup {NoBuffer}]
       /\ content' \in [Buffers -> Rows \cup {NoRow}]
  BY <1>2, <1>7, MoveBuffers
<1>11. first' \in Seq(Rows) /\ last' \in Seq(Rows)
  <2>1. first \in Seq(Rows) /\ last \in Seq(Rows)
    BY DEF Whole, TypeOK
  <2>2. Append(last, req[w]) \in Seq(Rows)
    BY <1>8, <2>1, AppendProperties
  <2>3. QED
    BY <1>2, <2>1, <2>2
<1>12. /\ req' \in [Workers -> Rows \cup {NoRow}]
       /\ \A v \in Workers : v # w => req'[v] = req[v]
  BY <1>2 DEF Whole, TypeOK
<1>13. QED
  BY <1>2, <1>6, <1>7, <1>9, <1>10, <1>11, <1>12, MoveWhole

-----------------------------------------------------------------------------
(* Take: an interval passes from the queue to a worker.                    *)
LEMMA TakeFacts ==
  ASSUME Whole, NEW w \in Workers, Take(w)
  PROVE  /\ UNCHANGED <<cb, call, msgs, result, sent, wg, first, last, mu,
                        held, req, content, pool, inserted>>
         /\ state' \in [Workers -> WorkerStates] /\ ~Busy(w) /\ Busy(w)'
         /\ pos' \in [Workers -> Nat] /\ end' \in [Workers -> Nat]
         /\ \A v \in Workers : state'[v] = IF v = w THEN "run" ELSE state[v]
         /\ \A v \in Workers : pos'[v] = IF v = w THEN jobs[1].from ELSE pos[v]
         /\ \A v \in Workers : end'[v] = IF v = w THEN jobs[1].to ELSE end[v]
         /\ \A v \in Workers : v # w => (Busy(v)' <=> Busy(v))
         /\ Len(jobs) \in Nat \ {0} /\ DOMAIN jobs = 1..Len(jobs)
         /\ Len(jobs') = Len(jobs) - 1 /\ DOMAIN jobs' = 1..(Len(jobs) - 1)
         /\ \A x \in DOMAIN jobs' : jobs'[x] = jobs[x + 1] /\ x + 1 \in DOMAIN jobs
         /\ \E p \in DOMAIN Split : p <= sent /\ jobs[1] = Split[p]
         /\ jobs[1].from \in Nat /\ jobs[1].to \in Nat /\ jobs[1].from <= jobs[1].to
<1>1. /\ UNCHANGED <<cb, call, msgs, result, sent, wg, first, last, mu,
                     held, req, content, pool, inserted>>
      /\ state[w] = "idle" /\ jobs # <<>> /\ jobs' = Tail(jobs)
      /\ state' = [state EXCEPT ![w] = "run"]
      /\ pos' = [pos EXCEPT ![w] = Head(jobs).from]
      /\ end' = [end EXCEPT ![w] = Head(jobs).to]
  BY DEF Take, callVars, columnVars, decodeVars, storeVars
<1>2. jobs \in Seq(Intervals)
  BY DEF Whole, Inv, Shape
<1>3. /\ Len(jobs) \in Nat \ {0} /\ DOMAIN jobs = 1..Len(jobs) /\ Head(jobs) = jobs[1]
      /\ Tail(jobs) \in Seq(Intervals) /\ Len(Tail(jobs)) = Len(jobs) - 1
      /\ \A x \in 1..Len(Tail(jobs)) : Tail(jobs)[x] = jobs[x + 1]
  BY <1>1, <1>2, HeadTailProperties, EmptySeq, LenProperties
<1>4. DOMAIN Tail(jobs) = 1..(Len(jobs) - 1)
  BY <1>3, LenProperties
<1>5. \A x \in DOMAIN jobs' : jobs'[x] = jobs[x + 1] /\ x + 1 \in DOMAIN jobs
  BY <1>1, <1>3, <1>4
<1>6. 1 \in DOMAIN jobs
  BY <1>3
<1>7. PICK p \in DOMAIN Split : p <= sent /\ jobs[1] = Split[p]
  BY <1>6 DEF Whole, JobsInv
<1>8. jobs[1].from \in Nat /\ jobs[1].to \in Nat /\ jobs[1].from <= jobs[1].to
  <2>1. Len(msgs) > 0
    BY <1>1, AtWork
  <2>2. Split[p].from \in Nat /\ Split[p].to \in Nat /\ Split[p].from <= Split[p].to
    BY <2>1, SplitFacts DEF Whole
  <2>3. QED
    BY <1>7, <2>2
<1>9. /\ state \in [Workers -> WorkerStates]
      /\ pos \in [Workers -> Nat] /\ end \in [Workers -> Nat]
  BY DEF Whole, TypeOK
<1>10. /\ state' \in [Workers -> WorkerStates]
       /\ \A v \in Workers : state'[v] = IF v = w THEN "run" ELSE state[v]
  BY <1>1, <1>9 DEF WorkerStates
<1>11. /\ pos' \in [Workers -> Nat] /\ end' \in [Workers -> Nat]
       /\ \A v \in Workers : pos'[v] = IF v = w THEN jobs[1].from ELSE pos[v]
       /\ \A v \in Workers : end'[v] = IF v = w THEN jobs[1].to ELSE end[v]
  BY <1>1, <1>3, <1>8, <1>9
<1>12. /\ ~Busy(w) /\ Busy(w)'
       /\ \A v \in Workers : v # w => (Busy(v)' <=> Busy(v))
  BY <1>1, <1>10 DEF Busy
<1>13. QED
  BY <1>1, <1>3, <1>4, <1>5, <1>7, <1>8, <1>10, <1>11, <1>12

LEMMA TakeJobs ==
  ASSUME Whole, NEW w \in Workers, Take(w)
  PROVE  JobsInv'
<1>1. /\ UNCHANGED <<msgs, sent>> /\ ~Busy(w)
      /\ \A v \in Workers : state'[v] = IF v = w THEN "run" ELSE state[v]
      /\ \A v \in Workers : pos'[v] = IF v = w THEN jobs[1].from ELSE pos[v]
      /\ \A v \in Workers : end'[v] = IF v = w THEN jobs[1].to ELSE end[v]
      /\ \A v \in Workers : v # w => (Busy(v)' <=> Busy(v))
  BY TakeFacts
<1>2. /\ Len(jobs) \in Nat \ {0} /\ DOMAIN jobs = 1..Len(jobs)
      /\ DOMAIN jobs' = 1..(Len(jobs) - 1)
      /\ \A x \in DOMAIN jobs' : jobs'[x] = jobs[x + 1] /\ x + 1 \in DOMAIN jobs
  BY TakeFacts
<1>3. Split' = Split
  BY <1>1 DEF Split
<1>4. 1 \in DOMAIN jobs /\ \A x \in DOMAIN jobs' : x + 1 # 1
  BY <1>2
<1>5. \A x \in DOMAIN jobs' : \E p \in DOMAIN Split' : p <= sent' /\ jobs'[x] = Split'[p]
  BY <1>1, <1>2, <1>3 DEF Whole, JobsInv
<1>6. \A x, y \in DOMAIN jobs' : jobs'[x].to = jobs'[y].to => x = y
  <2> TAKE x, y \in DOMAIN jobs'
  <2> HAVE jobs'[x].to = jobs'[y].to
  <2>1. x + 1 = y + 1
    BY <1>2 DEF Whole, JobsInv
  <2>2. x \in Nat /\ y \in Nat
    BY <1>2
  <2>3. QED
    BY <2>1, <2>2
<1>7. ASSUME NEW v \in Workers, Busy(v)'
      PROVE  \E p \in DOMAIN Split' : /\ p <= sent' /\ end'[v] = Split'[p].to
                                      /\ Split'[p].from <= pos'[v] /\ pos'[v] <= end'[v] + 1
  <2>1. CASE v = w
    <3>1. PICK p \in DOMAIN Split : p <= sent /\ jobs[1] = Split[p]
      BY TakeFacts
    <3>2. jobs[1].from \in Nat /\ jobs[1].to \in Nat /\ jobs[1].from <= jobs[1].to
      BY TakeFacts
    <3>3. /\ end'[v] = Split[p].to /\ Split[p].from <= pos'[v] /\ pos'[v] <= end'[v] + 1
      BY <1>1, <2>1, <3>1, <3>2
    <3>4. QED
      BY <1>1, <1>3, <3>1, <3>3
  <2>2. CASE v # w
    BY <1>1, <1>3, <1>7, <2>2 DEF Whole, JobsInv
  <2>3. QED
    BY <2>1, <2>2
<1>8. \A v \in Workers : v # w /\ Busy(v) =>
        /\ end[v] # jobs[1].to
        /\ \A x \in DOMAIN jobs' : end[v] # jobs'[x].to
  BY <1>2, <1>4 DEF Whole, JobsInv
<1>9. \A u, v \in Workers : Busy(u)' /\ Busy(v)' /\ end'[u] = end'[v] => u = v
  <2>1. \A u, v \in Workers : Busy(u) /\ Busy(v) /\ end[u] = end[v] => u = v
    BY DEF Whole, JobsInv
  <2>2. QED
    BY <1>1, <1>8, <2>1
<1>10. \A x \in DOMAIN jobs' : jobs[1].to # jobs'[x].to
  BY <1>2, <1>4 DEF Whole, JobsInv
<1>11. \A v \in Workers : Busy(v)' => \A x \in DOMAIN jobs' : end'[v] # jobs'[x].to
  BY <1>1, <1>8, <1>10
<1>12. \A v \in Workers : Busy(v)' /\ state'[v] # "run" => pos'[v] <= end'[v]
  BY <1>1 DEF Whole, JobsInv
<1>13. QED
  BY <1>5, <1>6, <1>7, <1>9, <1>11, <1>12 DEF JobsInv

LEMMA TakeToCome ==
  ASSUME Whole, NEW w \in Workers, Take(w), NEW j
  PROVE  ToCome(j)' <=> ToCome(j)
<1> DEFINE Here(v) == Busy(v) /\ j \in pos[v]..end[v] /\ ~(state[v] = "tail" /\ j = pos[v])
           There(v) == Busy(v)' /\ j \in pos'[v]..end'[v] /\ ~(state'[v] = "tail" /\ j = pos'[v])
           Rest == \E p \in DOMAIN Split : p > sent /\ j \in Split[p].from..Split[p].to
           In(q) == j \in q.from..q.to
<1>1. /\ UNCHANGED <<msgs, sent>> /\ ~Busy(w) /\ Busy(w)'
      /\ \A v \in Workers : state'[v] = IF v = w THEN "run" ELSE state[v]
      /\ \A v \in Workers : pos'[v] = IF v = w THEN jobs[1].from ELSE pos[v]
      /\ \A v \in Workers : end'[v] = IF v = w THEN jobs[1].to ELSE end[v]
      /\ \A v \in Workers : v # w => (Busy(v)' <=> Busy(v))
  BY TakeFacts
<1>2. /\ Len(jobs) \in Nat \ {0} /\ DOMAIN jobs = 1..Len(jobs)
      /\ DOMAIN jobs' = 1..(Len(jobs) - 1)
      /\ \A x \in DOMAIN jobs' : jobs'[x] = jobs[x + 1] /\ x + 1 \in DOMAIN jobs
  BY TakeFacts
<1>3. Split' = Split
  BY <1>1 DEF Split
<1>4. ToCome(j) <=> Rest \/ (\E x \in DOMAIN jobs : In(jobs[x])) \/ \E v \in Workers : Here(v)
  BY DEF ToCome
<1>5. ToCome(j)' <=> Rest \/ (\E x \in DOMAIN jobs' : In(jobs'[x])) \/ \E v \in Workers : There(v)
  BY <1>1, <1>3 DEF ToCome
<1>6. \A v \in Workers : v # w => (There(v) <=> Here(v))
  BY <1>1
<1>7. There(w) <=> In(jobs[1])
  BY <1>1
<1>8. ~Here(w)
  BY <1>1
<1> HIDE DEF In, Here, There, Rest
<1>9. (\E x \in DOMAIN jobs : In(jobs[x])) <=>
        In(jobs[1]) \/ \E x \in DOMAIN jobs' : In(jobs'[x])
  <2>1. ASSUME NEW x \in DOMAIN jobs, In(jobs[x]), x # 1
        PROVE  \E y \in DOMAIN jobs' : In(jobs'[y])
    <3>1. x - 1 \in DOMAIN jobs' /\ x - 1 + 1 = x
      BY <1>2, <2>1
    <3>2. In(jobs'[x - 1])
      BY <1>2, <2>1, <3>1
    <3>3. QED
      BY <3>1, <3>2
  <2>2. 1 \in DOMAIN jobs
    BY <1>2
  <2>3. QED
    BY <1>2, <2>1, <2>2
<1>10. QED
  BY <1>4, <1>5, <1>6, <1>7, <1>8, <1>9

LEMMA TakeWhole ==
  ASSUME Whole, NEW w \in Workers, Take(w), [Next]_vars
  PROVE  Whole'
<1>1. /\ UNCHANGED <<cb, call, msgs, result, sent, wg, first, last, mu,
                     held, req, content, pool, inserted>>
      /\ state' \in [Workers -> WorkerStates] /\ ~Busy(w)
      /\ pos' \in [Workers -> Nat] /\ end' \in [Workers -> Nat]
      /\ \A v \in Workers : state'[v] = IF v = w THEN "run" ELSE state[v]
      /\ \A v \in Workers : v # w => pos'[v] = pos[v]
      /\ Len(jobs) \in Nat \ {0}
  BY TakeFacts
<1>2. Inv'
  BY NextInv DEF Whole
<1>3. Len(jobs') = Len(jobs) - 1
  BY TakeFacts
<1>4. TypeOK'
  <2>1. Len(jobs') <= NumWorkers
    BY <1>1, <1>3, WorkersAssumption DEF Whole, TypeOK
  <2>2. QED
    BY <1>1, <2>1 DEF Whole, TypeOK
<1>5. CallInv'
  BY <1>1 DEF Whole, CallInv
<1>6. BuffersInv'
  <2>1. held[w] = NoBuffer
    BY <1>1 DEF Whole, BuffersInv, Busy
  <2>2. \A v \in Workers : held'[v] # NoBuffer =>
           state'[v] = "decode" /\ content'[held'[v]] = <<call', pos'[v]>>
    BY <1>1, <2>1 DEF Whole, BuffersInv
  <2>3. QED
    BY <1>1, <2>2 DEF Whole, BuffersInv
<1>7. DecodedInv'
  BY <1>1 DEF Whole, DecodedInv, HoldsRow
<1>8. JobsInv'
  BY TakeJobs
<1>9. RowsInv'
  <2>1. \A j \in DOMAIN msgs : /\ ToCome(j)' <=> ToCome(j)
                               /\ Dropped(j)' <=> Dropped(j)
                               /\ RowOf(last, j)' <=> RowOf(last, j)
    BY <1>1, TakeToCome, SameCall
  <2>2. QED
    BY <1>1, <2>1 DEF Whole, RowsInv
<1>10. InsertComplete'
  BY <1>1, MoveInsert
<1>11. QED
  BY <1>2, <1>4, <1>5, <1>6, <1>7, <1>8, <1>9, <1>10 DEF Whole

-----------------------------------------------------------------------------
(* The callback.                                                           *)
LEMMA InitWhole == Init => Whole
<1> SUFFICES ASSUME Init PROVE Whole
  OBVIOUS
<1>1. Inv
  BY InitInv
<1>2. TypeOK
  <2>1. /\ msgs \in Seq(Kinds) /\ first \in Seq(Rows) /\ last \in Seq(Rows)
        /\ Len(jobs) = 0 /\ Len(pool) = 0
    BY EmptySeq DEF Init
  <2>2. QED
    BY <2>1, WorkersAssumption, PoolAssumption, CallsAssumption
       DEF Init, TypeOK, CallStates, WorkerStates
<1>3. CallInv
  <2>1. pool \in Seq(Seq(Rows))
    BY EmptySeq DEF Init
  <2>2. QED
    BY <2>1 DEF Init, CallInv
<1>4. \A w \in Workers : ~Busy(w) /\ state[w] = "idle" /\ held[w] = NoBuffer
  BY DEF Init, Busy
<1>5. JobsInv /\ DecodedInv /\ RowsInv
  BY <1>4 DEF Init, JobsInv, DecodedInv, RowsInv, HoldsRow
<1>6. BuffersInv /\ InsertComplete
  BY <1>4 DEF Init, BuffersInv, InsertComplete
<1>7. QED
  BY <1>1, <1>2, <1>3, <1>5, <1>6 DEF Whole

(* Steps that leave the goroutines and their queue alone.                  *)
LEMMA QuietStep ==
  ASSUME Whole, UNCHANGED <<call, msgs, jobs, workerVars>>
  PROVE  /\ BuffersInv' /\ DecodedInv'
         /\ sent' = sent => JobsInv' /\ \A j : ToCome(j)' <=> ToCome(j)
<1>1. UNCHANGED <<state, pos, end, held, req, content>>
  BY DEF workerVars
<1>2. BuffersInv' /\ DecodedInv'
  BY <1>1 DEF Whole, BuffersInv, DecodedInv
<1>3. Split' = Split /\ \A w \in Workers : Busy(w)' <=> Busy(w)
  BY <1>1 DEF Split, Busy
<1>4. ASSUME sent' = sent PROVE JobsInv' /\ \A j : ToCome(j)' <=> ToCome(j)
  <2>1. JobsInv'
    BY <1>1, <1>3, <1>4 DEF Whole, JobsInv
  <2>2. \A j : ToCome(j)' <=> ToCome(j)
    BY <1>1, <1>3, <1>4 DEF ToCome
  <2>3. QED
    BY <2>1, <2>2
<1>5. QED
  BY <1>2, <1>4

(* Before the first job is submitted every message is to come.             *)
LEMMA CallWhole ==
  ASSUME Whole, NEW ms \in Batches, Call(ms), [Next]_vars
  PROVE  Whole'
<1>1. /\ cb = "idle" /\ call < MaxCalls /\ cb' = "submit" /\ call' = call + 1
      /\ msgs' = ms /\ sent' = 0 /\ wg' = Len(splitMessages(Len(ms)))
      /\ first' = <<>> /\ last' = <<>> /\ pool' = IF pool = <<>> THEN <<>> ELSE Tail(pool)
      /\ UNCHANGED <<result, jobs, mu, state, pos, end, held, req, content, inserted>>
  BY DEF Call, FastInsert, workerVars
<1>2. /\ ms \in Seq(Kinds) /\ Len(ms) \in Nat /\ Len(ms) > 0
  BY BatchesAssumption, EmptySeq, LenProperties
<1>3. jobs = <<>> /\ \A w \in Workers : ~Busy(w) /\ state[w] \in {"idle", "exited"}
  <2>1. jobs = <<>> /\ \A w \in Workers : ~Busy(w)
    BY <1>1 DEF Whole, Inv, NoJobAfterWait
  <2>2. QED
    BY <2>1 DEF Whole, TypeOK, WorkerStates, Busy
<1>4. Inv'
  BY NextInv DEF Whole
<1>5. pool' \in Seq(Seq(Rows)) /\ Len(pool') <= PoolSize
  <2>1. pool \in Seq(Seq(Rows)) /\ Len(pool) <= PoolSize
    BY DEF Whole, CallInv, TypeOK
  <2>2. CASE pool = <<>>
    BY <1>1, <2>1, <2>2
  <2>3. CASE pool # <<>>
    <3>1. /\ Tail(pool) \in Seq(Seq(Rows)) /\ Len(Tail(pool)) = Len(pool) - 1
          /\ Len(pool) \in Nat
      BY <2>1, <2>3, HeadTailProperties, LenProperties, EmptySeq
    <3>2. QED
      BY <1>1, <2>1, <2>3, <3>1, PoolAssumption
  <2>4. QED
    BY <2>2, <2>3
<1>6. TypeOK'
  <2>1. wg' \in 0..NumWorkers
    BY <1>1, <1>2, NumberOfIntervals, WorkersAssumption DEF Parts
  <2>2. call' \in 0..MaxCalls
    BY <1>1, CallsAssumption DEF Whole, TypeOK
  <2>3. first' \in Seq(Rows) /\ last' \in Seq(Rows)
    BY <1>1, EmptySeq
  <2>4. QED
    BY <1>1, <1>2, <1>5, <2>1, <2>2, <2>3 DEF Whole, TypeOK, CallStates
<1>7. CallInv'
  BY <1>1, <1>2, <1>5 DEF Whole, CallInv, TypeOK
<1>8. \A w \in Workers : ~Busy(w)' /\ state'[w] \notin HoldsRow /\ held'[w] = NoBuffer
  BY <1>1, <1>3 DEF Whole, BuffersInv, Busy, HoldsRow
<1>9. JobsInv' /\ DecodedInv'
  BY <1>1, <1>3, <1>8 DEF JobsInv, DecodedInv
<1>10. BuffersInv'
  BY <1>1, <1>8 DEF Whole, BuffersInv
<1>11. \A j \in DOMAIN msgs' : ToCome(j)'
  <2> TAKE j \in DOMAIN msgs'
  <2>1. /\ DOMAIN Split' = 1..Parts(Len(msgs'))
        /\ Parts(Len(msgs')) \in Nat
        /\ \E p \in DOMAIN Split' : j \in Split'[p].from..Split'[p].to
    <3>1. Len(msgs') \in Nat \ {0} /\ DOMAIN msgs' = 1..Len(msgs')
      BY <1>1, <1>2, LenProperties
    <3>2. /\ \E p \in 1..Parts(Len(msgs')) :
               j \in splitMessages(Len(msgs'))[p].from..splitMessages(Len(msgs'))[p].to
          /\ DOMAIN splitMessages(Len(msgs')) = 1..Parts(Len(msgs'))
          /\ Parts(Len(msgs')) \in Nat
      BY <3>1, IntervalsCover, SplitMessages, PartsBounds
    <3>3. QED
      BY <3>2 DEF Split
  <2>2. \A p \in DOMAIN Split' : p > sent'
    BY <1>1, <2>1
  <2>3. QED
    BY <2>1, <2>2 DEF ToCome
<1>12. RowsInv'
  BY <1>1, <1>11 DEF RowsInv
<1>13. InsertComplete'
  BY <1>1 DEF InsertComplete
<1>14. QED
  BY <1>4, <1>6, <1>7, <1>9, <1>10, <1>12, <1>13 DEF Whole

LEMMA SubmitFacts ==
  ASSUME Whole, Submit
  PROVE  /\ UNCHANGED <<call, msgs, result, wg, first, last, mu,
                        state, pos, end, held, req, content, pool, inserted>>
         /\ cb = "submit" /\ cb' \in {"submit", "wait"} /\ sent' = sent + 1
         /\ sent \in Nat /\ sent + 1 \in DOMAIN Split /\ DOMAIN Split \subseteq Nat
         /\ Len(jobs) \in Nat /\ Len(jobs) < NumWorkers /\ Len(jobs') = Len(jobs) + 1
         /\ DOMAIN jobs = 1..Len(jobs) /\ DOMAIN jobs' = 1..(Len(jobs) + 1)
         /\ \A x \in DOMAIN jobs : jobs'[x] = jobs[x]
         /\ jobs'[Len(jobs) + 1] = Split[sent + 1]
<1>1. /\ UNCHANGED <<call, msgs, result, wg, first, last, mu,
                     state, pos, end, held, req, content, pool, inserted>>
      /\ cb = "submit" /\ cb' \in {"submit", "wait"} /\ sent' = sent + 1
      /\ Len(jobs) < NumWorkers /\ jobs' = Append(jobs, Split[sent + 1])
  BY DEF Submit, Split, callVars, columnVars, workerVars, storeVars
<1>2. /\ DOMAIN Split = 1..Parts(Len(msgs)) /\ Parts(Len(msgs)) \in Nat
      /\ sent \in Nat /\ sent < Parts(Len(msgs))
  BY <1>1, SplitFacts DEF Whole, CallInv, Inv, SubmitInv
<1>3. sent + 1 \in DOMAIN Split /\ DOMAIN Split \subseteq Nat
  BY <1>2
<1>4. Split[sent + 1] \in Intervals
  BY <1>2, Lengths DEF Split, Intervals, Whole, Inv
<1>5. jobs \in Seq(Intervals)
  BY DEF Whole, Inv, Shape
<1>6. /\ Len(jobs) \in Nat /\ Len(jobs') = Len(jobs) + 1
      /\ DOMAIN jobs = 1..Len(jobs) /\ DOMAIN jobs' = 1..(Len(jobs) + 1)
      /\ \A x \in DOMAIN jobs : jobs'[x] = jobs[x]
      /\ jobs'[Len(jobs) + 1] = Split[sent + 1]
  BY <1>1, <1>4, <1>5, AppendProperties, LenProperties
<1>7. QED
  BY <1>1, <1>2, <1>3, <1>6

LEMMA SubmitJobs == ASSUME Whole, Submit PROVE JobsInv'
<1> DEFINE m == Len(jobs)
<1>1. /\ UNCHANGED <<msgs, state, pos, end>> /\ sent' = sent + 1
      /\ sent \in Nat /\ sent + 1 \in DOMAIN Split /\ DOMAIN Split \subseteq Nat
      /\ m \in Nat /\ DOMAIN jobs = 1..m /\ DOMAIN jobs' = 1..(m + 1)
      /\ \A x \in DOMAIN jobs : jobs'[x] = jobs[x]
      /\ jobs'[m + 1] = Split[sent + 1]
  BY SubmitFacts
<1> HIDE DEF m
<1>2. \A p, q \in DOMAIN Split : Split[p].to = Split[q].to => p = q
  BY SplitFacts DEF Submit, Whole, CallInv
<1>3. Split' = Split /\ \A w \in Workers : Busy(w)' <=> Busy(w)
  BY <1>1 DEF Split, Busy
<1>4. \A p \in DOMAIN Split : p <= sent => p <= sent' /\ Split[p].to # Split[sent + 1].to
  BY <1>1, <1>2
<1>5. \A x \in DOMAIN jobs' : x \in DOMAIN jobs \/ x = m + 1
  BY <1>1
<1>6. \A x \in DOMAIN jobs : jobs[x].to # Split[sent + 1].to
  BY <1>4 DEF Whole, JobsInv
<1>7. \A x \in DOMAIN jobs' : \E p \in DOMAIN Split' : p <= sent' /\ jobs'[x] = Split'[p]
  <2> TAKE x \in DOMAIN jobs'
  <2>1. CASE x \in DOMAIN jobs
    BY <1>1, <1>3, <1>4, <2>1 DEF Whole, JobsInv
  <2>2. CASE x = m + 1
    BY <1>1, <1>3, <2>2
  <2>3. QED
    BY <1>5, <2>1, <2>2
<1>8. \A x, y \in DOMAIN jobs' : jobs'[x].to = jobs'[y].to => x = y
  <2>1. \A x, y \in DOMAIN jobs : jobs[x].to = jobs[y].to => x = y
    BY DEF Whole, JobsInv
  <2>2. QED
    BY <1>1, <1>5, <1>6, <2>1
<1>9. ASSUME NEW w \in Workers, Busy(w)'
      PROVE  \E p \in DOMAIN Split' : /\ p <= sent' /\ end'[w] = Split'[p].to
                                      /\ Split'[p].from <= pos'[w] /\ pos'[w] <= end'[w] + 1
  BY <1>1, <1>3, <1>4, <1>9 DEF Whole, JobsInv
<1>10. \A w \in Workers : Busy(w) => end[w] # Split[sent + 1].to
  BY <1>4 DEF Whole, JobsInv
<1>11. \A w \in Workers : Busy(w)' => \A x \in DOMAIN jobs' : end'[w] # jobs'[x].to
  <2>1. \A w \in Workers : Busy(w) => \A x \in DOMAIN jobs : end[w] # jobs[x].to
    BY DEF Whole, JobsInv
  <2>2. QED
    BY <1>1, <1>3, <1>5, <1>10, <2>1
<1>12. /\ \A v, w \in Workers : Busy(v)' /\ Busy(w)' /\ end'[v] = end'[w] => v = w
       /\ \A w \in Workers : Busy(w)' /\ state'[w] # "run" => pos'[w] <= end'[w]
  BY <1>1, <1>3 DEF Whole, JobsInv
<1>13. QED
  BY <1>7, <1>8, <1>9, <1>11, <1>12 DEF JobsInv

LEMMA SubmitToCome == ASSUME Whole, Submit, NEW j PROVE ToCome(j)' <=> ToCome(j)
<1> DEFINE m == Len(jobs)
           In(q) == j \in q.from..q.to
           AtAWorker == \E w \in Workers : /\ Busy(w) /\ j \in pos[w]..end[w]
                                           /\ ~(state[w] = "tail" /\ j = pos[w])
<1>1. /\ UNCHANGED <<msgs, state, pos, end>> /\ sent' = sent + 1
      /\ sent \in Nat /\ sent + 1 \in DOMAIN Split /\ DOMAIN Split \subseteq Nat
      /\ m \in Nat /\ DOMAIN jobs = 1..m /\ DOMAIN jobs' = 1..(m + 1)
      /\ \A x \in DOMAIN jobs : jobs'[x] = jobs[x]
      /\ jobs'[m + 1] = Split[sent + 1]
  BY SubmitFacts
<1>2. Split' = Split /\ \A w \in Workers : Busy(w)' <=> Busy(w)
  BY <1>1 DEF Split, Busy
<1>3. ToCome(j) <=> \/ \E p \in DOMAIN Split : p > sent /\ In(Split[p])
                    \/ \E x \in DOMAIN jobs : In(jobs[x])
                    \/ AtAWorker
  BY DEF ToCome
<1>4. ToCome(j)' <=> \/ \E p \in DOMAIN Split : p > sent' /\ In(Split[p])
                     \/ \E x \in DOMAIN jobs' : In(jobs'[x])
                     \/ AtAWorker
  BY <1>1, <1>2 DEF ToCome
<1> HIDE DEF In, AtAWorker, m
<1>5. (\E x \in DOMAIN jobs' : In(jobs'[x])) <=>
        (\E x \in DOMAIN jobs : In(jobs[x])) \/ In(Split[sent + 1])
  BY <1>1
<1>6. (\E p \in DOMAIN Split : p > sent /\ In(Split[p])) <=>
        (\E p \in DOMAIN Split : p > sent' /\ In(Split[p])) \/ In(Split[sent + 1])
  BY <1>1
<1>7. QED
  BY <1>3, <1>4, <1>5, <1>6

LEMMA SubmitWhole == ASSUME Whole, Submit, [Next]_vars PROVE Whole'
<1>1. /\ UNCHANGED <<call, msgs, result, wg, first, last, mu,
                     state, pos, end, held, req, content, pool, inserted>>
      /\ cb = "submit" /\ cb' \in {"submit", "wait"} /\ sent' = sent + 1 /\ sent \in Nat
      /\ Len(jobs) \in Nat /\ Len(jobs) < NumWorkers /\ Len(jobs') = Len(jobs) + 1
  BY SubmitFacts
<1>2. Inv'
  BY NextInv DEF Whole
<1>3. TypeOK'
  <2>1. Len(jobs') <= NumWorkers /\ sent' \in Nat
    BY <1>1, WorkersAssumption
  <2>2. QED
    BY <1>1, <2>1 DEF Whole, TypeOK, CallStates
<1>4. CallInv' /\ InsertComplete'
  BY <1>1 DEF Whole, CallInv, InsertComplete
<1>5. JobsInv'
  BY SubmitJobs
<1>6. BuffersInv' /\ DecodedInv'
  BY <1>1 DEF Whole, BuffersInv, DecodedInv
<1>7. RowsInv'
  <2>1. \A j \in DOMAIN msgs : /\ ToCome(j)' <=> ToCome(j)
                               /\ Dropped(j)' <=> Dropped(j)
                               /\ RowOf(last, j)' <=> RowOf(last, j)
    BY <1>1, SubmitToCome, SameCall
  <2>2. QED
    BY <1>1, <2>1 DEF Whole, RowsInv
<1>8. QED
  BY <1>2, <1>3, <1>4, <1>5, <1>6, <1>7 DEF Whole

LEMMA WaitWhole == ASSUME Whole, Wait, [Next]_vars PROVE Whole'
<1>1. /\ UNCHANGED <<call, msgs, result, sent, jobs, wg, first, last, mu,
                     workerVars, pool, inserted>>
      /\ cb = "wait" /\ cb' = "flush"
  BY DEF Wait, callVars, columnVars, storeVars
<1>2. Inv'
  BY NextInv DEF Whole
<1>3. TypeOK'
  BY <1>1 DEF Whole, TypeOK, CallStates, workerVars
<1>4. CallInv' /\ InsertComplete'
  BY <1>1 DEF Whole, CallInv, InsertComplete, Inv, SubmitInv
<1>5. BuffersInv' /\ DecodedInv' /\ JobsInv' /\ \A j : ToCome(j)' <=> ToCome(j)
  BY <1>1, QuietStep
<1>6. RowsInv'
  <2>1. \A j \in DOMAIN msgs : /\ Dropped(j)' <=> Dropped(j)
                               /\ RowOf(last, j)' <=> RowOf(last, j)
    BY <1>1, SameCall
  <2>2. QED
    BY <1>1, <1>5, <2>1 DEF Whole, RowsInv
<1>7. QED
  BY <1>2, <1>3, <1>4, <1>5, <1>6 DEF Whole

(* What is flushed: nothing is to come any more.                           *)
LEMMA FlushComplete == ASSUME Whole, Flush PROVE InsertComplete'
<1>1. /\ cb = "flush" /\ inserted' = [first |-> first, last |-> last]
      /\ UNCHANGED <<call, msgs>>
  BY DEF Flush
<1>2. jobs = <<>> /\ \A w \in Workers : ~Busy(w)
  BY <1>1 DEF Whole, Inv, NoJobAfterWait
<1>3. DOMAIN jobs = {}
  BY <1>2
<1>4. \A p \in DOMAIN Split : ~(p > sent)
  <2>1. /\ DOMAIN Split = 1..Parts(Len(msgs)) /\ Parts(Len(msgs)) \in Nat
        /\ sent = Parts(Len(msgs))
    BY <1>1, SplitFacts DEF Whole, CallInv
  <2>2. QED
    BY <2>1
<1>5. \A j : ~ToCome(j)
  BY <1>2, <1>3, <1>4 DEF ToCome
<1>6. /\ \A r \in DOMAIN last :
           \E j \in DOMAIN msgs : last[r] = <<call, j>> /\ msgs[j] # "bad"
      /\ \A r1, r2 \in DOMAIN last : last[r1] = last[r2] => r1 = r2
      /\ \A j \in DOMAIN msgs : RowOf(last, j) \/ Dropped(j)
  BY <1>1, <1>5 DEF Whole, RowsInv
<1>7. \A r \in DOMAIN last : last[r][1] = call /\ msgs[last[r][2]] # "bad"
  BY <1>6
<1>8. inserted'.last = last
  BY <1>1
<1>9. QED
  BY <1>1, <1>6, <1>7, <1>8 DEF InsertComplete, RowOf, Dropped, SameJob

LEMMA FinishWhole == ASSUME Whole, Flush \/ Put \/ Close, [Next]_vars PROVE Whole'
<1>1. /\ UNCHANGED <<call, msgs, sent, jobs, wg, first, last, mu, workerVars>>
      /\ cb \in {"flush", "put", "idle"} /\ cb' \in {"put", "idle", "closed"}
      /\ result' \in {result, "ok", "error"}
      /\ cb = "flush" <=> cb' = "put"
      /\ \/ pool' = pool
         \/ Len(pool) < PoolSize /\ pool' = Append(pool, first)
  BY DEF Flush, Put, Close, callVars, columnVars, storeVars
<1>2. Inv'
  BY NextInv DEF Whole
<1>3. pool' \in Seq(Seq(Rows)) /\ Len(pool') <= PoolSize
  <2>1. /\ pool \in Seq(Seq(Rows)) /\ Len(pool) <= PoolSize /\ Len(pool) \in Nat
        /\ first \in Seq(Rows)
    BY LenProperties DEF Whole, CallInv, TypeOK
  <2>2. /\ Append(pool, first) \in Seq(Seq(Rows))
        /\ Len(Append(pool, first)) = Len(pool) + 1
    BY <2>1, AppendProperties
  <2>3. QED
    BY <1>1, <2>1, <2>2, PoolAssumption
<1>4. TypeOK'
  BY <1>1, <1>3 DEF Whole, TypeOK, CallStates, workerVars
<1>5. CallInv'
  BY <1>1, <1>3 DEF Whole, CallInv
<1>6. BuffersInv' /\ DecodedInv' /\ JobsInv'
  BY <1>1, QuietStep
<1>7. RowsInv'
  BY <1>1 DEF RowsInv
<1>8. InsertComplete'
  <2>1. CASE Flush
    BY <2>1, FlushComplete
  <2>2. CASE ~Flush
    BY <1>1, <2>2 DEF Put, Close, InsertComplete
  <2>3. QED
    BY <2>1, <2>2
<1>9. QED
  BY <1>2, <1>4, <1>5, <1>6, <1>7, <1>8 DEF Whole

LEMMA StutterWhole == ASSUME Whole, UNCHANGED vars PROVE Whole'
<1>1. UNCHANGED <<cb, call, msgs, result, sent, jobs, wg, first, last, mu,
                  workerVars, pool, inserted>>
  BY DEF vars, workerVars
<1>2. Inv'
  BY NextInv DEF Whole
<1>3. TypeOK' /\ CallInv'
  BY <1>1 DEF Whole, TypeOK, CallInv, workerVars
<1>4. InsertComplete'
  BY <1>1, MoveInsert
<1>5. BuffersInv' /\ DecodedInv' /\ JobsInv' /\ \A j : ToCome(j)' <=> ToCome(j)
  BY <1>1, QuietStep
<1>6. RowsInv'
  <2>1. \A j \in DOMAIN msgs : /\ Dropped(j)' <=> Dropped(j)
                               /\ RowOf(last, j)' <=> RowOf(last, j)
    BY <1>1, SameCall
  <2>2. QED
    BY <1>1, <1>5, <2>1 DEF Whole, RowsInv
<1>7. QED
  BY <1>2, <1>3, <1>4, <1>5, <1>6 DEF Whole

LEMMA NextWhole == Whole /\ [Next]_vars => Whole'
<1> SUFFICES ASSUME Whole, [Next]_vars PROVE Whole'
  OBVIOUS
<1>1. CASE Callback
  BY <1>1, CallWhole, SubmitWhole, WaitWhole, FinishWhole DEF Callback
<1>2. ASSUME NEW w \in Workers, Worker(w) PROVE Whole'
  BY <1>2, TakeWhole, DecompressWhole, SkipWhole, DecodeWhole, LockWhole,
     AppendLastWhole, PanicWhole, DoneWhole DEF Worker
<1>3. CASE Finished \/ UNCHANGED vars
  BY <1>3, StutterWhole DEF Finished
<1>4. QED
  BY <1>1, <1>2, <1>3 DEF Next

-----------------------------------------------------------------------------
(* Nobody waits for ever for somebody who waits.                           *)

(* The guards of the callback and of the goroutines, before Close.         *)
CallbackCan == \/ cb = "submit" /\ Len(jobs) < NumWorkers
               \/ cb = "wait" /\ wg = 0
               \/ cb \in {"flush", "put"}
WorkerCan(w) ==
  \/ state[w] = "idle" /\ jobs # <<>>
  \/ state[w] \in {"run", "append", "unlock"}
  \/ Working(w, "decode")
  \/ state[w] = "decoded" /\ mu = NoOne
  \/ Working(w, "tail") /\ Kind(w) = "panic"

SomebodyCan ==
  cb \in {"submit", "wait", "flush", "put"} =>
    CallbackCan \/ \E w \in Workers : WorkerCan(w)

(* A goroutine leaves only after Close, and stays behind a payload only to *)
(* panic on it.                                                            *)
EndInv ==
  /\ \A w \in Workers : state[w] = "exited" => cb = "closed"
  /\ \A w \in Workers : state[w] = "tail" => Kind(w) = "panic"

LEMMA EndInvHolds == Whole /\ EndInv /\ [Next]_vars => EndInv'
<1> SUFFICES ASSUME Whole, EndInv, [Next]_vars PROVE EndInv'
  OBVIOUS
<1>1. \A w \in Workers : state[w] = "tail" => Busy(w)
  BY DEF Busy
<1>2. ASSUME Callback PROVE EndInv'
  <2>1. CASE cb = "idle"
    <3>1. \A w \in Workers : state[w] # "tail"
      BY <1>1, <2>1 DEF Whole, Inv, NoJobAfterWait
    <3>2. UNCHANGED state
      BY <1>2 DEF Callback, Call, Submit, Wait, Flush, Put, Close, workerVars
    <3>3. \A w \in Workers : state[w] # "exited"
      BY <2>1 DEF EndInv
    <3>4. QED
      BY <3>1, <3>2, <3>3 DEF EndInv
  <2>2. CASE cb # "idle"
    <3>1. UNCHANGED <<msgs, state, pos>> /\ cb # "closed"
      BY <1>2, <2>2 DEF Callback, Call, Submit, Wait, Flush, Put, Close, callVars, workerVars
    <3>2. QED
      BY <3>1 DEF EndInv, Kind
  <2>3. QED
    BY <2>1, <2>2
<1>3. ASSUME NEW w \in Workers, Worker(w) PROVE EndInv'
  <2>1. /\ UNCHANGED <<cb, msgs>>
        /\ \A v \in Workers : v # w => state'[v] = state[v] /\ pos'[v] = pos[v]
    BY <1>3 DEF Worker, Take, Decompress, Skip, Decode, Lock, AppendFirst, AppendLast,
                Panic, Done, Leave, callVars, Whole, TypeOK
  <2>2. state'[w] = "exited" => cb = "closed"
    BY <1>3 DEF Worker, Take, Decompress, Skip, Decode, Lock, AppendFirst, AppendLast,
                Panic, Done, Leave, Whole, TypeOK
  <2>3. state'[w] = "tail" => AppendLast(w) /\ msgs[pos[w]] = "panic" /\ pos' = pos
    BY <1>3 DEF Worker, Take, Decompress, Skip, Decode, Lock, AppendFirst, AppendLast,
                Panic, Done, Leave, Whole, TypeOK, Kind
  <2>4. QED
    BY <2>1, <2>2, <2>3 DEF EndInv, Kind
<1>4. CASE Finished \/ UNCHANGED vars
  BY <1>4 DEF Finished, vars, EndInv, Kind
<1>5. QED
  BY <1>2, <1>3, <1>4 DEF Next

LEMMA SomebodyCanHolds == Whole /\ EndInv => SomebodyCan
<1> SUFFICES ASSUME Whole, EndInv, cb \in {"submit", "wait"}, ~CallbackCan
             PROVE  \E w \in Workers : WorkerCan(w)
  BY DEF SomebodyCan, CallbackCan
<1>1. ASSUME NEW w \in Workers, Busy(w) PROVE \E v \in Workers : WorkerCan(v)
  <2>1. CASE state[w] = "decoded" /\ mu # NoOne
    <3>1. mu \in Workers /\ state[mu] \in {"append", "unlock"}
      BY <2>1 DEF Whole, TypeOK, Inv, MutexInv
    <3>2. QED
      BY <3>1 DEF WorkerCan
  <2>2. CASE ~(state[w] = "decoded" /\ mu # NoOne)
    <3>1. state[w] \in {"decode", "tail"} => pos[w] <= end[w]
      BY <1>1 DEF Whole, JobsInv
    <3>2. WorkerCan(w)
      BY <1>1, <2>2, <3>1 DEF WorkerCan, Busy, Working, EndInv
    <3>3. QED
      BY <3>2
  <2>3. QED
    BY <2>1, <2>2
<1>2. CASE jobs # <<>>
  <2>1. 1 \in Workers
    BY WorkersAssumption DEF Workers
  <2>2. CASE Busy(1)
    BY <1>1, <2>1, <2>2
  <2>3. CASE ~Busy(1)
    <3>1. state[1] = "idle"
      BY <2>1, <2>3 DEF Whole, TypeOK, WorkerStates, Busy, EndInv
    <3>2. QED
      BY <1>2, <2>1, <3>1 DEF WorkerCan
  <2>4. QED
    BY <2>2, <2>3
<1>3. CASE jobs = <<>>
  <2>1. Len(jobs) = 0 /\ 0 < NumWorkers
    BY <1>3, WorkersAssumption
  <2>2. cb = "wait" /\ wg # 0
    BY <2>1 DEF CallbackCan
  <2>3. Cardinality(BusyWorkers) # 0
    <3>1. wg = Len(splitMessages(Len(msgs))) - sent + Len(jobs) + Cardinality(BusyWorkers)
      BY <2>2 DEF Whole, Inv, NoJobAfterWait, BusyWorkers
    <3>2. sent = Parts(Len(msgs))
      BY <2>2 DEF Whole, Inv, SubmitInv
    <3>3. Len(splitMessages(Len(msgs))) = Parts(Len(msgs)) /\ Parts(Len(msgs)) \in Nat
      BY Lengths, NumberOfIntervals DEF Whole, Inv
    <3>4. QED
      BY <2>1, <2>2, <3>1, <3>2, <3>3, BusyFinite
  <2>4. QED
    BY <1>1, <2>3, BusyFinite
<1>4. QED
  BY <1>2, <1>3

-----------------------------------------------------------------------------
(* The theorems                                                            *)

(* The invariant: shapes, submitting, counting jobs and the mutex.         *)
THEOREM Invariance == Spec => []Inv
<1>1. Init => Inv
  BY InitInv
<1>2. Inv /\ [Next]_vars => Inv'
  BY NextInv
<1>3. QED
  BY <1>1, <1>2, PTL DEF Spec

(* wg of ConsumeCallback: past the wait no job is queued or running.       *)
THEOREM WaitCoversJobs == Spec => []NoJobAfterWait
<1>1. Inv => NoJobAfterWait
  BY DEF Inv
<1>2. QED
  BY <1>1, Invariance, PTL

(* The mutex of Append: the columns of an insert are aligned.              *)
THEOREM Alignment == Spec => []RowsAligned
<1>1. Inv => RowsAligned
  BY DEF Inv
<1>2. QED
  BY <1>1, Invariance, PTL

(* The invariant that also says where every message of the call is.        *)
THEOREM WholeInvariance == Spec => []Whole
<1>1. Init => Whole
  BY InitWhole
<1>2. Whole /\ [Next]_vars => Whole'
  BY NextWhole
<1>3. QED
  BY <1>1, <1>2, PTL DEF Spec

(* Shapes, the capacities of the jobs channel and of the batch pool, and a *)
(* wait group that never goes below zero.                                  *)
THEOREM TypeCorrect == Spec => []TypeOK
<1>1. Whole => TypeOK
  BY DEF Whole
<1>2. QED
  BY <1>1, WholeInvariance, PTL

(* An insert holds the rows of its call, once each, and misses only what   *)
(* does not decode or comes after a panic in the same job.                 *)
THEOREM InsertHoldsTheCall == Spec => []InsertComplete
<1>1. Whole => InsertComplete
  BY DEF Whole
<1>2. QED
  BY <1>1, WholeInvariance, PTL

(* While a call is in progress somebody can go on: who waits for the mutex *)
(* has a holder who does not, who waits for wg has a job that is queued or *)
(* at work, and a full queue has a goroutine that takes from it.           *)
THEOREM NeverStuck == Spec => []SomebodyCan
<1>1. Init => EndInv
  BY DEF Init, EndInv
<1>2. QED
  BY <1>1, EndInvHolds, SomebodyCanHolds, WholeInvariance, PTL DEF Spec

(* splitMessages: every message is in exactly one interval, and the        *)
(* lengths of two intervals differ by at most one.                         *)
THEOREM SplitPartitions ==
  ASSUME NEW n \in Nat \ {0}
  PROVE  /\ Len(splitMessages(n)) = Parts(n)
         /\ \A m \in 1..n : \E i \in 1..Parts(n) :
              /\ m \in splitMessages(n)[i].from..splitMessages(n)[i].to
              /\ \A j \in 1..Parts(n) :
                   m \in splitMessages(n)[j].from..splitMessages(n)[j].to => j = i
         /\ \A i, j \in 1..Parts(n) :
              Size(n, i) <= Size(n, j) + 1
         /\ \A i \in 1..Parts(n) :
              splitMessages(n)[i].to - splitMessages(n)[i].from + 1 = Size(n, i)
<1>1. Len(splitMessages(n)) = Parts(n)
  BY NumberOfIntervals
<1>2. \A i \in 1..Parts(n) :
        /\ splitMessages(n)[i].from \in Nat /\ splitMessages(n)[i].to \in Nat
        /\ splitMessages(n)[i].from <= splitMessages(n)[i].to
  BY IntervalBounds
<1>3. Parts(n) \in Nat
  BY PartsBounds
<1>4. ASSUME NEW m \in 1..n
      PROVE  \E i \in 1..Parts(n) :
               /\ m \in splitMessages(n)[i].from..splitMessages(n)[i].to
               /\ \A j \in 1..Parts(n) :
                    m \in splitMessages(n)[j].from..splitMessages(n)[j].to => j = i
  <2>1. PICK i \in 1..Parts(n) : m \in splitMessages(n)[i].from..splitMessages(n)[i].to
    BY IntervalsCover
  <2>2. ASSUME NEW j \in 1..Parts(n), j # i,
               m \in splitMessages(n)[j].from..splitMessages(n)[j].to
        PROVE  FALSE
    <3>1. \/ splitMessages(n)[i].to < splitMessages(n)[j].from
          \/ splitMessages(n)[j].to < splitMessages(n)[i].from
      BY <1>3, <2>2, IntervalsDisjoint
    <3>2. QED
      BY <1>2, <2>1, <2>2, <3>1
  <2>3. QED
    BY <2>1, <2>2
<1>5. \A i, j \in 1..Parts(n) : Size(n, i) <= Size(n, j) + 1
  <2> DEFINE q == n \div Parts(n)
  <2>1. q \in Nat
    BY Division
  <2>2. \A i : Size(n, i) = q \/ Size(n, i) = q + 1
    <3>1. q + 0 = q
      BY <2>1
    <3>2. \A i : Size(n, i) = q + 0 \/ Size(n, i) = q + 1
      BY DEF Size
    <3>3. QED
      BY <3>1, <3>2
  <2> HIDE DEF q
  <2>3. QED
    BY <2>1, <2>2
<1>6. ASSUME NEW i \in 1..Parts(n)
      PROVE  splitMessages(n)[i].to - splitMessages(n)[i].from + 1 = Size(n, i)
  <2>1. i \in Nat \ {0}
    BY <1>3
  <2>2. /\ splitMessages(n)[i] = [from |-> StartOf(n, i), to |-> StartOf(n, i) + Size(n, i) - 1]
        /\ StartOf(n, i) \in Nat /\ Size(n, i) \in Nat
    BY <2>1, SplitMessages, NextStart
  <2>3. QED
    BY <2>2
<1>7. QED
  BY <1>1, <1>4, <1>5, <1>6
=============================================================================

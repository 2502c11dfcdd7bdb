------------------------------ MODULE WorkerPool ------------------------------
(***************************************************************************)
(* The insert callback of the worker (worker/worker.go) and the column     *)
(* batch it fills (storage/insert.go, pool/pool.go).  One call splits the  *)
(* messages of a batch into intervals, submits one job per interval to a   *)
(* fixed set of goroutines, waits for all jobs, and inserts what they      *)
(* appended.  ConsumeLogs makes one call at a time.                        *)
(*                                                                         *)
(* A payload is a "log" (one row), "bad" (does not decompress or decode)   *)
(* or "panic" (the job panics on it, before or after its row).  A row is   *)
(* named by its call and index.  A compressed payload is decompressed into *)
(* a pooled buffer, from which it is decoded.  Of the fifteen columns two  *)
(* are kept: the first one Append writes and the last one.                 *)
(***************************************************************************)
EXTENDS Integers, Sequences, FiniteSets

CONSTANTS NumWorkers,  \* WORKER_COUNT
          PoolSize,    \* DB_BATCH_POOL_SIZE
          Batches,     \* the payload sequences a call may get
          MaxCalls     \* bound: calls of the callback

Kinds == {"log", "bad", "panic"}

ASSUME WorkersAssumption == NumWorkers \in Nat \ {0}
ASSUME PoolAssumption    == PoolSize \in Nat
ASSUME BatchesAssumption == Batches \subseteq Seq(Kinds) \ {<<>>}
ASSUME CallsAssumption   == MaxCalls \in Nat

Workers == 1..NumWorkers
NoOne   == 0

Buffers  == 1..NumWorkers   \* a worker has one at a time
NoBuffer == 0
NoRow    == <<0, 0>>

VARIABLES
  \* the callback
  cb,       \* where the callback is
  call,     \* number of the call
  msgs,     \* payloads of the call
  sent,     \* jobs submitted so far
  result,   \* what the last call returned
  \* shared between the callback and the goroutines
  jobs,     \* the jobs channel
  wg,       \* counter of the wait group
  first,    \* first column of the batch in use
  last,     \* last column of the batch in use
  mu,       \* holder of the appender's mutex
  \* the goroutines
  state,    \* where each worker is
  pos,      \* index of the payload each worker is at
  end,      \* last index of its interval
  held,     \* the buffer it decompressed its payload into
  req,      \* what it decoded
  content,  \* what the buffers hold; NoRow in the pool
  \* the column batch pool and the database
  pool,     \* stale columns of the pooled batches
  inserted  \* the columns of the last insert

callVars   == <<call, msgs, result>>
workerVars == <<state, pos, end, held, req, content>>
decodeVars == <<held, req, content>>
columnVars == <<first, last>>
storeVars  == <<pool, inserted>>
vars == <<cb, call, msgs, sent, result, jobs, wg, first, last, mu,
          state, pos, end, held, req, content, pool, inserted>>

CallStates   == {"idle", "submit", "wait", "flush", "put", "closed"}
WorkerStates == {"idle", "run", "decode", "decoded", "append", "unlock", "tail", "exited"}
Rows == (1..MaxCalls) \X Nat

Init ==
  /\ cb = "idle"
  /\ call = 0
  /\ msgs = <<>>
  /\ sent = 0
  /\ result = "none"
  /\ jobs = <<>>
  /\ wg = 0
  /\ first = <<>>
  /\ last = <<>>
  /\ mu = NoOne
  /\ state = [w \in Workers |-> "idle"]
  /\ pos = [w \in Workers |-> 1]
  /\ end = [w \in Workers |-> 0]
  /\ held = [w \in Workers |-> NoBuffer]
  /\ req = [w \in Workers |-> NoRow]
  /\ content = [b \in Buffers |-> NoRow]
  /\ pool = <<>>
  /\ inserted = <<>>

-----------------------------------------------------------------------------
(* splitMessages: the first n % k of k = min(n, workers) intervals get one  *)
(* message more.  The code's [start, end) with indices from 0 is from..to   *)
(* here, with indices from 1.                                               *)

Parts(n) == IF n < NumWorkers THEN n ELSE NumWorkers

(* Slip: the remainder is left to the last interval, which does not get it. *)
SizeWithoutRemainder(n, i) == n \div Parts(n)

Size(n, i) == n \div Parts(n) + (IF i <= n % Parts(n) THEN 1 ELSE 0)

splitMessages(n) ==
  LET from[i \in 1..Parts(n)] == IF i = 1 THEN 1 ELSE from[i - 1] + Size(n, i - 1)
  IN  [i \in 1..Parts(n) |-> [from |-> from[i], to |-> from[i] + Size(n, i) - 1]]

-----------------------------------------------------------------------------
(* The callback *)

(* Slip: the batch taken from the pool keeps its rows. *)
FastInsertStale ==
  IF pool = <<>>
  THEN first' = <<>> /\ last' = <<>> /\ UNCHANGED pool
  ELSE first' = Head(pool) /\ last' = Head(pool) /\ pool' = Tail(pool)

(* Get a batch, Reset it, ensure its size. *)
FastInsert ==
  /\ first' = <<>>
  /\ last' = <<>>
  /\ pool' = IF pool = <<>> THEN <<>> ELSE Tail(pool)

Call(ms) ==
  /\ cb = "idle"
  /\ call < MaxCalls
  /\ cb' = "submit"
  /\ call' = call + 1
  /\ msgs' = ms
  /\ sent' = 0
  /\ wg' = Len(splitMessages(Len(ms)))
  /\ FastInsert
  /\ UNCHANGED <<result, jobs, mu, workerVars, inserted>>

Submit ==
  /\ cb = "submit"
  /\ Len(jobs) < NumWorkers
  /\ jobs' = Append(jobs, splitMessages(Len(msgs))[sent + 1])
  /\ sent' = sent + 1
  /\ cb' = IF sent + 1 = Len(splitMessages(Len(msgs))) THEN "wait" ELSE "submit"
  /\ UNCHANGED <<callVars, wg, columnVars, mu, workerVars, storeVars>>

(* Slip: no wg.Wait(). *)
WaitForNobody ==
  /\ cb = "wait"
  /\ cb' = "flush"
  /\ UNCHANGED <<callVars, sent, jobs, wg, columnVars, mu, workerVars, storeVars>>

Wait ==
  /\ cb = "wait"
  /\ wg = 0
  /\ cb' = "flush"
  /\ UNCHANGED <<callVars, sent, jobs, wg, columnVars, mu, workerVars, storeVars>>

(* insertRecords sends the columns; it may fail. *)
Flush ==
  /\ cb = "flush"
  /\ cb' = "put"
  /\ result' \in {"ok", "error"}
  /\ inserted' = [first |-> first, last |-> last]
  /\ UNCHANGED <<call, msgs, sent, jobs, wg, columnVars, mu, workerVars, pool>>

(* The deferred Put: kept unless the batch grew beyond the row limit or    *)
(* the pool is full.                                                       *)
Put ==
  /\ cb = "put"
  /\ cb' = "idle"
  /\ \/ Len(pool) < PoolSize /\ pool' = Append(pool, first)
     \/ pool' = pool
  /\ UNCHANGED <<callVars, sent, jobs, wg, columnVars, mu, workerVars, inserted>>

(* WorkerPool.Close, deferred in main until ConsumeLogs has returned. *)
Close ==
  /\ cb = "idle"
  /\ cb' = "closed"
  /\ UNCHANGED <<callVars, sent, jobs, wg, columnVars, mu, workerVars, storeVars>>

-----------------------------------------------------------------------------
(* The goroutines *)

Kind(w) == msgs[pos[w]]

Take(w) ==
  /\ state[w] = "idle"
  /\ jobs # <<>>
  /\ state' = [state EXCEPT ![w] = "run"]
  /\ pos' = [pos EXCEPT ![w] = Head(jobs).from]
  /\ end' = [end EXCEPT ![w] = Head(jobs).to]
  /\ jobs' = Tail(jobs)
  /\ UNCHANGED <<cb, callVars, sent, wg, columnVars, mu, decodeVars, storeVars>>

Working(w, at) == state[w] = at /\ pos[w] <= end[w]

(* The buffer returns to the pool, or is lost with a panic, when the pool  *)
(* makes another in its place.                                             *)
Release(w) ==
  /\ held' = [held EXCEPT ![w] = NoBuffer]
  /\ content' = IF held[w] = NoBuffer THEN content ELSE [content EXCEPT ![held[w]] = NoRow]

(* An uncompressed payload is used as it is. *)
Decompress(w) ==
  /\ Working(w, "run")
  /\ state' = [state EXCEPT ![w] = "decode"]
  /\ \/ LET b == CHOOSE b \in Buffers : content[b] = NoRow
        IN  /\ held' = [held EXCEPT ![w] = b]
            /\ content' = [content EXCEPT ![b] = <<call, pos[w]>>]
     \/ UNCHANGED <<held, content>>
  /\ UNCHANGED <<cb, callVars, sent, jobs, wg, columnVars, mu, pos, end, req, storeVars>>

(* Decompress or decode error: logged and skipped. *)
Skip(w) ==
  /\ Working(w, "run") \/ Working(w, "decode")
  /\ Kind(w) = "bad"
  /\ Release(w)
  /\ state' = [state EXCEPT ![w] = "run"]
  /\ pos' = [pos EXCEPT ![w] = @ + 1]
  /\ UNCHANGED <<cb, callVars, sent, jobs, wg, columnVars, mu, end, req, storeVars>>

Decode(w) ==
  /\ Working(w, "decode") /\ Kind(w) # "bad"
  /\ req' = [req EXCEPT ![w] = IF held[w] = NoBuffer THEN <<call, pos[w]>> ELSE content[held[w]]]
  /\ Release(w)
  /\ state' = [state EXCEPT ![w] = "decoded"]
  /\ UNCHANGED <<cb, callVars, sent, jobs, wg, columnVars, mu, pos, end, storeVars>>

(* Slip: Append does not take the mutex. *)
LockNothing(w) ==
  /\ state[w] = "decoded"
  /\ state' = [state EXCEPT ![w] = "append"]
  /\ UNCHANGED <<cb, callVars, sent, jobs, wg, columnVars, mu, pos, end, decodeVars, storeVars>>

Lock(w) ==
  /\ state[w] = "decoded"
  /\ mu = NoOne
  /\ mu' = w
  /\ state' = [state EXCEPT ![w] = "append"]
  /\ UNCHANGED <<cb, callVars, sent, jobs, wg, columnVars, pos, end, decodeVars, storeVars>>

AppendFirst(w) ==
  /\ state[w] = "append"
  /\ first' = Append(first, req[w])
  /\ state' = [state EXCEPT ![w] = "unlock"]
  /\ UNCHANGED <<cb, callVars, sent, jobs, wg, last, mu, pos, end, decodeVars, storeVars>>

AppendLast(w) ==
  /\ state[w] = "unlock"
  /\ last' = Append(last, req[w])
  /\ mu' = NoOne
  /\ req' = [req EXCEPT ![w] = NoRow]
  /\ IF Kind(w) = "panic"
     THEN state' = [state EXCEPT ![w] = "tail"] /\ UNCHANGED pos
     ELSE state' = [state EXCEPT ![w] = "run"] /\ pos' = [pos EXCEPT ![w] = @ + 1]
  /\ UNCHANGED <<cb, callVars, sent, jobs, wg, first, end, held, content, storeVars>>

(* Slip: wg.Done is not deferred, so a panic skips it. *)
PanicWithoutDone(w) ==
  /\ Working(w, "decode") \/ Working(w, "tail")
  /\ Kind(w) = "panic"
  /\ Release(w)
  /\ state' = [state EXCEPT ![w] = "idle"]
  /\ UNCHANGED <<cb, callVars, sent, jobs, wg, columnVars, mu, pos, end, req, storeVars>>

(* The job panics; wg.Done is deferred and runSafely recovers.  The rest   *)
(* of the interval is not processed.                                       *)
Panic(w) ==
  /\ Working(w, "decode") \/ Working(w, "tail")
  /\ Kind(w) = "panic"
  /\ Release(w)
  /\ wg' = wg - 1
  /\ state' = [state EXCEPT ![w] = "idle"]
  /\ UNCHANGED <<cb, callVars, sent, jobs, columnVars, mu, pos, end, req, storeVars>>

(* Slip: wg.Done at the end of the job and deferred. *)
DoneTwice(w) ==
  /\ state[w] = "run"
  /\ pos[w] > end[w]
  /\ wg' = wg - 2
  /\ state' = [state EXCEPT ![w] = "idle"]
  /\ UNCHANGED <<cb, callVars, sent, jobs, columnVars, mu, pos, end, decodeVars, storeVars>>

Done(w) ==
  /\ state[w] = "run"
  /\ pos[w] > end[w]
  /\ wg' = wg - 1
  /\ state' = [state EXCEPT ![w] = "idle"]
  /\ UNCHANGED <<cb, callVars, sent, jobs, columnVars, mu, pos, end, decodeVars, storeVars>>

(* The range over the closed channel ends. *)
Leave(w) ==
  /\ cb = "closed"
  /\ state[w] = "idle"
  /\ jobs = <<>>
  /\ state' = [state EXCEPT ![w] = "exited"]
  /\ UNCHANGED <<cb, callVars, sent, jobs, wg, columnVars, mu, pos, end, decodeVars, storeVars>>

-----------------------------------------------------------------------------
Callback == (\E ms \in Batches : Call(ms)) \/ Submit \/ Wait \/ Flush \/ Put \/ Close

Worker(w) == \/ Take(w) \/ Decompress(w) \/ Skip(w) \/ Decode(w) \/ Lock(w)
             \/ AppendFirst(w) \/ AppendLast(w) \/ Panic(w) \/ Done(w) \/ Leave(w)

Finished == cb = "closed" /\ (\A w \in Workers : state[w] = "exited") /\ UNCHANGED vars

Next == Callback \/ (\E w \in Workers : Worker(w)) \/ Finished

(* The goroutines are scheduled; the flush returns (3 s timeout).  A mutex *)
(* that is released again and again is obtained in the end: Go's mutex     *)
(* hands itself to a waiter that has starved for a millisecond.            *)
Fairness ==
  /\ WF_vars(Submit) /\ WF_vars(Wait) /\ WF_vars(Flush) /\ WF_vars(Put)
  /\ \A w \in Workers : WF_vars(Worker(w)) /\ SF_vars(Lock(w))

Spec == Init /\ [][Next]_vars /\ Fairness

-----------------------------------------------------------------------------
(* Properties *)

(* Type invariant, with the capacities of the jobs channel and the pool;   *)
(* the wait group never goes below zero (which would panic).               *)
TypeOK ==
  /\ cb \in CallStates
  /\ call \in 0..MaxCalls
  /\ msgs \in Seq(Kinds)
  /\ sent \in Nat
  /\ result \in {"none", "ok", "error"}
  /\ Len(jobs) <= NumWorkers
  /\ wg \in 0..NumWorkers
  /\ first \in Seq(Rows) /\ last \in Seq(Rows)
  /\ mu \in Workers \cup {NoOne}
  /\ state \in [Workers -> WorkerStates]
  /\ pos \in [Workers -> Nat] /\ end \in [Workers -> Nat]
  /\ held \in [Workers -> Buffers \cup {NoBuffer}]
  /\ req \in [Workers -> Rows \cup {NoRow}] /\ content \in [Buffers -> Rows \cup {NoRow}]
  /\ Len(pool) <= PoolSize

Busy(w) == state[w] \in {"run", "decode", "decoded", "append", "unlock", "tail"}

(* The wait group counts exactly the jobs still to finish, so the flush     *)
(* and the return of the batch to the pool never overlap with an Append:   *)
(* once the callback is past wg.Wait, no job is queued or running.          *)
NoJobAfterWait ==
  /\ cb \in {"flush", "put", "idle", "closed"} =>
       jobs = <<>> /\ \A w \in Workers : ~Busy(w)
  /\ cb \in {"submit", "wait"} =>
       wg = Len(splitMessages(Len(msgs))) - sent
            + Len(jobs) + Cardinality({w \in Workers : Busy(w)})

(* Every column of an insert names the same rows in the same order, though *)
(* several goroutines append column by column (Append is "thread safe").   *)
RowsAligned == inserted # <<>> => inserted.first = inserted.last

(* What one insert holds (the contract ConsumeLogs relies on when it Acks  *)
(* the whole batch): rows of this call only, none twice, none of an        *)
(* undecodable payload, and every payload that is missing is undecodable   *)
(* or comes after, or is, a payload whose panic ended the same job.        *)
RowOf(s, i) == \E r \in DOMAIN s : s[r] = <<call, i>>
SameJob(i, j) ==
  \E p \in DOMAIN splitMessages(Len(msgs)) :
    {i, j} \subseteq splitMessages(Len(msgs))[p].from..splitMessages(Len(msgs))[p].to
InsertComplete ==
  cb = "put" =>
    LET s == inserted.last IN
    /\ \A r \in DOMAIN s : s[r][1] = call /\ msgs[s[r][2]] # "bad"
    /\ \A r1, r2 \in DOMAIN s : s[r1] = s[r2] => r1 = r2
    /\ \A i \in DOMAIN msgs : RowOf(s, i)
         \/ msgs[i] = "bad"
         \/ \E j \in 1..i : msgs[j] = "panic" /\ SameJob(i, j)

(* Every call returns, also when jobs panic, and the next can start: no    *)
(* goroutine is lost, no lock is left behind.                              *)
CallReturns == cb = "submit" ~> cb = "idle"
=============================================================================

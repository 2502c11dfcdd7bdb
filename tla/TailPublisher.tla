----------------------------- MODULE TailPublisher -----------------------------
(***************************************************************************)
(* The live tail publisher of the worker (worker/publish.go): jobs of the  *)
(* worker pool enqueue logs, publisher goroutines send them to core NATS.  *)
(* Payloads are marshalled into pooled buffers that travel through the     *)
(* queue; a buffer is named, and what it holds is kept apart from the log  *)
(* a job was made for, so that a buffer reused too early shows.            *)
(*                                                                         *)
(* Enqueuers are goroutines of the worker pool.  None of them runs once    *)
(* Close is called: it is deferred behind ConsumeLogs, whose callback has  *)
(* waited for its jobs (NoJobAfterWait in WorkerPool).                     *)
(***************************************************************************)
EXTENDS Integers, Sequences, FiniteSets

CONSTANTS Enqueuers,   \* goroutines of the worker pool
          Publishers,  \* WORKER_LIVE_TAIL_COUNT goroutines
          QueueSize,   \* WORKER_LIVE_TAIL_QUEUE_SIZE
          Buffers,     \* names of buffers
          MaxLogs      \* bound: logs offered to Enqueue

ASSUME QueueAssumption   == QueueSize \in Nat \ {0}
ASSUME LogsAssumption    == MaxLogs \in Nat
ASSUME BuffersAssumption ==
  /\ IsFiniteSet(Buffers) /\ IsFiniteSet(Enqueuers) /\ IsFiniteSet(Publishers)
  /\ Cardinality(Buffers) >=
       Cardinality(Enqueuers) + Cardinality(Publishers) + QueueSize

VARIABLES
  made,     \* buffers allocated so far
  pooled,   \* buffers in bufPool
  holds,    \* the log whose bytes each buffer holds
  jobChan,  \* the queue of jobs
  closed,   \* has Close been called?
  logs,     \* logs offered so far
  enq,      \* each enqueuer: where it is, its buffer and its log
  pub,      \* each publisher: where it is and its job
  accepted, \* logs for which Enqueue returned true
  refused,  \* logs for which Enqueue returned false
  sent      \* what was published: the log of the job, the bytes sent

poolVars == <<made, pooled>>
vars == <<made, pooled, holds, jobChan, closed, logs, enq, pub, accepted, refused, sent>>

Logs  == 1..MaxLogs
NoLog == 0
Idle  == "idle"
Jobs  == [buf : Buffers, log : Logs]

Init ==
  /\ made = {}
  /\ pooled = {}
  /\ holds = [b \in Buffers |-> NoLog]
  /\ jobChan = <<>>
  /\ closed = FALSE
  /\ logs = 0
  /\ enq = [e \in Enqueuers |-> [at |-> Idle, job |-> <<>>]]
  /\ pub = [p \in Publishers |-> [at |-> Idle, job |-> <<>>]]
  /\ accepted = {}
  /\ refused = {}
  /\ sent = {}

-----------------------------------------------------------------------------
(* Enqueue *)

(* bufPool.Get: a pooled buffer, or a new one.  New buffers are alike, so  *)
(* one of them stands for all.                                             *)
Fresh == IF made = Buffers THEN {} ELSE {CHOOSE b \in Buffers : b \notin made}

Get(e, b) ==
  /\ ~closed
  /\ enq[e].at = Idle
  /\ logs < MaxLogs
  /\ b \in pooled \cup Fresh
  /\ made' = made \cup {b}
  /\ pooled' = pooled \ {b}
  /\ logs' = logs + 1
  /\ enq' = [enq EXCEPT ![e] = [at |-> "marshal", job |-> [buf |-> b, log |-> logs + 1]]]
  /\ UNCHANGED <<holds, jobChan, closed, pub, accepted, refused, sent>>

Marshal(e) ==
  /\ enq[e].at = "marshal"
  /\ holds' = [holds EXCEPT ![enq[e].job.buf] = enq[e].job.log]
  /\ enq' = [enq EXCEPT ![e].at = "offer"]
  /\ UNCHANGED <<poolVars, jobChan, closed, logs, pub, accepted, refused, sent>>

Refuse(e) ==
  /\ pooled' = pooled \cup {enq[e].job.buf}
  /\ refused' = refused \cup {enq[e].job.log}
  /\ enq' = [enq EXCEPT ![e] = [at |-> Idle, job |-> <<>>]]

(* Marshalling may leave bytes of the log behind. *)
MarshalFails(e) ==
  /\ enq[e].at = "marshal"
  /\ Refuse(e)
  /\ holds' = [holds EXCEPT ![enq[e].job.buf] = enq[e].job.log]
  /\ UNCHANGED <<made, jobChan, closed, logs, pub, accepted, sent>>

(* Slip: the buffer goes back to the pool on the way out of Enqueue, also  *)
(* when the job was queued.                                                *)
OfferAndPut(e) ==
  /\ enq[e].at = "offer"
  /\ Len(jobChan) < QueueSize
  /\ jobChan' = Append(jobChan, enq[e].job)
  /\ pooled' = pooled \cup {enq[e].job.buf}
  /\ accepted' = accepted \cup {enq[e].job.log}
  /\ enq' = [enq EXCEPT ![e] = [at |-> Idle, job |-> <<>>]]
  /\ UNCHANGED <<made, holds, closed, logs, pub, refused, sent>>

Offer(e) ==
  /\ enq[e].at = "offer"
  /\ Len(jobChan) < QueueSize
  /\ jobChan' = Append(jobChan, enq[e].job)
  /\ accepted' = accepted \cup {enq[e].job.log}
  /\ enq' = [enq EXCEPT ![e] = [at |-> Idle, job |-> <<>>]]
  /\ UNCHANGED <<poolVars, holds, closed, logs, pub, refused, sent>>

(* Slip: a plain send, which waits for room. *)
QueueFullWaits(e) ==
  /\ enq[e].at = "offer"
  /\ Len(jobChan) = QueueSize
  /\ UNCHANGED vars

(* The queue is full: the log is dropped, nobody waits. *)
QueueFull(e) ==
  /\ enq[e].at = "offer"
  /\ Len(jobChan) = QueueSize
  /\ Refuse(e)
  /\ UNCHANGED <<made, holds, jobChan, closed, logs, pub, accepted, sent>>

Return(e) == Marshal(e) \/ MarshalFails(e) \/ Offer(e) \/ QueueFull(e)

Close ==
  /\ ~closed
  /\ \A e \in Enqueuers : enq[e].at = Idle
  /\ closed' = TRUE
  /\ UNCHANGED <<poolVars, holds, jobChan, logs, enq, pub, accepted, refused, sent>>

-----------------------------------------------------------------------------
(* The publisher goroutines *)

(* Slip: the buffer is given back before the publish. *)
TakeAndPut(p) ==
  /\ pub[p].at = Idle
  /\ jobChan # <<>>
  /\ pub' = [pub EXCEPT ![p] = [at |-> "publish", job |-> Head(jobChan)]]
  /\ pooled' = pooled \cup {Head(jobChan).buf}
  /\ jobChan' = Tail(jobChan)
  /\ UNCHANGED <<made, holds, closed, logs, enq, accepted, refused, sent>>

Take(p) ==
  /\ pub[p].at = Idle
  /\ jobChan # <<>>
  /\ pub' = [pub EXCEPT ![p] = [at |-> "publish", job |-> Head(jobChan)]]
  /\ jobChan' = Tail(jobChan)
  /\ UNCHANGED <<poolVars, holds, closed, logs, enq, accepted, refused, sent>>

(* PublishLiveTail copies the bytes into the connection's write buffer, or *)
(* fails, which is only logged.                                            *)
Publish(p) ==
  /\ pub[p].at = "publish"
  /\ sent' \in {sent, sent \cup {[log |-> pub[p].job.log, bytes |-> holds[pub[p].job.buf]]}}
  /\ pub' = [pub EXCEPT ![p].at = "put"]
  /\ UNCHANGED <<poolVars, holds, jobChan, closed, logs, enq, accepted, refused>>

Put(p) ==
  /\ pub[p].at = "put"
  /\ pooled' = pooled \cup {pub[p].job.buf}
  /\ pub' = [pub EXCEPT ![p] = [at |-> Idle, job |-> <<>>]]
  /\ UNCHANGED <<made, holds, jobChan, closed, logs, enq, accepted, refused, sent>>

(* Slip: a receive from the closed queue is taken for a job. *)
LeaveUnchecked(p) ==
  /\ pub[p].at = Idle
  /\ closed
  /\ jobChan = <<>>
  /\ pub' = [pub EXCEPT ![p].at = "publish"]
  /\ UNCHANGED <<poolVars, holds, jobChan, closed, logs, enq, accepted, refused, sent>>

(* The range over the closed and empty queue ends. *)
Leave(p) ==
  /\ pub[p].at = Idle
  /\ closed
  /\ jobChan = <<>>
  /\ pub' = [pub EXCEPT ![p].at = "exited"]
  /\ UNCHANGED <<poolVars, holds, jobChan, closed, logs, enq, accepted, refused, sent>>

-----------------------------------------------------------------------------
Enqueue(e) == (\E b \in Buffers : Get(e, b)) \/ Return(e)

Publisher(p) == Take(p) \/ Publish(p) \/ Put(p) \/ Leave(p)

Finished == closed /\ (\A p \in Publishers : pub[p].at = "exited") /\ UNCHANGED vars

Next ==
  \/ \E e \in Enqueuers : Enqueue(e)
  \/ \E p \in Publishers : Publisher(p)
  \/ Close \/ Finished

(* Only a call of Enqueue that has started goes on.  Nothing is assumed of *)
(* the publishers: the connection may hold them up for as long as it likes. *)
Spec == Init /\ [][Next]_vars /\ \A e \in Enqueuers : WF_vars(Return(e))

-----------------------------------------------------------------------------
(* Properties *)

(* Type invariant, with the capacity of the queue; whoever is at work has  *)
(* a job in hand, never the zero value of a closed queue.                  *)
TypeOK ==
  /\ pooled \subseteq made /\ made \subseteq Buffers
  /\ holds \in [Buffers -> {NoLog} \cup Logs]
  /\ jobChan \in Seq(Jobs) /\ Len(jobChan) <= QueueSize
  /\ closed \in BOOLEAN
  /\ logs \in 0..MaxLogs
  /\ enq \in [Enqueuers -> [at : {Idle}, job : {<<>>}]
                            \cup [at : {"marshal", "offer"}, job : Jobs]]
  /\ pub \in [Publishers -> [at : {Idle, "exited"}, job : {<<>>}]
                             \cup [at : {"publish", "put"}, job : Jobs]]
  /\ accepted \subseteq Logs /\ refused \subseteq Logs
  /\ sent \subseteq [log : Logs, bytes : {NoLog} \cup Logs]

(* A buffer has one owner: the pool, an enqueuer, one job of the queue or  *)
(* a publisher; on every path out of Enqueue and out of the publisher loop *)
(* it is handed on exactly once.                                           *)
EnqHas(e, b) == enq[e].at # Idle /\ enq[e].job.buf = b
PubHas(p, b) == pub[p].at \in {"publish", "put"} /\ pub[p].job.buf = b
Queued(i, b) == jobChan[i].buf = b
OneOwner ==
  \A b \in Buffers :
    /\ \A e, f \in Enqueuers : EnqHas(e, b) /\ EnqHas(f, b) => e = f
    /\ \A p, q \in Publishers : PubHas(p, b) /\ PubHas(q, b) => p = q
    /\ \A i, j \in DOMAIN jobChan : Queued(i, b) /\ Queued(j, b) => i = j
    /\ \A e \in Enqueuers, p \in Publishers : ~(EnqHas(e, b) /\ PubHas(p, b))
    /\ \A e \in Enqueuers, i \in DOMAIN jobChan : ~(EnqHas(e, b) /\ Queued(i, b))
    /\ \A p \in Publishers, i \in DOMAIN jobChan : ~(PubHas(p, b) /\ Queued(i, b))
    /\ b \in pooled => /\ \A e \in Enqueuers : ~EnqHas(e, b)
                       /\ \A p \in Publishers : ~PubHas(p, b)
                       /\ \A i \in DOMAIN jobChan : ~Queued(i, b)

(* What is sent for a job are the bytes of the log it was made for, and    *)
(* only logs whose Enqueue returned true are sent.                         *)
SentIntact == \A s \in sent : s.bytes = s.log /\ s.log \in accepted

(* Enqueue returns even if no publisher ever gets on: a dead connection    *)
(* does not hold up the insert path that calls it.                         *)
EnqueueReturns == \A e \in Enqueuers : enq[e].at = "offer" ~> enq[e].at = Idle
=============================================================================

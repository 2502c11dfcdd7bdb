------------------------------- MODULE Consumer -------------------------------
(***************************************************************************)
(* The durable JetStream consumer of the worker (transport/nats.go,        *)
(* ConsumeLogs) together with what it talks to: the broker's bookkeeping   *)
(* of deliveries, the insert callback, the dead-letter publish, and the    *)
(* life of the worker process around it.                                   *)
(*                                                                         *)
(* A message travels  broker -> inbox -> msgCh -> batch .  inbox is the    *)
(* client library's queue in front of the consume callback; msgCh is the   *)
(* channel of capacity 2*maxBatch; batch is the slice of the select loop.  *)
(* A copy of a message carries the delivery number the broker stamped on   *)
(* it, which is what metadata.NumDelivered returns.                        *)
(***************************************************************************)
EXTENDS Integers, Sequences, FiniteSets

CONSTANTS Msgs,           \* the published log payloads
          MaxBatch,       \* WORKER_MAX_BATCH
          MaxDeliver,     \* NATS_MAX_DELIVER
          MaxAckPending,  \* NATS_CONSUMER_MAX_ACK_PENDING
          Undecodable,    \* payloads that never decompress or decode
          Panics,         \* payloads on which the worker's job panics
          Discardable,    \* bound: the payloads the stream's limits may reach
          MaxExits        \* bound: how often the worker process may end

ASSUME BatchAssumption   == MaxBatch \in Nat \ {0}
ASSUME DeliverAssumption == MaxDeliver \in Nat \ {0}
ASSUME PendingAssumption == MaxAckPending \in Nat \ {0}
ASSUME ExitsAssumption   == MaxExits \in Nat
ASSUME MsgsAssumption    == IsFiniteSet(Msgs)
ASSUME PayloadAssumption == {Undecodable, Panics, Discardable} \subseteq SUBSET Msgs

VARIABLES
  \* the broker's view of the durable consumer
  srv,        \* state of each message
  delivered,  \* deliveries made of each message
  \* the worker process
  inbox,      \* copies the client library holds for the callback
  msgCh,      \* the buffered channel
  batch,      \* the batch being collected, handled or answered
  pc,         \* where the select loop is
  next,       \* index of the message being answered
  ok,         \* did the insert callback return nil?
  leaving,    \* is this the flush of the ctx.Done() branch?
  ctxDone,    \* is the context cancelled?
  conn,       \* the worker's NATS connection
  exits,      \* how often the process has ended
  \* what became of the messages
  rows,       \* inserted copies of each message
  dead,       \* messages in the dead-letter stream
  dropped     \* messages given up with an error in the log

brokerVars == <<srv, delivered>>
loopVars   == <<batch, pc, next, ok, leaving>>
queueVars  == <<inbox, msgCh>>
fateVars   == <<rows, dead, dropped>>
lifeVars   == <<ctxDone, conn, exits>>
vars == <<srv, delivered, inbox, msgCh, batch, pc, next, ok, leaving,
          ctxDone, conn, exits, rows, dead, dropped>>

(* "ready": in the stream, never delivered.  "pending": delivered, waiting *)
(* for an answer.  "delayed": NAKed with a delay.  "redeliver": queued for *)
(* redelivery.  "exhausted": delivered MaxDeliver times, given up by the   *)
(* broker.  "discarded": removed by the limits of the stream.              *)
Outstanding  == {"pending", "delayed", "redeliver"}
BrokerStates == {"absent", "ready", "acked", "exhausted", "discarded"} \cup Outstanding
LoopStates   == {"select", "handler", "answer", "ackDead", "returned", "closing", "down"}

(* "lost": the client library gave up reconnecting and closed the          *)
(* connection.  "draining": Close has called Drain.  "none": no process.   *)
ConnStates   == {"up", "lost", "draining", "none"}

Copies == [msg : Msgs, num : 1..MaxDeliver]

Init ==
  /\ srv = [m \in Msgs |-> "absent"]
  /\ delivered = [m \in Msgs |-> 0]
  /\ inbox = <<>>
  /\ msgCh = <<>>
  /\ batch = <<>>
  /\ pc = "select"
  /\ next = 1
  /\ ok = TRUE
  /\ leaving = FALSE
  /\ ctxDone = FALSE
  /\ conn = "up"
  /\ exits = 0
  /\ rows = [m \in Msgs |-> 0]
  /\ dead = {}
  /\ dropped = {}

-----------------------------------------------------------------------------
(* The broker *)

Publish(m) ==
  /\ srv[m] = "absent"
  /\ srv' = [srv EXCEPT ![m] = "ready"]
  /\ UNCHANGED <<delivered, queueVars, loopVars, fateVars, lifeVars>>

(* Retention: the stream discards old messages, answered or not. *)
Discard(m) ==
  /\ m \in Discardable
  /\ srv[m] \in {"ready"} \cup Outstanding
  /\ srv' = [srv EXCEPT ![m] = "discarded"]
  /\ UNCHANGED <<delivered, queueVars, loopVars, fateVars, lifeVars>>

AckPending == Cardinality({m \in Msgs : srv[m] \in Outstanding})

(* A pull of the running consumer is answered.  Redeliveries come first    *)
(* and are not held back by MaxAckPending, new messages are.               *)
Deliver(m) ==
  /\ conn = "up"
  /\ pc \notin {"returned", "closing", "down"}
  /\ \/ srv[m] = "redeliver" /\ delivered[m] < MaxDeliver
     \/ srv[m] = "ready" /\ AckPending < MaxAckPending
  /\ srv' = [srv EXCEPT ![m] = "pending"]
  /\ delivered' = [delivered EXCEPT ![m] = @ + 1]
  /\ inbox' = Append(inbox, [msg |-> m, num |-> delivered[m] + 1])
  /\ UNCHANGED <<msgCh, loopVars, fateVars, lifeVars>>

(* The ack wait (BackOff) or the delay of a NAK has passed. *)
Expire(m) ==
  /\ srv[m] \in {"pending", "delayed"}
  /\ srv' = [srv EXCEPT ![m] = "redeliver"]
  /\ UNCHANGED <<delivered, queueVars, loopVars, fateVars, lifeVars>>

(* MaxDeliver reached: the broker stops delivering.  It publishes an       *)
(* advisory that no code of this repository listens to.                    *)
Exhaust(m) ==
  /\ srv[m] = "redeliver"
  /\ delivered[m] = MaxDeliver
  /\ srv' = [srv EXCEPT ![m] = "exhausted"]
  /\ UNCHANGED <<delivered, queueVars, loopVars, fateVars, lifeVars>>

(* What an answer does when it arrives.  An answer for a message that is   *)
(* not outstanding any more is ignored.                                    *)
Acked(m) == [srv EXCEPT ![m] = IF @ \in Outstanding THEN "acked" ELSE @]
Naked(m) == [srv EXCEPT ![m] = IF @ \in Outstanding THEN "redeliver" ELSE @]
NakedWithDelay(m) == [srv EXCEPT ![m] = IF @ = "pending" THEN "delayed" ELSE @]

(* Ack and Nak are published without waiting for a reply and their errors  *)
(* are ignored, so an answer may be lost; on a closed connection it is.    *)
Answer(outcome) == srv' = srv \/ (conn # "lost" /\ srv' = outcome)

-----------------------------------------------------------------------------
(* The consume callback: the client library's goroutine *)

Buffer ==
  /\ pc # "down"
  /\ inbox # <<>>
  /\ Len(msgCh) < 2 * MaxBatch
  /\ msgCh' = Append(msgCh, Head(inbox))
  /\ inbox' = Tail(inbox)
  /\ UNCHANGED <<brokerVars, loopVars, fateVars, lifeVars>>

(* Slip: the callback sends to the channel without watching the context.   *)
SendOnly == Buffer

Refuse ==
  /\ pc # "down"
  /\ ctxDone
  /\ inbox # <<>>
  /\ Answer(Naked(Head(inbox).msg))
  /\ inbox' = Tail(inbox)
  /\ UNCHANGED <<delivered, msgCh, loopVars, fateVars, lifeVars>>

-----------------------------------------------------------------------------
(* The select loop.  A select with several ready cases picks any of them.  *)

(* Slip: no size flush, only the timer flushes. *)
ReceiveWithoutFlush ==
  /\ pc = "select"
  /\ msgCh # <<>>
  /\ batch' = Append(batch, Head(msgCh))
  /\ msgCh' = Tail(msgCh)
  /\ UNCHANGED <<brokerVars, inbox, pc, next, ok, leaving, fateVars, lifeVars>>

Receive ==
  /\ pc = "select"
  /\ msgCh # <<>>
  /\ batch' = Append(batch, Head(msgCh))
  /\ msgCh' = Tail(msgCh)
  /\ pc' = IF Len(batch) + 1 >= MaxBatch THEN "handler" ELSE "select"
  /\ UNCHANGED <<brokerVars, inbox, next, ok, leaving, fateVars, lifeVars>>

(* Slip: the timer is not reset, so a partial batch waits for more. *)
TimerNeverFires ==
  /\ pc = "select"
  /\ batch = <<>>
  /\ UNCHANGED vars

(* The timer is reset after every flush, so it keeps firing. *)
TimerFlush ==
  /\ pc = "select"
  /\ pc' = IF batch = <<>> THEN "select" ELSE "handler"
  /\ UNCHANGED <<brokerVars, queueVars, batch, next, ok, leaving, fateVars, lifeVars>>

DoneFlush ==
  /\ pc = "select"
  /\ ctxDone
  /\ pc' = IF batch = <<>> THEN "returned" ELSE "handler"
  /\ leaving' = (batch # <<>>)
  /\ UNCHANGED <<brokerVars, queueVars, batch, next, ok, fateVars, lifeVars>>

-----------------------------------------------------------------------------
(* logHandler: the insert callback of the worker pool.  The copies at the  *)
(* indices J reach the insert.  An undecodable payload is dropped; a       *)
(* panicking one is dropped, and may take with it payloads behind it.      *)

PanicAtOrBefore(i) == \E p \in 1..i : batch[p].msg \in Panics

Insertable(J) ==
  /\ J \subseteq DOMAIN batch
  /\ \A i \in J : batch[i].msg \notin Undecodable \cup Panics
  /\ \A i \in DOMAIN batch \ J : batch[i].msg \in Undecodable \/ PanicAtOrBefore(i)

RowsAfter(J) ==
  [m \in Msgs |-> rows[m] + Cardinality({i \in J : batch[i].msg = m})]

InsertOk(J) ==
  /\ pc = "handler"
  /\ Insertable(J)
  /\ rows' = RowsAfter(J)
  /\ dropped' = dropped \cup {batch[i].msg : i \in DOMAIN batch \ J}
  /\ ok' = TRUE
  /\ pc' = "answer"
  /\ UNCHANGED <<brokerVars, queueVars, batch, next, leaving, dead, lifeVars>>

(* Slip: the error of the flush is not returned. *)
InsertFailsUnseen(J) ==
  /\ pc = "handler"
  /\ Insertable(J)
  /\ rows' \in {rows, RowsAfter(J)}
  /\ pc' = "answer"
  /\ UNCHANGED <<brokerVars, queueVars, batch, next, ok, leaving, dead, dropped, lifeVars>>

(* The insert reports an error: the rows were not written, or they were    *)
(* and the answer was late (3 s timeout, broken connection).               *)
InsertFails(J) ==
  /\ pc = "handler"
  /\ Insertable(J)
  /\ rows' \in {rows, RowsAfter(J)}
  /\ ok' = FALSE
  /\ pc' = "answer"
  /\ UNCHANGED <<brokerVars, queueVars, batch, next, leaving, dead, dropped, lifeVars>>

-----------------------------------------------------------------------------
(* Answering the batch, one message after the other *)

Current == batch[next]

(* Slip: the batch is not cleared after its last message. *)
AdvanceWithoutClear ==
  /\ next' = IF next < Len(batch) THEN next + 1 ELSE 1
  /\ pc' = IF next < Len(batch) THEN "answer"
           ELSE IF leaving THEN "returned" ELSE "select"
  /\ ok' = (ok \/ next >= Len(batch))
  /\ leaving' = (leaving /\ next < Len(batch))
  /\ UNCHANGED batch

(* On to the next message; after the last one the batch is cleared. *)
Advance ==
  IF next < Len(batch)
  THEN /\ next' = next + 1
       /\ pc' = "answer"
       /\ UNCHANGED <<batch, ok, leaving>>
  ELSE /\ next' = 1
       /\ batch' = <<>>
       /\ ok' = TRUE
       /\ leaving' = FALSE
       /\ pc' = IF leaving THEN "returned" ELSE "select"

(* Slips: the comparison is off by one, either way. *)
AtLimitEarly(c) == c.num + 1 >= MaxDeliver
AtLimitLate(c)  == c.num > MaxDeliver

AtLimit(c) == c.num >= MaxDeliver

AckStored ==
  /\ pc = "answer"
  /\ ok
  /\ Answer(Acked(Current.msg))
  /\ Advance
  /\ UNCHANGED <<delivered, queueVars, fateVars, lifeVars>>

NakForRetry ==
  /\ pc = "answer"
  /\ ~ok
  /\ ~AtLimit(Current)
  /\ Answer(NakedWithDelay(Current.msg))
  /\ Advance
  /\ UNCHANGED <<delivered, queueVars, fateVars, lifeVars>>

(* The dead-letter publish waits up to 3 s for the stream's acknowledgement. *)
(* An error is logged ("message will be lost") and otherwise ignored; after  *)
(* a timeout the message may be in the dead-letter stream all the same.  On  *)
(* a closed connection the publish fails at once.                            *)
DeadLetter ==
  /\ pc = "answer"
  /\ ~ok
  /\ AtLimit(Current)
  /\ \E inDlq, err \in BOOLEAN :
       /\ inDlq \/ err
       /\ inDlq => conn # "lost"
       /\ dead' = IF inDlq THEN dead \cup {Current.msg} ELSE dead
       /\ dropped' = IF err THEN dropped \cup {Current.msg} ELSE dropped
  /\ pc' = "ackDead"
  /\ UNCHANGED <<brokerVars, queueVars, batch, next, ok, leaving, rows, lifeVars>>

AckDead ==
  /\ pc = "ackDead"
  /\ Answer(Acked(Current.msg))
  /\ Advance
  /\ UNCHANGED <<delivered, queueVars, fateVars, lifeVars>>

-----------------------------------------------------------------------------
(* The process *)

(* SIGINT or SIGTERM cancels the context. *)
Cancel ==
  /\ pc # "down"
  /\ ~ctxDone
  /\ exits < MaxExits
  /\ ctxDone' = TRUE
  /\ UNCHANGED <<brokerVars, queueVars, loopVars, fateVars, conn, exits>>

(* After 60 attempts to reconnect the library closes the connection.  It   *)
(* drops the copies it holds, but for one that is in the callback; nobody  *)
(* tells ConsumeLogs, whose loop goes on waiting.                          *)
GiveUp ==
  /\ conn = "up"
  /\ conn' = "lost"
  /\ \/ inbox' = <<>>
     \/ inbox # <<>> /\ inbox' = <<Head(inbox)>>
  /\ UNCHANGED <<brokerVars, msgCh, loopVars, fateVars, ctxDone, exits>>

(* The deferred calls of run: the pool and the live tail are closed, then  *)
(* the broker.  Close sets the closed handler and drains the connection;   *)
(* if it is closed already, Drain fails and the handler is never called.   *)
CloseBroker ==
  /\ pc = "returned"
  /\ pc' = "closing"
  /\ conn' = IF conn = "up" THEN "draining" ELSE conn
  /\ UNCHANGED <<brokerVars, queueVars, batch, next, ok, leaving, fateVars, ctxDone, exits>>

Die ==
  /\ pc' = "down"
  /\ conn' = "none"
  /\ inbox' = <<>>
  /\ msgCh' = <<>>
  /\ batch' = <<>>
  /\ next' = 1
  /\ ok' = TRUE
  /\ leaving' = FALSE
  /\ ctxDone' = FALSE
  /\ exits' = exits + 1
  /\ UNCHANGED <<brokerVars, fateVars>>

(* The drain ends when the callback's queue is empty; the closed handler   *)
(* ends Close, and run returns.  Whatever is left in msgCh is neither      *)
(* acknowledged nor refused.                                               *)
Exit == pc = "closing" /\ conn = "draining" /\ inbox = <<>> /\ exits < MaxExits /\ Die

(* The drain is cut short: by its timeout (5 s), by a connection that is   *)
(* just reconnecting, or that is given up now.                             *)
CutShort == pc = "closing" /\ conn = "draining" /\ inbox # <<>> /\ exits < MaxExits /\ Die

Crash == pc # "down" /\ exits < MaxExits /\ Die

Restart ==
  /\ pc = "down"
  /\ pc' = "select"
  /\ conn' = "up"
  /\ UNCHANGED <<brokerVars, queueVars, batch, next, ok, leaving, fateVars, ctxDone, exits>>

-----------------------------------------------------------------------------
Broker   == \E m \in Msgs :
              Publish(m) \/ Discard(m) \/ Deliver(m) \/ Expire(m) \/ Exhaust(m)
Callback == Buffer \/ Refuse
Select   == Receive \/ TimerFlush \/ DoneFlush
Insert   == \E J \in SUBSET (DOMAIN batch) : InsertOk(J) \/ InsertFails(J)
Reply    == AckStored \/ NakForRetry \/ DeadLetter \/ AckDead
Process  == Cancel \/ GiveUp \/ CloseBroker \/ Exit \/ CutShort \/ Crash \/ Restart

Next == Broker \/ Callback \/ Select \/ Insert \/ Reply \/ Process

(* The broker's timers and pulls go on, the goroutines are scheduled, the  *)
(* insert and the dead-letter publish return (both have timeouts), and a   *)
(* worker that ended is started again.  Nothing obliges anybody to         *)
(* publish, to signal the process, to crash, to discard, to give up the    *)
(* connection or to cut a drain short.                                     *)
Fairness ==
  /\ WF_vars(\E m \in Msgs : Deliver(m))
  /\ WF_vars(\E m \in Msgs : Expire(m))
  /\ WF_vars(\E m \in Msgs : Exhaust(m))
  /\ WF_vars(Callback)
  /\ WF_vars(Receive)
  /\ WF_vars(TimerFlush)
  /\ WF_vars(DoneFlush)
  /\ WF_vars(Insert)
  /\ WF_vars(Reply)
  /\ WF_vars(CloseBroker \/ Exit \/ Restart)

Spec     == Init /\ [][Next]_vars
FairSpec == Spec /\ Fairness

-----------------------------------------------------------------------------
(* Properties *)

Accounted(m) == rows[m] > 0 \/ m \in dead \/ m \in dropped

InProcess(m) ==
  \/ \E i \in DOMAIN inbox : inbox[i].msg = m
  \/ \E i \in DOMAIN msgCh : msgCh[i].msg = m
  \/ \E i \in DOMAIN batch : batch[i].msg = m

(* Type invariant.  It includes the two capacities the code relies on: the *)
(* channel never holds more than 2*maxBatch copies and the batch never     *)
(* outgrows maxBatch, whatever the order of receives and flushes.          *)
TypeOK ==
  /\ srv \in [Msgs -> BrokerStates]
  /\ delivered \in [Msgs -> 0..MaxDeliver]
  /\ inbox \in Seq(Copies)
  /\ msgCh \in Seq(Copies) /\ Len(msgCh) <= 2 * MaxBatch
  /\ batch \in Seq(Copies) /\ Len(batch) <= MaxBatch
  /\ pc \in LoopStates
  /\ next \in Nat \ {0}
  /\ ok \in BOOLEAN
  /\ leaving \in BOOLEAN
  /\ ctxDone \in BOOLEAN
  /\ conn \in ConnStates
  /\ exits \in 0..MaxExits
  /\ rows \in [Msgs -> Nat]
  /\ dead \subseteq Msgs
  /\ dropped \subseteq Msgs

(* The broker forgets a message on an Ack only when the message is in the  *)
(* database or the dead-letter stream, or its loss was logged: no order of *)
(* late answers, redeliveries, failed inserts and crashes loses one        *)
(* silently through an Ack (ConsumeLogs acks after the insert returned).   *)
AckedIsAccounted == \A m \in Msgs : srv[m] = "acked" => Accounted(m)

(* A message reaches the dead-letter stream only after its last delivery   *)
(* (NumDelivered >= maxDeliver), although the number tested is the one of  *)
(* the copy at hand and not the broker's counter.                          *)
DeadOnlyAtLimit == \A m \in dead : delivered[m] = MaxDeliver

(* One delivery inserts a message at most once: the rows of a message and  *)
(* the copies still to be handled never outnumber its deliveries.          *)
Unhandled(m, q) == Cardinality({i \in DOMAIN q : q[i].msg = m})
RowsWithinDeliveries ==
  \A m \in Msgs :
    rows[m] + Unhandled(m, inbox) + Unhandled(m, msgCh)
            + (IF pc \in {"select", "handler"} THEN Unhandled(m, batch) ELSE 0)
      <= delivered[m]

(* While the first worker process runs undisturbed, neither signalled nor  *)
(* cut off, a message the broker has given up is never lost: it is         *)
(* accounted for, or the worker still holds a copy of it and will account  *)
(* for it.                                                                 *)
Undisturbed == exits = 0 /\ ~ctxDone /\ conn = "up"

ExhaustedIsInProcess ==
  \A m \in Msgs :
    srv[m] = "exhausted" /\ Undisturbed => Accounted(m) \/ InProcess(m)

(* The strengthening that makes the safety invariants inductive: what each *)
(* program counter knows of the batch, that no copy claims more deliveries *)
(* than its message had, and that an undelivered message is at zero.       *)
LoopInv ==
  /\ pc = "select" => Len(batch) < MaxBatch
  /\ pc \in {"handler", "answer", "ackDead"} => batch # <<>>
  /\ pc \in {"answer", "ackDead"} => next \in 1..Len(batch)
  /\ pc \notin {"answer", "ackDead"} => next = 1
  /\ pc = "answer" /\ ok => \A i \in DOMAIN batch : Accounted(batch[i].msg)
  /\ pc = "ackDead" => ~ok /\ Accounted(Current.msg)
  /\ pc \in {"returned", "closing", "down"} => batch = <<>>
  /\ pc = "down" => exits > 0

KnownDelivery(q, d) == \A i \in DOMAIN q : q[i].num <= d[q[i].msg]

DeliveryInv ==
  /\ KnownDelivery(inbox, delivered)
  /\ KnownDelivery(msgCh, delivered)
  /\ KnownDelivery(batch, delivered)
  /\ \A m \in Msgs : srv[m] \in {"absent", "ready"} => delivered[m] = 0

Inv == TypeOK /\ LoopInv /\ DeliveryInv /\ AckedIsAccounted /\ DeadOnlyAtLimit

(* The strengthening of ExhaustedIsInProcess: as long as the process is    *)
(* undisturbed, it is the copy of the last delivery that is still held,    *)
(* and in a batch that is being answered it has not been answered yet.     *)
LastCopyHeld(m) ==
  LET last == [msg |-> m, num |-> MaxDeliver]
  IN  \/ \E i \in DOMAIN inbox : inbox[i] = last
      \/ \E i \in DOMAIN msgCh : msgCh[i] = last
      \/ \E i \in DOMAIN batch : next <= i /\ batch[i] = last

LastDeliveryInv ==
  \A m \in Msgs :
    /\ srv[m] = "exhausted" => delivered[m] = MaxDeliver
    /\ delivered[m] = MaxDeliver /\ Undisturbed =>
         Accounted(m) \/ LastCopyHeld(m)

(* The documentation's reading of NATS_MAX_DELIVER (environment.md): after *)
(* the last delivery attempt a message ends up in the dead-letter stream,  *)
(* unless it could be stored (or its loss was logged).  Only a worker that *)
(* still holds a copy may be late with it.                                 *)
ExhaustedIsDeadLettered ==
  \A m \in Msgs : srv[m] = "exhausted" => Accounted(m) \/ InProcess(m)

(* The consumer implements the abstract promise: seen from outside, a      *)
(* message is held by the broker until one of the fates allows its Ack,    *)
(* and everything else the processes do is a stutter.                      *)
HeldView   == [m \in Msgs |-> IF srv[m] \in {"ready"} \cup Outstanding
                              THEN "held" ELSE srv[m]]
StoredView == {m \in Msgs : rows[m] > 0}
Promise == INSTANCE AtLeastOnce WITH
             broker <- HeldView, attempts <- delivered, stored <- StoredView
KeepsPromise == Promise!Spec

(* As long as no process ends and its connection is not given up, every    *)
(* published message is eventually stored, dead-lettered or logged as      *)
(* lost, unless the stream discarded it: timer flush, retries and dead-    *)
(* lettering together leave none behind, however often the ack wait        *)
(* expires under a copy in the process.                                    *)
EventuallyAccounted ==
  \A m \in Msgs :
    srv[m] = "ready" ~> \/ Accounted(m) \/ srv[m] = "discarded"
                        \/ exits > 0 \/ conn = "lost"

(* A signalled worker stops: the loop returns, the callback empties its    *)
(* queue although nobody reads the full channel any more, and Close need   *)
(* not wait for the drain's timeout.  Only a connection that was given up  *)
(* before Close keeps it waiting for ever, for a handler that is not       *)
(* called again (nats.go, Close).                                          *)
ShutdownCompletes == ctxDone ~> (pc = "down" \/ conn = "lost")
=============================================================================

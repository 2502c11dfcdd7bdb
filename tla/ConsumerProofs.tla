---------------------------- MODULE ConsumerProofs ----------------------------
(***************************************************************************)
(* Proofs about the durable consumer, for any set of messages, batch size, *)
(* delivery limit and number of process exits.                             *)
(***************************************************************************)
EXTENDS Consumer, TLAPS, SequenceTheorems, FiniteSetTheorems

-----------------------------------------------------------------------------
(* The queues: what appending and taking the head does to the copies.      *)

LEMMA AppendCopy ==
  ASSUME NEW S, NEW q \in Seq(S), NEW c \in S
  PROVE  /\ Append(q, c) \in Seq(S)
         /\ Append(q, c) # <<>>
         /\ Len(Append(q, c)) = Len(q) + 1
         /\ \A i \in DOMAIN Append(q, c) :
              \/ i \in DOMAIN q /\ Append(q, c)[i] = q[i]
              \/ Append(q, c)[i] = c
  BY AppendProperties, LenProperties

LEMMA TakeCopy ==
  ASSUME NEW S, NEW q \in Seq(S), q # <<>>
  PROVE  /\ Head(q) \in S
         /\ 1 \in DOMAIN q
         /\ Head(q) = q[1]
         /\ Tail(q) \in Seq(S)
         /\ Len(Tail(q)) = Len(q) - 1
         /\ \A i \in DOMAIN Tail(q) : i + 1 \in DOMAIN q /\ Tail(q)[i] = q[i + 1]
<1>1. Len(q) \in Nat \ {0} /\ DOMAIN q = 1..Len(q)
  BY EmptySeq, LenProperties
<1>2. Head(q) = q[1]
  OBVIOUS
<1>3. DOMAIN Tail(q) = 1..Len(Tail(q))
  BY HeadTailProperties, LenProperties
<1>4. QED
  BY <1>1, <1>2, <1>3, HeadTailProperties

LEMMA KnownGrows ==
  ASSUME NEW q \in Seq(Copies), NEW d \in [Msgs -> 0..MaxDeliver],
         NEW e \in [Msgs -> 0..MaxDeliver], \A m \in Msgs : d[m] <= e[m],
         KnownDelivery(q, d)
  PROVE  KnownDelivery(q, e)
<1> SUFFICES ASSUME NEW i \in DOMAIN q PROVE q[i].num <= e[q[i].msg]
  BY DEF KnownDelivery
<1>1. q[i] \in Copies
  BY LenProperties, ElementOfSeq
<1>2. q[i].msg \in Msgs /\ q[i].num \in 1..MaxDeliver
  BY <1>1 DEF Copies
<1>3. d[q[i].msg] \in Int /\ e[q[i].msg] \in Int
  BY <1>2, DeliverAssumption
<1>4. QED
  BY <1>2, <1>3, DeliverAssumption DEF KnownDelivery

LEMMA KnownAppend ==
  ASSUME NEW q \in Seq(Copies), NEW d \in [Msgs -> 0..MaxDeliver], NEW c \in Copies,
         KnownDelivery(q, d), c.num <= d[c.msg]
  PROVE  KnownDelivery(Append(q, c), d)
  BY AppendCopy DEF KnownDelivery

LEMMA KnownTake ==
  ASSUME NEW q \in Seq(Copies), q # <<>>, NEW d, KnownDelivery(q, d)
  PROVE  /\ KnownDelivery(Tail(q), d)
         /\ Head(q).num <= d[Head(q).msg]
  BY TakeCopy DEF KnownDelivery

LEMMA KnownEmpty ==
  ASSUME NEW d
  PROVE  KnownDelivery(<<>>, d)
  BY DEF KnownDelivery

LEMMA CopyFields ==
  ASSUME NEW q \in Seq(Copies), NEW i \in DOMAIN q
  PROVE  q[i].msg \in Msgs /\ q[i].num \in 1..MaxDeliver
<1>1. q[i] \in Copies
  BY LenProperties, ElementOfSeq
<1>2. QED
  BY <1>1 DEF Copies

(* The number of copies of a message at some indices of a batch.           *)
LEMMA CountCopies ==
  ASSUME NEW S, NEW q \in Seq(S), NEW J \in SUBSET (DOMAIN q), NEW m
  PROVE  /\ Cardinality({i \in J : q[i].msg = m}) \in Nat
         /\ (\E i \in J : q[i].msg = m) => Cardinality({i \in J : q[i].msg = m}) > 0
<1> DEFINE C == {i \in J : q[i].msg = m}
<1>0. DOMAIN q = 1..Len(q) /\ Len(q) \in Nat
  BY LenProperties
<1>1. IsFiniteSet(1..Len(q))
  BY <1>0, FS_Interval
<1>2. IsFiniteSet(C)
  BY <1>0, <1>1, FS_Subset
<1>3. Cardinality(C) \in Nat /\ (Cardinality(C) = 0 <=> C = {})
  BY <1>2, FS_CardinalityType, FS_EmptySet
<1>4. (\E i \in J : q[i].msg = m) => C # {}
  OBVIOUS
<1> HIDE DEF C
<1>5. Cardinality(C) \in Nat /\ ((\E i \in J : q[i].msg = m) => Cardinality(C) > 0)
  BY <1>3, <1>4
<1>6. QED
  BY <1>5 DEF C
-----------------------------------------------------------------------------
(* The first state *)

LEMMA InitInv == Init => Inv
<1> SUFFICES ASSUME Init PROVE Inv
  OBVIOUS
<1>1. TypeOK
  <2>1. <<>> \in Seq(Copies) /\ Len(<<>>) = 0
    BY EmptySeq
  <2>2. 0 <= 2 * MaxBatch /\ 0 <= MaxBatch /\ 0 \in 0..MaxExits /\ 0 \in 0..MaxDeliver
    BY BatchAssumption, ExitsAssumption, DeliverAssumption
  <2>3. inbox \in Seq(Copies) /\ msgCh \in Seq(Copies) /\ batch \in Seq(Copies)
    BY <2>1 DEF Init
  <2>4. Len(msgCh) <= 2 * MaxBatch /\ Len(batch) <= MaxBatch
    BY <2>1, <2>2 DEF Init
  <2>5. srv \in [Msgs -> BrokerStates] /\ delivered \in [Msgs -> 0..MaxDeliver]
    BY <2>2 DEF Init, BrokerStates
  <2>6. pc \in LoopStates /\ next \in Nat \ {0} /\ exits \in 0..MaxExits
    BY <2>2 DEF Init, LoopStates
  <2>7. ok \in BOOLEAN /\ leaving \in BOOLEAN /\ ctxDone \in BOOLEAN
    BY Zenon DEF Init
  <2>8. rows \in [Msgs -> Nat] /\ dead \subseteq Msgs /\ dropped \subseteq Msgs
    BY DEF Init
  <2>9. conn \in ConnStates
    BY DEF Init, ConnStates
  <2>10. QED
    BY <2>3, <2>4, <2>5, <2>6, <2>7, <2>8, <2>9 DEF TypeOK
<1>2. LoopInv
  BY BatchAssumption DEF Init, LoopInv
<1>3. DeliveryInv
  BY KnownEmpty DEF Init, DeliveryInv
<1>4. AckedIsAccounted /\ DeadOnlyAtLimit
  BY DEF Init, AckedIsAccounted, DeadOnlyAtLimit
<1>5. QED
  BY <1>1, <1>2, <1>3, <1>4 DEF Inv

-----------------------------------------------------------------------------
(* The broker *)

LEMMA BrokerInv == Inv /\ Broker => Inv'
<1> SUFFICES ASSUME Inv, NEW m \in Msgs,
                    Publish(m) \/ Discard(m) \/ Deliver(m) \/ Expire(m) \/ Exhaust(m)
             PROVE  Inv'
  BY DEF Broker
<1> USE DEF Inv, fateVars, lifeVars, loopVars, queueVars
<1>1. CASE Deliver(m)
  <2> DEFINE c == [msg |-> m, num |-> delivered[m] + 1]
  <2>1. delivered[m] \in 0..MaxDeliver /\ delivered[m] < MaxDeliver
    BY <1>1, DeliverAssumption DEF Deliver, TypeOK, DeliveryInv
  <2>2. c \in Copies
    BY <2>1, DeliverAssumption DEF Copies
  <2>3. /\ inbox' = Append(inbox, c)
        /\ inbox' \in Seq(Copies)
        /\ \A i \in DOMAIN inbox' : (i \in DOMAIN inbox /\ inbox'[i] = inbox[i]) \/ inbox'[i] = c
    BY <1>1, <2>2, AppendCopy DEF Deliver, TypeOK
  <2>4. /\ delivered' \in [Msgs -> 0..MaxDeliver]
        /\ \A n \in Msgs : delivered[n] <= delivered'[n]
        /\ delivered'[m] = delivered[m] + 1
    BY <1>1, <2>1, DeliverAssumption DEF Deliver, TypeOK
  <2>5. TypeOK'
    BY <1>1, <2>3, <2>4 DEF Deliver, TypeOK, BrokerStates, Outstanding
  <2>6. LoopInv'
    BY <1>1 DEF Deliver, LoopInv, Accounted, Current
  <2>7. KnownDelivery(inbox', delivered')
    <3>1. KnownDelivery(inbox, delivered')
      BY <2>4, KnownGrows DEF DeliveryInv, TypeOK
    <3>2. KnownDelivery(Append(inbox, c), delivered')
      BY <2>2, <2>4, <3>1, KnownAppend, DeliverAssumption DEF TypeOK
    <3>3. QED
      BY <2>3, <3>2
  <2>8. KnownDelivery(msgCh', delivered') /\ KnownDelivery(batch', delivered')
    BY <1>1, <2>4, KnownGrows DEF Deliver, DeliveryInv, TypeOK
  <2>9. \A n \in Msgs : srv'[n] \in {"absent", "ready"} => delivered'[n] = 0
    BY <1>1 DEF Deliver, DeliveryInv, TypeOK
  <2>10. AckedIsAccounted'
    BY <1>1 DEF Deliver, AckedIsAccounted, Accounted, TypeOK
  <2>11. DeadOnlyAtLimit'
    BY <1>1, <2>1 DEF Deliver, DeadOnlyAtLimit, TypeOK
  <2>12. QED
    BY <2>5, <2>6, <2>7, <2>8, <2>9, <2>10, <2>11 DEF DeliveryInv
<1>2. CASE Publish(m) \/ Discard(m) \/ Expire(m) \/ Exhaust(m)
  <2> USE <1>2 DEF Publish, Discard, Expire, Exhaust
  <2>1. TypeOK'
    BY DEF TypeOK, BrokerStates, Outstanding
  <2>2. LoopInv'
    BY DEF LoopInv, Accounted, Current
  <2>3. DeliveryInv'
    BY DEF DeliveryInv, TypeOK, Outstanding
  <2>4. AckedIsAccounted' /\ DeadOnlyAtLimit'
    BY DEF AckedIsAccounted, DeadOnlyAtLimit, Accounted, TypeOK
  <2>5. QED
    BY <2>1, <2>2, <2>3, <2>4
<1>3. QED
  BY <1>1, <1>2
-----------------------------------------------------------------------------
(* The answers: whatever arrives, a message can only become acknowledged   *)
(* through Acked, and the broker's table keeps its type.                   *)

LEMMA AnswerTypes ==
  ASSUME TypeOK, NEW m \in Msgs,
         Answer(Acked(m)) \/ Answer(Naked(m)) \/ Answer(NakedWithDelay(m))
  PROVE  /\ srv' \in [Msgs -> BrokerStates]
         /\ \A n \in Msgs : srv'[n] = "acked" => srv[n] = "acked" \/ n = m
         /\ \A n \in Msgs : srv'[n] \in {"absent", "ready"} => srv'[n] = srv[n]
  BY DEF TypeOK, Answer, Acked, Naked, NakedWithDelay, Outstanding, BrokerStates

LEMMA NakKeepsAcked ==
  ASSUME TypeOK, NEW m \in Msgs, Answer(Naked(m)) \/ Answer(NakedWithDelay(m))
  PROVE  \A n \in Msgs : srv'[n] = "acked" => srv[n] = "acked"
  BY DEF TypeOK, Answer, Naked, NakedWithDelay, Outstanding, BrokerStates

-----------------------------------------------------------------------------
(* The consume callback *)

LEMMA CallbackInv == Inv /\ Callback => Inv'
<1> SUFFICES ASSUME Inv, Buffer \/ Refuse PROVE Inv'
  BY DEF Callback
<1> USE DEF Inv, brokerVars, fateVars, lifeVars, loopVars
<1>1. /\ inbox # <<>>
      /\ Head(inbox) \in Copies
      /\ Head(inbox).msg \in Msgs
      /\ inbox' = Tail(inbox)
      /\ inbox' \in Seq(Copies)
      /\ KnownDelivery(inbox', delivered)
      /\ Head(inbox).num <= delivered[Head(inbox).msg]
  <2>1. inbox # <<>> /\ inbox' = Tail(inbox) /\ inbox \in Seq(Copies)
    BY DEF Buffer, Refuse, TypeOK
  <2>2. Head(inbox) \in Copies /\ Tail(inbox) \in Seq(Copies)
    BY <2>1, TakeCopy
  <2>3. Head(inbox).msg \in Msgs
    BY <2>2 DEF Copies
  <2>4. KnownDelivery(Tail(inbox), delivered) /\ Head(inbox).num <= delivered[Head(inbox).msg]
    BY <2>1, KnownTake DEF DeliveryInv
  <2>5. QED
    BY <2>1, <2>2, <2>3, <2>4
<1>2. CASE Buffer
  <2> USE <1>2 DEF Buffer
  <2>1. /\ msgCh' = Append(msgCh, Head(inbox))
        /\ msgCh' \in Seq(Copies)
        /\ Len(msgCh') = Len(msgCh) + 1
        /\ KnownDelivery(msgCh', delivered)
    BY <1>1, AppendCopy, KnownAppend DEF TypeOK, DeliveryInv
  <2>2. Len(msgCh') <= 2 * MaxBatch
    BY <2>1, LenProperties, BatchAssumption DEF TypeOK
  <2>3. TypeOK'
    BY <1>1, <2>1, <2>2 DEF TypeOK
  <2>4. LoopInv' /\ AckedIsAccounted' /\ DeadOnlyAtLimit'
    BY DEF LoopInv, AckedIsAccounted, DeadOnlyAtLimit, Accounted, Current
  <2>5. DeliveryInv'
    BY <1>1, <2>1 DEF DeliveryInv
  <2>6. QED
    BY <2>3, <2>4, <2>5
<1>3. CASE Refuse
  <2> USE <1>3 DEF Refuse
  <2>1. srv' \in [Msgs -> BrokerStates]
    BY <1>1, AnswerTypes
  <2>2. TypeOK'
    BY <1>1, <2>1 DEF TypeOK
  <2>3. LoopInv' /\ DeadOnlyAtLimit'
    BY DEF LoopInv, DeadOnlyAtLimit, Accounted, Current
  <2>4. AckedIsAccounted'
    BY <1>1, NakKeepsAcked DEF AckedIsAccounted, Accounted
  <2>5. DeliveryInv'
    BY <1>1, AnswerTypes DEF DeliveryInv
  <2>6. QED
    BY <2>2, <2>3, <2>4, <2>5
<1>4. QED
  BY <1>2, <1>3

-----------------------------------------------------------------------------
(* The select loop *)

LEMMA SelectInv == Inv /\ Select => Inv'
<1> SUFFICES ASSUME Inv, Receive \/ TimerFlush \/ DoneFlush PROVE Inv'
  BY DEF Select
<1> USE DEF Inv, brokerVars, queueVars, fateVars, lifeVars
<1>1. CASE Receive
  <2> USE <1>1 DEF Receive
  <2>1. /\ Head(msgCh) \in Copies
        /\ msgCh' \in Seq(Copies)
        /\ Len(msgCh') = Len(msgCh) - 1
        /\ KnownDelivery(msgCh', delivered)
        /\ Head(msgCh).num <= delivered[Head(msgCh).msg]
    BY TakeCopy, KnownTake DEF TypeOK, DeliveryInv
  <2>2. /\ batch' \in Seq(Copies)
        /\ batch' # <<>>
        /\ Len(batch') = Len(batch) + 1
        /\ KnownDelivery(batch', delivered)
    BY <2>1, AppendCopy, KnownAppend DEF TypeOK, DeliveryInv
  <2>3. /\ Len(batch) \in Nat /\ Len(msgCh) \in Nat
        /\ Len(batch) < MaxBatch
    BY LenProperties DEF TypeOK, LoopInv
  <2>4. Len(msgCh') <= 2 * MaxBatch /\ Len(batch') <= MaxBatch
    BY <2>1, <2>2, <2>3, BatchAssumption DEF TypeOK
  <2>5. pc' \in LoopStates
    BY DEF LoopStates
  <2>6. TypeOK'
    BY <2>1, <2>2, <2>4, <2>5 DEF TypeOK
  <2>7. LoopInv'
    BY <2>2, <2>3, BatchAssumption DEF LoopInv
  <2>8. DeliveryInv'
    BY <2>1, <2>2 DEF DeliveryInv
  <2>9. AckedIsAccounted' /\ DeadOnlyAtLimit'
    BY DEF AckedIsAccounted, DeadOnlyAtLimit, Accounted
  <2>10. QED
    BY <2>6, <2>7, <2>8, <2>9
<1>2. CASE TimerFlush \/ DoneFlush
  <2> USE <1>2 DEF TimerFlush, DoneFlush
  <2>1. TypeOK'
    <3>1. leaving' \in BOOLEAN
      BY DEF TypeOK
    <3>2. pc' \in LoopStates
      BY DEF LoopStates
    <3>3. QED
      BY <3>1, <3>2 DEF TypeOK
  <2>2. LoopInv'
    BY DEF LoopInv
  <2>3. DeliveryInv' /\ AckedIsAccounted' /\ DeadOnlyAtLimit'
    BY DEF DeliveryInv, AckedIsAccounted, DeadOnlyAtLimit, Accounted
  <2>4. QED
    BY <2>1, <2>2, <2>3
<1>3. QED
  BY <1>1, <1>2

-----------------------------------------------------------------------------
(* The insert *)

LEMMA RowsGrow ==
  ASSUME TypeOK, NEW J \in SUBSET (DOMAIN batch)
  PROVE  /\ RowsAfter(J) \in [Msgs -> Nat]
         /\ \A m \in Msgs : rows[m] > 0 => RowsAfter(J)[m] > 0
         /\ \A i \in J : RowsAfter(J)[batch[i].msg] > 0
<1> DEFINE N(m) == Cardinality({i \in J : batch[i].msg = m})
<1>1. \A m \in Msgs : N(m) \in Nat /\ ((\E i \in J : batch[i].msg = m) => N(m) > 0)
  <2> TAKE m \in Msgs
  <2>1. batch \in Seq(Copies)
    BY DEF TypeOK
  <2>2. QED
    BY <2>1, CountCopies
<1>2. \A m \in Msgs : rows[m] \in Nat
  BY DEF TypeOK
<1>3. \A i \in J : batch[i].msg \in Msgs
  BY CopyFields DEF TypeOK
<1>4. RowsAfter(J) = [m \in Msgs |-> rows[m] + N(m)]
  BY DEF RowsAfter
<1> HIDE DEF N
<1>5. QED
  BY <1>1, <1>2, <1>3, <1>4

LEMMA InsertInv == Inv /\ Insert => Inv'
<1> SUFFICES ASSUME Inv, NEW J \in SUBSET (DOMAIN batch),
                    InsertOk(J) \/ InsertFails(J)
             PROVE  Inv'
  BY DEF Insert
<1> USE DEF Inv, brokerVars, queueVars, lifeVars
<1>1. /\ rows' \in [Msgs -> Nat]
      /\ \A m \in Msgs : rows[m] > 0 => rows'[m] > 0
  BY RowsGrow DEF InsertOk, InsertFails, TypeOK
<1>2. dropped \subseteq dropped' /\ dropped' \subseteq Msgs
  <2>1. \A i \in DOMAIN batch : batch[i].msg \in Msgs
    BY CopyFields DEF TypeOK
  <2>2. CASE InsertOk(J)
    BY <2>1, <2>2 DEF InsertOk, TypeOK
  <2>3. CASE InsertFails(J)
    BY <2>3 DEF InsertFails, TypeOK
  <2>4. QED
    BY <2>2, <2>3
<1>3. \A m \in Msgs : Accounted(m) => Accounted(m)'
  BY <1>1, <1>2 DEF Accounted, InsertOk, InsertFails
<1>4. pc = "handler" /\ pc' = "answer" /\ batch' = batch /\ next' = next
  BY DEF InsertOk, InsertFails
<1>5. batch # <<>> /\ next = 1 /\ Len(batch) \in Nat \ {0}
  BY <1>4, EmptySeq DEF LoopInv, TypeOK
<1>6. TypeOK'
  <2>1. ok' \in BOOLEAN
    BY DEF InsertOk, InsertFails
  <2>2. pc' \in LoopStates
    BY <1>4 DEF LoopStates
  <2>3. QED
    BY <1>1, <1>2, <1>4, <2>1, <2>2 DEF InsertOk, InsertFails, TypeOK
<1>7. ok' => \A i \in DOMAIN batch : Accounted(batch[i].msg)'
  <2>1. CASE InsertOk(J)
    <3>1. \A i \in J : rows'[batch[i].msg] > 0
      BY <2>1, RowsGrow DEF InsertOk
    <3>2. \A i \in DOMAIN batch \ J : batch[i].msg \in dropped'
      BY <2>1 DEF InsertOk
    <3>3. \A i \in DOMAIN batch : rows'[batch[i].msg] > 0 \/ batch[i].msg \in dropped'
      BY <3>1, <3>2
    <3>4. batch' = batch
      BY <1>4
    <3>5. QED
      BY <3>3, <3>4 DEF Accounted
  <2>2. CASE InsertFails(J)
    BY <2>2 DEF InsertFails
  <2>3. QED
    BY <2>1, <2>2
<1>8. LoopInv'
  BY <1>4, <1>5, <1>7 DEF LoopInv, Accounted
<1>9. DeliveryInv'
  BY DEF InsertOk, InsertFails, DeliveryInv
<1>10. AckedIsAccounted' /\ DeadOnlyAtLimit'
  BY <1>3 DEF InsertOk, InsertFails, AckedIsAccounted, DeadOnlyAtLimit
<1>11. QED
  BY <1>6, <1>8, <1>9, <1>10
-----------------------------------------------------------------------------
(* The replies *)

LEMMA CurrentCopy ==
  ASSUME TypeOK, LoopInv, DeliveryInv, pc \in {"answer", "ackDead"}
  PROVE  /\ next \in DOMAIN batch
         /\ Current.msg \in Msgs
         /\ Current.num \in 1..MaxDeliver
         /\ Current.num <= delivered[Current.msg]
<1>1. next \in DOMAIN batch
  BY LenProperties DEF LoopInv, TypeOK
<1>2. QED
  BY <1>1, CopyFields DEF TypeOK, DeliveryInv, KnownDelivery, Current

(* Going on to the next message of the batch, or clearing the batch.       *)
LEMMA AdvanceInv ==
  ASSUME Inv, pc \in {"answer", "ackDead"}, Advance, UNCHANGED fateVars
  PROVE  /\ batch' \in Seq(Copies) /\ Len(batch') <= MaxBatch
         /\ pc' \in LoopStates /\ next' \in Nat \ {0}
         /\ ok' \in BOOLEAN /\ leaving' \in BOOLEAN
         /\ LoopInv'
         /\ KnownDelivery(batch', delivered)
<1> USE DEF Inv, fateVars
<1>1. Len(batch) \in Nat /\ Len(batch) <= MaxBatch /\ next \in 1..Len(batch)
  BY LenProperties DEF TypeOK, LoopInv
<1>2. CASE next < Len(batch)
  <2>1. /\ next' = next + 1 /\ pc' = "answer"
        /\ batch' = batch /\ ok' = ok /\ leaving' = leaving
    BY <1>2 DEF Advance
  <2>2. next' \in 1..Len(batch')
    BY <1>1, <1>2, <2>1
  <2>3. LoopInv'
    BY <2>1, <2>2 DEF LoopInv, Accounted
  <2>4. ok' \in BOOLEAN /\ leaving' \in BOOLEAN
    BY <2>1 DEF TypeOK
  <2>5. QED
    BY <2>1, <2>2, <2>3, <2>4 DEF TypeOK, LoopStates, DeliveryInv
<1>3. CASE ~(next < Len(batch))
  <2>1. /\ next' = 1 /\ batch' = <<>> /\ ok' = TRUE /\ leaving' = FALSE
        /\ pc' \in {"returned", "select"}
    BY <1>3 DEF Advance
  <2>2. batch' \in Seq(Copies) /\ Len(batch') = 0
    BY <2>1, EmptySeq
  <2>3. LoopInv'
    BY <2>1, <2>2, BatchAssumption DEF LoopInv
  <2>4. KnownDelivery(batch', delivered)
    BY <2>1, KnownEmpty
  <2>5. ok' \in BOOLEAN /\ leaving' \in BOOLEAN
    BY <2>1
  <2>6. QED
    BY <2>1, <2>2, <2>3, <2>4, <2>5, BatchAssumption DEF LoopStates
<1>4. QED
  BY <1>2, <1>3

LEMMA ReplyInv == Inv /\ Reply => Inv'
<1> SUFFICES ASSUME Inv, AckStored \/ NakForRetry \/ DeadLetter \/ AckDead PROVE Inv'
  BY DEF Reply
<1> USE DEF Inv, brokerVars, queueVars, fateVars, lifeVars
<1>1. pc \in {"answer", "ackDead"}
  BY DEF AckStored, NakForRetry, DeadLetter, AckDead
<1>2. /\ next \in DOMAIN batch
      /\ Current.msg \in Msgs
      /\ Current.num \in 1..MaxDeliver
      /\ Current.num <= delivered[Current.msg]
  BY <1>1, CurrentCopy
<1>3. CASE AckStored \/ NakForRetry \/ AckDead
  <2>1. Advance /\ UNCHANGED <<delivered, queueVars, fateVars, lifeVars>>
    BY <1>3 DEF AckStored, NakForRetry, AckDead
  <2>2. /\ Answer(Acked(Current.msg)) \/ Answer(NakedWithDelay(Current.msg))
        /\ Answer(NakedWithDelay(Current.msg)) \/ Accounted(Current.msg)
    BY <1>2, <1>3 DEF AckStored, NakForRetry, AckDead, LoopInv, Current
  <2>3. /\ srv' \in [Msgs -> BrokerStates]
        /\ \A n \in Msgs : srv'[n] = "acked" => srv[n] = "acked" \/ n = Current.msg
        /\ \A n \in Msgs : srv'[n] \in {"absent", "ready"} => srv'[n] = srv[n]
    BY <1>2, <2>2, AnswerTypes
  <2>4. TypeOK' /\ LoopInv'
    BY <1>1, <2>1, <2>3, AdvanceInv DEF TypeOK
  <2>5. DeliveryInv'
    BY <1>1, <2>1, <2>3, AdvanceInv DEF DeliveryInv
  <2>6. AckedIsAccounted'
    <3>1. \A n \in Msgs : Accounted(n)' <=> Accounted(n)
      BY <2>1 DEF Accounted
    <3>2. CASE Answer(NakedWithDelay(Current.msg))
      BY <1>2, <3>1, <3>2, NakKeepsAcked DEF AckedIsAccounted
    <3>3. CASE Accounted(Current.msg)
      BY <1>2, <2>3, <3>1, <3>3 DEF AckedIsAccounted
    <3>4. QED
      BY <2>2, <3>2, <3>3
  <2>7. DeadOnlyAtLimit'
    BY <2>1 DEF DeadOnlyAtLimit
  <2>8. QED
    BY <2>4, <2>5, <2>6, <2>7
<1>4. CASE DeadLetter
  <2>1. /\ pc = "answer" /\ pc' = "ackDead" /\ ~ok
        /\ AtLimit(Current)
        /\ UNCHANGED <<brokerVars, queueVars, batch, next, ok, leaving, rows, lifeVars>>
    BY <1>4 DEF DeadLetter
  <2>2. /\ dead' \in {dead, dead \cup {Current.msg}}
        /\ dropped' \in {dropped, dropped \cup {Current.msg}}
        /\ Current.msg \in dead' \cup dropped'
    BY <1>4 DEF DeadLetter
  <2>3. \A n \in Msgs : Accounted(n) => Accounted(n)'
    BY <2>1, <2>2 DEF Accounted
  <2>4. TypeOK'
    BY <1>2, <2>1, <2>2 DEF TypeOK, LoopStates
  <2>5. Accounted(Current.msg)'
    BY <2>1, <2>2 DEF Accounted, Current
  <2>6. LoopInv'
    BY <1>2, <2>1, <2>5 DEF LoopInv, Current
  <2>7. DeliveryInv'
    BY <2>1 DEF DeliveryInv
  <2>8. AckedIsAccounted'
    BY <2>1, <2>3 DEF AckedIsAccounted
  <2>9. delivered[Current.msg] = MaxDeliver
    BY <1>2, <2>1, DeliverAssumption DEF AtLimit, TypeOK
  <2>10. DeadOnlyAtLimit'
    BY <2>1, <2>2, <2>9 DEF DeadOnlyAtLimit
  <2>11. QED
    BY <2>4, <2>6, <2>7, <2>8, <2>10
<1>5. QED
  BY <1>3, <1>4

-----------------------------------------------------------------------------
(* The process *)

LEMMA ProcessInv == Inv /\ Process => Inv'
<1> SUFFICES ASSUME Inv, Process PROVE Inv'
  OBVIOUS
<1> USE DEF Inv, brokerVars, queueVars, loopVars, fateVars, lifeVars
<1>1. CASE Exit \/ CutShort \/ Crash
  <2>1. Die /\ exits < MaxExits
    BY <1>1 DEF Exit, CutShort, Crash
  <2>2. /\ inbox' = <<>> /\ msgCh' = <<>> /\ batch' = <<>> /\ pc' = "down" /\ next' = 1
        /\ ok' = TRUE /\ leaving' = FALSE /\ ctxDone' = FALSE /\ exits' = exits + 1
        /\ conn' = "none"
        /\ UNCHANGED <<srv, delivered, rows, dead, dropped>>
    BY <2>1 DEF Die
  <2>3. /\ inbox' \in Seq(Copies) /\ msgCh' \in Seq(Copies) /\ batch' \in Seq(Copies)
        /\ Len(msgCh') <= 2 * MaxBatch /\ Len(batch') <= MaxBatch
    BY <2>2, EmptySeq, BatchAssumption
  <2>4. exits' \in 0..MaxExits /\ exits' > 0
    BY <2>1, <2>2, ExitsAssumption DEF TypeOK
  <2>5. ok' \in BOOLEAN /\ leaving' \in BOOLEAN /\ ctxDone' \in BOOLEAN
    BY <2>2
  <2>6. TypeOK'
    BY <2>2, <2>3, <2>4, <2>5 DEF TypeOK, LoopStates, ConnStates
  <2>7. LoopInv'
    BY <2>2, <2>4 DEF LoopInv
  <2>8. DeliveryInv'
    BY <2>2, KnownEmpty DEF DeliveryInv
  <2>9. AckedIsAccounted' /\ DeadOnlyAtLimit'
    BY <2>2 DEF AckedIsAccounted, DeadOnlyAtLimit, Accounted
  <2>10. QED
    BY <2>6, <2>7, <2>8, <2>9
<1>2. CASE Cancel \/ CloseBroker \/ Restart
  <2> USE <1>2 DEF Cancel, CloseBroker, Restart
  <2>1. ctxDone' \in BOOLEAN
    BY DEF TypeOK
  <2>2. conn' \in ConnStates
    BY DEF TypeOK, ConnStates
  <2>3. TypeOK'
    BY <2>1, <2>2 DEF TypeOK, LoopStates
  <2>4. LoopInv'
    BY EmptySeq, BatchAssumption DEF LoopInv, Accounted, Current, TypeOK
  <2>5. DeliveryInv' /\ AckedIsAccounted' /\ DeadOnlyAtLimit'
    BY DEF DeliveryInv, AckedIsAccounted, DeadOnlyAtLimit, Accounted
  <2>6. QED
    BY <2>3, <2>4, <2>5
<1>3. CASE GiveUp
  <2> USE <1>3 DEF GiveUp
  <2>1. inbox' \in Seq(Copies) /\ KnownDelivery(inbox', delivered)
    <3>1. CASE inbox' = <<>>
      BY <3>1, EmptySeq, KnownEmpty
    <3>2. CASE inbox # <<>> /\ inbox' = <<Head(inbox)>>
      <4>1. inbox \in Seq(Copies) /\ KnownDelivery(inbox, delivered)
        BY DEF TypeOK, DeliveryInv
      <4>2. Head(inbox) \in Copies /\ Head(inbox).num <= delivered[Head(inbox).msg]
        BY <3>2, <4>1, TakeCopy, KnownTake
      <4>3. \A i \in DOMAIN inbox' : inbox'[i] = Head(inbox)
        BY <3>2
      <4>4. QED
        BY <3>2, <4>2, <4>3 DEF KnownDelivery
    <3>3. QED
      BY <3>1, <3>2
  <2>2. conn' \in ConnStates
    BY DEF ConnStates
  <2>3. TypeOK'
    BY <2>1, <2>2 DEF TypeOK
  <2>4. LoopInv'
    BY DEF LoopInv, Accounted, Current
  <2>5. DeliveryInv'
    BY <2>1 DEF DeliveryInv
  <2>6. AckedIsAccounted' /\ DeadOnlyAtLimit'
    BY DEF AckedIsAccounted, DeadOnlyAtLimit, Accounted
  <2>7. QED
    BY <2>3, <2>4, <2>5, <2>6
<1>4. QED
  BY <1>1, <1>2, <1>3 DEF Process

-----------------------------------------------------------------------------
(* The theorems *)

LEMMA StutterInv == Inv /\ UNCHANGED vars => Inv'
  BY DEF Inv, vars, TypeOK, LoopInv, DeliveryInv, AckedIsAccounted, DeadOnlyAtLimit,
         Accounted, Current

LEMMA NextInv == Inv /\ [Next]_vars => Inv'
  BY BrokerInv, CallbackInv, SelectInv, InsertInv, ReplyInv, ProcessInv, StutterInv
     DEF Next

(* The inductive invariant holds in every reachable state. *)
THEOREM Invariance == Spec => []Inv
  BY InitInv, NextInv, PTL DEF Spec

(* Type correctness, with the capacities of the channel and the batch:     *)
(* ConsumeLogs never holds more than 2*maxBatch copies in msgCh nor more   *)
(* than maxBatch in batch.                                                 *)
THEOREM TypeCorrect == Spec => []TypeOK
<1>1. Inv => TypeOK
  BY DEF Inv
<1>2. QED
  BY <1>1, Invariance, PTL

(* No Ack of ConsumeLogs loses a message silently, however deliveries,     *)
(* ack timeouts, failed inserts, shutdowns and crashes interleave.         *)
THEOREM AckSafety == Spec => []AckedIsAccounted
<1>1. Inv => AckedIsAccounted
  BY DEF Inv
<1>2. QED
  BY <1>1, Invariance, PTL

(* Only messages that have used up their deliveries are dead-lettered.     *)
THEOREM DeadLetterSafety == Spec => []DeadOnlyAtLimit
<1>1. Inv => DeadOnlyAtLimit
  BY DEF Inv
<1>2. QED
  BY <1>1, Invariance, PTL
-----------------------------------------------------------------------------
(* The last delivery: when the broker has made it, the fate of the message *)
(* is known or its last copy is still to be answered.                      *)

LEMMA AppendHas ==
  ASSUME NEW S, NEW q \in Seq(S), NEW c \in S
  PROVE  /\ \A i \in DOMAIN q : i \in DOMAIN Append(q, c) /\ Append(q, c)[i] = q[i]
         /\ Len(q) + 1 \in DOMAIN Append(q, c) /\ Append(q, c)[Len(q) + 1] = c
<1>1. Len(q) \in Nat /\ DOMAIN q = 1..Len(q)
  BY LenProperties
<1>2. Append(q, c) \in Seq(S) /\ Len(Append(q, c)) = Len(q) + 1
  BY AppendProperties
<1>3. DOMAIN Append(q, c) = 1..(Len(q) + 1)
  BY <1>2, LenProperties
<1>4. QED
  BY <1>1, <1>3, AppendProperties

LEMMA TailHas ==
  ASSUME NEW S, NEW q \in Seq(S), q # <<>>, NEW i \in DOMAIN q, q[i] # Head(q)
  PROVE  \E j \in DOMAIN Tail(q) : Tail(q)[j] = q[i]
<1>1. Len(q) \in Nat \ {0} /\ DOMAIN q = 1..Len(q) /\ Head(q) = q[1]
  BY EmptySeq, LenProperties
<1>2. i \in 2..Len(q)
  BY <1>1
<1>3. Tail(q) \in Seq(S) /\ Len(Tail(q)) = Len(q) - 1
  BY HeadTailProperties
<1>4. DOMAIN Tail(q) = 1..(Len(q) - 1)
  BY <1>3, LenProperties
<1>5. i - 1 \in DOMAIN Tail(q) /\ Tail(q)[i - 1] = q[i]
  BY <1>1, <1>2, <1>4, HeadTailProperties
<1>6. QED
  BY <1>5

LastOf(m) == [msg |-> m, num |-> MaxDeliver]
Holds(q, c) == \E i \in DOMAIN q : q[i] = c
HoldsFrom(q, k, c) == \E i \in DOMAIN q : k <= i /\ q[i] = c

LEMMA HeldIs ==
  ASSUME NEW m
  PROVE  LastCopyHeld(m) <=> \/ Holds(inbox, LastOf(m)) \/ Holds(msgCh, LastOf(m))
                             \/ HoldsFrom(batch, next, LastOf(m))
  BY DEF LastCopyHeld, LastOf, Holds, HoldsFrom

LEMMA HeldIsNext ==
  ASSUME NEW m
  PROVE  LastCopyHeld(m)' <=> \/ Holds(inbox', LastOf(m)) \/ Holds(msgCh', LastOf(m))
                              \/ HoldsFrom(batch', next', LastOf(m))
  BY DEF LastCopyHeld, LastOf, Holds, HoldsFrom

LEMMA LastInit == Init => LastDeliveryInv
  BY DeliverAssumption DEF Init, LastDeliveryInv

LEMMA AccountedGrows == Inv /\ Next => \A m \in Msgs : Accounted(m) => Accounted(m)'
<1> SUFFICES ASSUME Inv, Next
             PROVE  \A m \in Msgs : Accounted(m) => Accounted(m)'
  OBVIOUS
<1> USE DEF fateVars, lifeVars, loopVars, queueVars, brokerVars
<1>1. CASE Broker \/ Callback \/ Select \/ Process
  <2>1. UNCHANGED fateVars
    BY <1>1 DEF Broker, Publish, Discard, Deliver, Expire, Exhaust, Callback, Buffer, Refuse,
                Select, Receive, TimerFlush, DoneFlush, Process, Cancel, GiveUp, CloseBroker, Exit,
                CutShort, Crash, Die, Restart
  <2>2. QED
    BY <2>1 DEF Accounted
<1>2. CASE Insert
  <2>1. PICK J \in SUBSET (DOMAIN batch) : InsertOk(J) \/ InsertFails(J)
    BY <1>2 DEF Insert
  <2>2. \A m \in Msgs : rows[m] > 0 => rows'[m] > 0
    BY <2>1, RowsGrow DEF Inv, InsertOk, InsertFails
  <2>3. dropped \subseteq dropped' /\ dead' = dead
    BY <2>1 DEF InsertOk, InsertFails
  <2>4. QED
    BY <2>2, <2>3 DEF Accounted
<1>3. CASE Reply
  <2>1. rows' = rows /\ dead \subseteq dead' /\ dropped \subseteq dropped'
    BY <1>3 DEF Reply, AckStored, NakForRetry, DeadLetter, AckDead
  <2>2. QED
    BY <2>1 DEF Accounted
<1>4. QED
  BY <1>1, <1>2, <1>3 DEF Next

(* Giving a message up needs its last delivery.                            *)
LEMMA ExhaustedAtLimit ==
  Inv /\ LastDeliveryInv /\ Next =>
    \A m \in Msgs : srv'[m] = "exhausted" => delivered'[m] = MaxDeliver
<1> SUFFICES ASSUME Inv, LastDeliveryInv, Next, NEW m \in Msgs, srv'[m] = "exhausted"
             PROVE  delivered'[m] = MaxDeliver
  OBVIOUS
<1> USE DEF fateVars, lifeVars, loopVars, queueVars, brokerVars
<1>0. srv \in [Msgs -> BrokerStates] /\ delivered \in [Msgs -> 0..MaxDeliver]
  BY DEF Inv, TypeOK
<1>1. CASE Broker
  <2>1. PICK n \in Msgs : Publish(n) \/ Discard(n) \/ Deliver(n) \/ Expire(n) \/ Exhaust(n)
    BY <1>1 DEF Broker
  <2>2. CASE Exhaust(n)
    BY <1>0, <2>2 DEF Exhaust, LastDeliveryInv
  <2>3. CASE Deliver(n)
    BY <1>0, <2>3 DEF Deliver, LastDeliveryInv
  <2>4. CASE Publish(n) \/ Discard(n) \/ Expire(n)
    BY <1>0, <2>4 DEF Publish, Discard, Expire, LastDeliveryInv
  <2>5. QED
    BY <2>1, <2>2, <2>3, <2>4
<1>2. CASE delivered' = delivered /\ srv[m] = "exhausted"
  BY <1>2 DEF LastDeliveryInv
<1>3. CASE Callback \/ Reply
  <2>1. delivered' = delivered
    BY <1>3 DEF Callback, Buffer, Refuse, Reply, AckStored, NakForRetry, DeadLetter, AckDead
  <2>2. srv' = srv \/ \E n : Answer(Acked(n)) \/ Answer(Naked(n)) \/ Answer(NakedWithDelay(n))
    BY <1>3 DEF Callback, Buffer, Refuse, Reply, AckStored, NakForRetry, DeadLetter, AckDead
  <2>3. srv[m] = "exhausted"
    BY <1>0, <2>2 DEF Answer, Acked, Naked, NakedWithDelay
  <2>4. QED
    BY <1>2, <2>1, <2>3
<1>4. CASE Select \/ Insert \/ Process
  <2>1. delivered' = delivered /\ srv' = srv
    BY <1>4 DEF Select, Receive, TimerFlush, DoneFlush, Insert, InsertOk, InsertFails,
                Process, Cancel, GiveUp, CloseBroker, Exit,
                CutShort, Crash, Die, Restart
  <2>2. QED
    BY <1>2, <2>1
<1>5. QED
  BY <1>1, <1>3, <1>4 DEF Next

(* A step of the undisturbed process moves the last copy on, or decides    *)
(* the fate of its message.                                                *)
LEMMA LastCopyStep ==
  ASSUME Inv, LastDeliveryInv, Next, NEW m \in Msgs,
         delivered'[m] = MaxDeliver, Undisturbed'
  PROVE  Accounted(m)' \/ LastCopyHeld(m)'
<1> DEFINE c == LastOf(m)
<1> USE DEF fateVars, lifeVars, loopVars, queueVars, brokerVars
<1>0. /\ inbox \in Seq(Copies) /\ msgCh \in Seq(Copies) /\ batch \in Seq(Copies)
      /\ delivered \in [Msgs -> 0..MaxDeliver] /\ exits \in Nat /\ MaxDeliver \in Nat
      /\ ctxDone \in BOOLEAN /\ exits' = 0 /\ ~ctxDone' /\ conn' = "up"
  BY DeliverAssumption, ExitsAssumption DEF Inv, TypeOK, Undisturbed
<1>1. SUFFICES ASSUME Undisturbed
               PROVE  Accounted(m)' \/ LastCopyHeld(m)'
  <2>1. CASE Process
    <3>1. CASE Cancel \/ GiveUp \/ CloseBroker
      BY <1>0, <3>1 DEF Cancel, GiveUp, CloseBroker
    <3>2. CASE Exit \/ CutShort \/ Crash
      BY <1>0, <3>2 DEF Exit, CutShort, Crash, Die
    <3>3. CASE Restart
      BY <1>0, <3>3 DEF Restart, Inv, LoopInv
    <3>4. QED
      BY <2>1, <3>1, <3>2, <3>3 DEF Process
  <2>2. CASE Broker \/ Callback \/ Select \/ Insert \/ Reply
    <3>1. UNCHANGED lifeVars
      BY <2>2 DEF Broker, Publish, Discard, Deliver, Expire, Exhaust, Callback, Buffer, Refuse,
                  Select, Receive, TimerFlush, DoneFlush, Insert, InsertOk, InsertFails,
                  Reply, AckStored, NakForRetry, DeadLetter, AckDead
    <3>2. QED
      BY <1>0, <1>1, <3>1 DEF Undisturbed
  <2>3. QED
    BY <2>1, <2>2 DEF Next
<1>2. CASE delivered[m] # MaxDeliver
  <2>1. PICK n \in Msgs : Deliver(n)
    BY <1>2 DEF Next, Broker, Publish, Discard, Expire, Exhaust, Callback, Buffer, Refuse,
                Select, Receive, TimerFlush, DoneFlush, Insert, InsertOk, InsertFails,
                Reply, AckStored, NakForRetry, DeadLetter, AckDead,
                Process, Cancel, GiveUp, CloseBroker, Exit,
                CutShort, Crash, Die, Restart
  <2>2. n = m /\ delivered[m] + 1 = MaxDeliver
    BY <1>0, <1>2, <2>1 DEF Deliver
  <2>3. inbox' = Append(inbox, c)
    BY <2>1, <2>2 DEF Deliver, LastOf
  <2>4. c \in Copies
    BY DeliverAssumption DEF Copies, LastOf
  <2> HIDE DEF c
  <2>5. Holds(inbox', c)
    BY <1>0, <2>3, <2>4, AppendHas DEF Holds
  <2>6. QED
    BY <2>5, HeldIsNext DEF c
<1>3. CASE delivered[m] = MaxDeliver /\ Accounted(m)
  BY <1>3, AccountedGrows
<1>4. CASE delivered[m] = MaxDeliver /\ LastCopyHeld(m) /\ ~Accounted(m)
  <2> HIDE DEF c
  <2>0. Holds(inbox, c) \/ Holds(msgCh, c) \/ HoldsFrom(batch, next, c)
    BY <1>4, HeldIs DEF c
  <2>a. SUFFICES Accounted(m)' \/ Holds(inbox', c) \/ Holds(msgCh', c)
                               \/ HoldsFrom(batch', next', c)
    BY HeldIsNext DEF c
  <2>b. c.msg = m /\ c.num = MaxDeliver
    BY DEF c, LastOf
  <2>c. exits = 0 /\ ~ctxDone
    BY <1>1 DEF Undisturbed
  <2>1. CASE Broker
    <3>1. PICK n \in Msgs : Publish(n) \/ Discard(n) \/ Deliver(n) \/ Expire(n) \/ Exhaust(n)
      BY <2>1 DEF Broker
    <3>2. msgCh' = msgCh /\ batch' = batch /\ next' = next
      BY <3>1 DEF Publish, Discard, Deliver, Expire, Exhaust
    <3>3. CASE Deliver(n)
      <4> DEFINE d == [msg |-> n, num |-> delivered[n] + 1]
      <4>1. delivered[n] < MaxDeliver
        BY <3>3, DeliverAssumption DEF Deliver, Inv, DeliveryInv
      <4>2. d \in Copies
        BY <1>0, <4>1 DEF Copies
      <4>3. inbox' = Append(inbox, d)
        BY <3>3 DEF Deliver
      <4> HIDE DEF d
      <4>4. Holds(inbox, c) => Holds(inbox', c)
        BY <1>0, <4>2, <4>3, AppendHas DEF Holds
      <4>5. QED
        BY <2>0, <3>2, <4>4
    <3>4. CASE Publish(n) \/ Discard(n) \/ Expire(n) \/ Exhaust(n)
      <4>1. inbox' = inbox
        BY <3>4 DEF Publish, Discard, Expire, Exhaust
      <4>2. QED
        BY <2>0, <3>2, <4>1
    <3>5. QED
      BY <3>1, <3>3, <3>4
  <2>2. CASE Callback
    <3>1. Buffer
      BY <2>2, <2>c DEF Callback, Refuse
    <3>2. /\ inbox # <<>> /\ inbox' = Tail(inbox) /\ msgCh' = Append(msgCh, Head(inbox))
          /\ batch' = batch /\ next' = next
      BY <3>1 DEF Buffer
    <3>3. Head(inbox) \in Copies
      BY <1>0, <3>2, TakeCopy
    <3>4. Holds(msgCh, c) => Holds(msgCh', c)
      BY <1>0, <3>2, <3>3, AppendHas DEF Holds
    <3>5. Holds(inbox, c) => Holds(inbox', c) \/ Holds(msgCh', c)
      <4>1. CASE c = Head(inbox)
        BY <1>0, <3>2, <3>3, <4>1, AppendHas DEF Holds
      <4>2. CASE c # Head(inbox)
        BY <1>0, <3>2, <4>2, TailHas DEF Holds
      <4>3. QED
        BY <4>1, <4>2
    <3>6. QED
      BY <2>0, <3>2, <3>4, <3>5
  <2>3. CASE Select
    <3>1. CASE Receive
      <4>1. /\ msgCh # <<>> /\ msgCh' = Tail(msgCh) /\ batch' = Append(batch, Head(msgCh))
            /\ inbox' = inbox /\ next' = next /\ next = 1
        BY <3>1 DEF Receive, Inv, LoopInv
      <4>2. Head(msgCh) \in Copies
        BY <1>0, <4>1, TakeCopy
      <4>3. HoldsFrom(batch, next, c) => HoldsFrom(batch', next', c)
        BY <1>0, <4>1, <4>2, AppendHas DEF HoldsFrom
      <4>4. Holds(msgCh, c) => Holds(msgCh', c) \/ HoldsFrom(batch', next', c)
        <5>1. CASE c = Head(msgCh)
          <6>1. Len(batch) \in Nat
            BY <1>0, LenProperties
          <6>2. 1 <= Len(batch) + 1
            BY <6>1
          <6>3. QED
            BY <1>0, <4>1, <4>2, <5>1, <6>2, AppendHas DEF HoldsFrom
        <5>2. CASE c # Head(msgCh)
          BY <1>0, <4>1, <5>2, TailHas DEF Holds
        <5>3. QED
          BY <5>1, <5>2
      <4>5. QED
        BY <2>0, <4>1, <4>3, <4>4
    <3>2. CASE TimerFlush \/ DoneFlush
      <4>1. inbox' = inbox /\ msgCh' = msgCh /\ batch' = batch /\ next' = next
        BY <3>2 DEF TimerFlush, DoneFlush
      <4>2. QED
        BY <2>0, <4>1
    <3>3. QED
      BY <2>3, <3>1, <3>2 DEF Select
  <2>4. CASE Insert
    <3>1. inbox' = inbox /\ msgCh' = msgCh /\ batch' = batch /\ next' = next
      BY <2>4 DEF Insert, InsertOk, InsertFails
    <3>2. QED
      BY <2>0, <3>1
  <2>5. CASE Reply
    <3>1. inbox' = inbox /\ msgCh' = msgCh
      BY <2>5 DEF Reply, AckStored, NakForRetry, DeadLetter, AckDead
    <3>2. CASE Holds(inbox, c) \/ Holds(msgCh, c)
      BY <3>1, <3>2
    <3>3. CASE HoldsFrom(batch, next, c)
      <4>1. PICK i \in DOMAIN batch : next <= i /\ batch[i] = c
        BY <3>3 DEF HoldsFrom
      <4>2. pc \in {"answer", "ackDead"} /\ next \in DOMAIN batch
        BY <2>5, CurrentCopy DEF Inv, Reply, AckStored, NakForRetry, DeadLetter, AckDead
      <4>3. Len(batch) \in Nat /\ DOMAIN batch = 1..Len(batch)
        BY <1>0, LenProperties
      <4>4. CASE DeadLetter
        <5>1. batch' = batch /\ next' = next
          BY <4>4 DEF DeadLetter
        <5>2. QED
          BY <3>3, <5>1
      <4>5. CASE ~DeadLetter
        <5>1. Advance /\ i # next
          <6>1. CASE AckStored
            <7>1. Accounted(batch[i].msg)
              BY <6>1 DEF AckStored, Inv, LoopInv
            <7>2. QED
              BY <1>4, <2>b, <4>1, <7>1
          <6>2. CASE NakForRetry
            BY <1>0, <2>b, <4>1, <6>2 DEF NakForRetry, AtLimit, Current
          <6>3. CASE AckDead
            <7>1. Accounted(batch[next].msg)
              BY <6>3 DEF AckDead, Inv, LoopInv, Current
            <7>2. Advance
              BY <6>3 DEF AckDead
            <7>3. QED
              BY <1>4, <2>b, <4>1, <7>1, <7>2
          <6>4. QED
            BY <2>5, <4>5, <6>1, <6>2, <6>3 DEF Reply
        <5>2. next < Len(batch) /\ next + 1 <= i
          BY <4>1, <4>2, <4>3, <5>1
        <5>3. batch' = batch /\ next' = next + 1
          BY <5>1, <5>2 DEF Advance
        <5>4. QED
          BY <4>1, <5>2, <5>3 DEF HoldsFrom
      <4>6. QED
        BY <4>4, <4>5
    <3>4. QED
      BY <2>0, <3>2, <3>3
  <2>6. CASE Process
    <3>1. exits = 0 /\ exits' = 0 /\ ~ctxDone' /\ conn' = "up" /\ (pc = "down" => exits > 0)
      BY <1>0, <2>c DEF Inv, LoopInv
    <3>2. ~Cancel /\ ~GiveUp /\ ~CloseBroker /\ ~Restart
      BY <3>1 DEF Cancel, GiveUp, CloseBroker, Restart
    <3>3. ~Exit /\ ~CutShort /\ ~Crash
      BY <3>1 DEF Exit, CutShort, Crash, Die
    <3>4. QED
      BY <2>6, <3>2, <3>3 DEF Process
  <2>7. QED
    BY <2>1, <2>2, <2>3, <2>4, <2>5, <2>6 DEF Next
<1>5. QED
  BY <1>1, <1>2, <1>3, <1>4 DEF LastDeliveryInv

LEMMA LastStep == Inv /\ LastDeliveryInv /\ [Next]_vars => LastDeliveryInv'
<1>1. CASE UNCHANGED vars
  BY <1>1 DEF vars, LastDeliveryInv, LastCopyHeld, Accounted, Undisturbed
<1>2. CASE Inv /\ LastDeliveryInv /\ Next
  BY <1>2, ExhaustedAtLimit, LastCopyStep DEF LastDeliveryInv
<1>3. QED
  BY <1>1, <1>2

(* Until the process is signalled or ends, a message that the broker has   *)
(* given up is accounted for or will be: MaxDeliver retries, expired ack   *)
(* waits and copies that overtake each other leave none without an owner.  *)
THEOREM GivenUpIsInProcess == Spec => []ExhaustedIsInProcess
<1>1. Inv /\ LastDeliveryInv => ExhaustedIsInProcess
  <2> SUFFICES ASSUME LastDeliveryInv, NEW m \in Msgs, LastCopyHeld(m) PROVE InProcess(m)
    BY DEF LastDeliveryInv, ExhaustedIsInProcess
  <2>1. QED
    BY DEF LastCopyHeld, InProcess
<1>2. Init => LastDeliveryInv
  BY LastInit
<1>3. Spec => []LastDeliveryInv
  BY <1>2, LastStep, Invariance, PTL DEF Spec
<1>4. QED
  BY <1>1, <1>3, Invariance, PTL
-----------------------------------------------------------------------------
(* Counting copies: appending adds one, taking the head removes one.       *)

LEMMA CountType ==
  ASSUME NEW S, NEW q \in Seq(S), NEW m
  PROVE  Unhandled(m, q) \in Nat /\ IsFiniteSet({i \in DOMAIN q : q[i].msg = m})
<1>1. DOMAIN q = 1..Len(q) /\ Len(q) \in Nat
  BY LenProperties
<1>2. IsFiniteSet(1..Len(q))
  BY <1>1, FS_Interval
<1>3. IsFiniteSet({i \in DOMAIN q : q[i].msg = m})
  BY <1>1, <1>2, FS_Subset
<1>4. QED
  BY <1>3, FS_CardinalityType DEF Unhandled

LEMMA CountNone == ASSUME NEW m PROVE Unhandled(m, <<>>) = 0
<1>1. {i \in DOMAIN <<>> : <<>>[i].msg = m} = {}
  OBVIOUS
<1>2. QED
  BY <1>1, FS_EmptySet DEF Unhandled

LEMMA CountAppend ==
  ASSUME NEW S, NEW q \in Seq(S), NEW c \in S, NEW m
  PROVE  Unhandled(m, Append(q, c)) = Unhandled(m, q) + (IF c.msg = m THEN 1 ELSE 0)
<1> DEFINE A == {i \in DOMAIN q : q[i].msg = m}
           B == {i \in DOMAIN Append(q, c) : Append(q, c)[i].msg = m}
<1>1. Len(q) \in Nat /\ DOMAIN q = 1..Len(q)
  BY LenProperties
<1>2. /\ DOMAIN Append(q, c) = 1..(Len(q) + 1)
      /\ \A i \in 1..Len(q) : Append(q, c)[i] = q[i]
      /\ Append(q, c)[Len(q) + 1] = c
  <2>1. Append(q, c) \in Seq(S) /\ Len(Append(q, c)) = Len(q) + 1
    BY AppendProperties
  <2>2. DOMAIN Append(q, c) = 1..(Len(q) + 1)
    BY <2>1, LenProperties
  <2>3. QED
    BY <1>1, <2>2, AppendProperties
<1>3. B = IF c.msg = m THEN A \cup {Len(q) + 1} ELSE A
  BY <1>1, <1>2
<1>4. IsFiniteSet(A) /\ Cardinality(A) \in Nat
  BY CountType DEF Unhandled
<1>5. Len(q) + 1 \notin A
  BY <1>1
<1> HIDE DEF A, B
<1>6. Cardinality(A \cup {Len(q) + 1}) = Cardinality(A) + 1
  BY <1>4, <1>5, FS_AddElement
<1>7. Cardinality(B) = Cardinality(A) + (IF c.msg = m THEN 1 ELSE 0)
  BY <1>3, <1>4, <1>6
<1>8. QED
  BY <1>7 DEF A, B, Unhandled

LEMMA CountTail ==
  ASSUME NEW S, NEW q \in Seq(S), q # <<>>, NEW m
  PROVE  Unhandled(m, q) = Unhandled(m, Tail(q)) + (IF Head(q).msg = m THEN 1 ELSE 0)
<1> DEFINE A == {i \in DOMAIN q : q[i].msg = m}
           B == {i \in DOMAIN Tail(q) : Tail(q)[i].msg = m}
           C == A \ {1}
           f == [i \in B |-> i + 1]
<1>1. Len(q) \in Nat \ {0} /\ DOMAIN q = 1..Len(q) /\ Head(q) = q[1]
  BY EmptySeq, LenProperties
<1>2. Tail(q) \in Seq(S) /\ Len(Tail(q)) = Len(q) - 1
  BY HeadTailProperties
<1>3. /\ DOMAIN Tail(q) = 1..(Len(q) - 1)
      /\ \A i \in 1..(Len(q) - 1) : Tail(q)[i] = q[i + 1]
  BY <1>1, <1>2, LenProperties, HeadTailProperties
<1>4. IsFiniteSet(A) /\ IsFiniteSet(B) /\ Cardinality(A) \in Nat /\ Cardinality(B) \in Nat
  BY <1>2, CountType DEF Unhandled
<1>5. f \in [B -> C]
  BY <1>1, <1>3
<1>6. \A i, j \in B : f[i] = f[j] => i = j
  BY <1>3
<1>7. \A k \in C : \E i \in B : f[i] = k
  <2> SUFFICES ASSUME NEW k \in C PROVE \E i \in B : f[i] = k
    OBVIOUS
  <2>1. k \in 2..Len(q) /\ q[k].msg = m
    BY <1>1
  <2>2. k - 1 \in B /\ f[k - 1] = k
    BY <1>1, <1>3, <2>1
  <2>3. QED
    BY <2>2
<1>8. 1 \in A <=> Head(q).msg = m
  BY <1>1
<1> HIDE DEF A, B, f
<1>9. f \in Bijection(B, C)
  BY <1>5, <1>6, <1>7 DEF Bijection, Injection, Surjection, IsInjective
<1>10. Cardinality(C) = Cardinality(B)
  BY <1>4, <1>9, FS_Bijection DEF ExistsBijection
<1>11. Cardinality(C) = IF 1 \in A THEN Cardinality(A) - 1 ELSE Cardinality(A)
  BY <1>4, FS_RemoveElement
<1> HIDE DEF C
<1>12. Cardinality(A) = Cardinality(B) + (IF Head(q).msg = m THEN 1 ELSE 0)
  BY <1>4, <1>8, <1>10, <1>11
<1>13. QED
  BY <1>12 DEF A, B, Unhandled

(* Keeping the first copy, or none, counts no more.                        *)
LEMMA CountFirst ==
  ASSUME NEW S, NEW q \in Seq(S), NEW p, NEW m,
         p = <<>> \/ (q # <<>> /\ p = <<Head(q)>>)
  PROVE  Unhandled(m, p) \in Nat /\ Unhandled(m, p) <= Unhandled(m, q)
<1>1. Unhandled(m, q) \in Nat /\ Unhandled(m, <<>>) = 0
  BY CountType, CountNone
<1>2. CASE p = <<>>
  BY <1>1, <1>2
<1>3. CASE q # <<>> /\ p = <<Head(q)>>
  <2>1. Head(q) \in S /\ Tail(q) \in Seq(S)
    BY <1>3, TakeCopy
  <2>2. Unhandled(m, q) = Unhandled(m, Tail(q)) + (IF Head(q).msg = m THEN 1 ELSE 0)
    BY <1>3, CountTail
  <2>3. Unhandled(m, Tail(q)) \in Nat
    BY <2>1, CountType
  <2>4. <<>> \in Seq(S) /\ p = Append(<<>>, Head(q))
    BY <1>3, EmptySeq
  <2>5. Unhandled(m, p) = Unhandled(m, <<>>) + (IF Head(q).msg = m THEN 1 ELSE 0)
    BY <2>1, <2>4, CountAppend
  <2>6. CASE Head(q).msg = m
    BY <1>1, <2>2, <2>3, <2>5, <2>6
  <2>7. CASE Head(q).msg # m
    BY <1>1, <2>2, <2>3, <2>5, <2>7
  <2>8. QED
    BY <2>6, <2>7
<1>4. QED
  BY <1>2, <1>3

(* The copies of a message in the batch that may still be inserted.        *)
InBatch(m) == IF pc \in {"select", "handler"} THEN Unhandled(m, batch) ELSE 0

LEMMA SumsBelow ==
  ASSUME NEW r \in Nat, NEW i \in Nat, NEW c \in Nat, NEW b \in Nat, NEW d \in Nat,
         NEW i2 \in Nat, NEW c2 \in Nat, i2 + c2 <= i + c, r + i + c + b <= d
  PROVE  r + i2 + c2 + b <= d
OBVIOUS

LEMMA RowsStep ==
  ASSUME Inv, Next, NEW m \in Msgs,
         rows[m] + Unhandled(m, inbox) + Unhandled(m, msgCh) + InBatch(m) <= delivered[m]
  PROVE  rows'[m] + Unhandled(m, inbox') + Unhandled(m, msgCh') + InBatch(m)' <= delivered'[m]
<1> USE DEF fateVars, lifeVars, loopVars, queueVars, brokerVars
<1> DEFINE I == Unhandled(m, inbox)  M == Unhandled(m, msgCh)  B == Unhandled(m, batch)
<1>0. /\ inbox \in Seq(Copies) /\ msgCh \in Seq(Copies) /\ batch \in Seq(Copies)
      /\ rows[m] \in Nat /\ delivered[m] \in Nat
      /\ delivered \in [Msgs -> 0..MaxDeliver]
  BY DeliverAssumption DEF Inv, TypeOK
<1>1. I \in Nat /\ M \in Nat /\ B \in Nat
  BY <1>0, CountType
<1>2. CASE Broker
  <2>1. PICK n \in Msgs : Publish(n) \/ Discard(n) \/ Deliver(n) \/ Expire(n) \/ Exhaust(n)
    BY <1>2 DEF Broker
  <2>2. rows' = rows /\ msgCh' = msgCh /\ InBatch(m)' = InBatch(m)
    BY <2>1 DEF Publish, Discard, Deliver, Expire, Exhaust, InBatch
  <2>3. CASE Deliver(n)
    <3> DEFINE d == [msg |-> n, num |-> delivered[n] + 1]
    <3>1. delivered[n] < MaxDeliver /\ delivered[n] \in Nat
      BY <1>0, <2>3, DeliverAssumption DEF Deliver, Inv, DeliveryInv
    <3>2. d \in Copies
      BY <3>1, DeliverAssumption DEF Copies
    <3>3. inbox' = Append(inbox, d)
      BY <2>3 DEF Deliver
    <3>4. delivered'[m] = delivered[m] + (IF n = m THEN 1 ELSE 0)
      BY <1>0, <2>3 DEF Deliver
    <3>5. d.msg = n
      OBVIOUS
    <3> HIDE DEF d
    <3>6. Unhandled(m, inbox') = I + (IF n = m THEN 1 ELSE 0)
      BY <1>0, <3>2, <3>3, <3>5, CountAppend
    <3>7. InBatch(m) \in Nat
      BY <1>1 DEF InBatch
    <3> HIDE DEF I, M, B
    <3>8. QED
      BY <1>0, <1>1, <2>2, <3>4, <3>6, <3>7 DEF I, M
  <2>4. CASE Publish(n) \/ Discard(n) \/ Expire(n) \/ Exhaust(n)
    <3>1. inbox' = inbox /\ delivered' = delivered
      BY <2>4 DEF Publish, Discard, Expire, Exhaust
    <3>2. QED
      BY <2>2, <3>1
  <2>5. QED
    BY <2>1, <2>3, <2>4
<1>3. CASE Callback
  <2>1. /\ inbox # <<>> /\ inbox' = Tail(inbox) /\ rows' = rows /\ delivered' = delivered
        /\ InBatch(m)' = InBatch(m)
        /\ msgCh' = msgCh \/ msgCh' = Append(msgCh, Head(inbox))
    BY <1>3 DEF Callback, Buffer, Refuse, InBatch
  <2>2. Head(inbox) \in Copies
    BY <1>0, <2>1, TakeCopy
  <2>3. I = Unhandled(m, inbox') + (IF Head(inbox).msg = m THEN 1 ELSE 0)
    BY <1>0, <2>1, CountTail
  <2>4. \/ Unhandled(m, msgCh') = M
        \/ Unhandled(m, msgCh') = M + (IF Head(inbox).msg = m THEN 1 ELSE 0)
    BY <1>0, <2>1, <2>2, CountAppend
  <2>5. Unhandled(m, inbox') \in Nat /\ InBatch(m) \in Nat
    BY <1>0, <1>1, <2>1, TakeCopy, CountType DEF InBatch
  <2> HIDE DEF I, M, B
  <2>6. Unhandled(m, inbox') + Unhandled(m, msgCh') <= I + M
    BY <1>1, <2>3, <2>4, <2>5
  <2>7. Unhandled(m, msgCh') \in Nat
    BY <1>1, <2>4
  <2>8. rows'[m] = rows[m] /\ delivered'[m] = delivered[m] /\ InBatch(m)' = InBatch(m)
    BY <2>1
  <2>9. rows[m] + I + M + InBatch(m) <= delivered[m]
    BY DEF I, M
  <2>10. rows[m] + Unhandled(m, inbox') + Unhandled(m, msgCh') + InBatch(m) <= delivered[m]
    BY <1>0, <1>1, <2>5, <2>6, <2>7, <2>9, SumsBelow
  <2>11. QED
    BY <2>8, <2>10
<1>4. CASE Select
  <2>1. rows' = rows /\ delivered' = delivered /\ inbox' = inbox
    BY <1>4 DEF Select, Receive, TimerFlush, DoneFlush
  <2>2. CASE Receive
    <3>1. /\ msgCh # <<>> /\ msgCh' = Tail(msgCh) /\ batch' = Append(batch, Head(msgCh))
          /\ pc = "select" /\ pc' \in {"select", "handler"}
      BY <2>2 DEF Receive
    <3>2. Head(msgCh) \in Copies
      BY <1>0, <3>1, TakeCopy
    <3>3. M = Unhandled(m, msgCh') + (IF Head(msgCh).msg = m THEN 1 ELSE 0)
      BY <1>0, <3>1, CountTail
    <3>4. Unhandled(m, batch') = B + (IF Head(msgCh).msg = m THEN 1 ELSE 0)
      BY <1>0, <3>1, <3>2, CountAppend
    <3>5. Unhandled(m, msgCh') \in Nat
      BY <1>0, <3>1, TakeCopy, CountType
    <3>6. InBatch(m) = B /\ InBatch(m)' = Unhandled(m, batch')
      BY <3>1 DEF InBatch
    <3> HIDE DEF I, M, B
    <3>7. QED
      BY <1>0, <1>1, <2>1, <3>3, <3>4, <3>5, <3>6 DEF I, M
  <2>3. CASE TimerFlush \/ DoneFlush
    <3>1. /\ msgCh' = msgCh /\ batch' = batch
          /\ pc = "select" /\ (pc' \in {"select", "handler"} \/ batch = <<>>)
      BY <2>3 DEF TimerFlush, DoneFlush
    <3>2. InBatch(m)' = InBatch(m)
      BY <3>1, CountNone DEF InBatch
    <3>3. QED
      BY <2>1, <3>1, <3>2
  <2>4. QED
    BY <1>4, <2>2, <2>3 DEF Select
<1>5. CASE Insert
  <2>1. PICK J \in SUBSET (DOMAIN batch) : InsertOk(J) \/ InsertFails(J)
    BY <1>5 DEF Insert
  <2>2. /\ inbox' = inbox /\ msgCh' = msgCh /\ delivered' = delivered
        /\ pc = "handler" /\ pc' = "answer" /\ rows' \in {rows, RowsAfter(J)}
    BY <2>1 DEF InsertOk, InsertFails
  <2> DEFINE K == {i \in J : batch[i].msg = m}  L == {i \in DOMAIN batch : batch[i].msg = m}
  <2>3. IsFiniteSet(L) /\ K \subseteq L /\ Cardinality(L) = B
    BY <1>0, CountType DEF Unhandled
  <2>4. RowsAfter(J)[m] = rows[m] + Cardinality(K)
    BY DEF RowsAfter
  <2> HIDE DEF K, L
  <2>5. Cardinality(K) \in Nat /\ Cardinality(K) <= B
    BY <2>3, FS_Subset, FS_CardinalityType
  <2>6. InBatch(m) = B /\ InBatch(m)' = 0
    BY <2>2 DEF InBatch
  <2> HIDE DEF I, M, B
  <2>7. rows'[m] <= rows[m] + B /\ rows'[m] \in Nat
    BY <1>0, <1>1, <2>2, <2>4, <2>5
  <2>8. QED
    BY <1>0, <1>1, <2>2, <2>6, <2>7 DEF I, M
<1>6. CASE Reply
  <2>1. /\ rows' = rows /\ delivered' = delivered /\ inbox' = inbox /\ msgCh' = msgCh
        /\ pc \in {"answer", "ackDead"}
        /\ pc' \in {"answer", "ackDead", "returned"} \/ batch' = <<>>
    BY <1>6 DEF Reply, AckStored, NakForRetry, DeadLetter, AckDead, Advance
  <2>2. InBatch(m)' = 0 /\ InBatch(m) = 0
    BY <2>1, CountNone DEF InBatch
  <2>3. QED
    BY <2>1, <2>2
<1>7. CASE Process
  <2>1. rows' = rows /\ delivered' = delivered
    BY <1>7 DEF Process, Cancel, GiveUp, CloseBroker, Exit,
                CutShort, Crash, Die, Restart
  <2>2. CASE Cancel \/ CloseBroker
    <3>1. inbox' = inbox /\ msgCh' = msgCh /\ batch' = batch
      BY <2>2 DEF Cancel, CloseBroker
    <3>2. pc' = pc \/ (pc = "returned" /\ pc' = "closing")
      BY <2>2 DEF Cancel, CloseBroker
    <3>3. InBatch(m)' = InBatch(m)
      BY <3>1, <3>2 DEF InBatch
    <3>4. QED
      BY <2>1, <3>1, <3>3
  <2>3. CASE Restart
    <3>1. batch = <<>> /\ batch' = batch /\ inbox' = inbox /\ msgCh' = msgCh
      BY <2>3 DEF Restart, Inv, LoopInv
    <3>2. InBatch(m)' = InBatch(m)
      BY <2>3, <3>1, CountNone DEF Restart, InBatch
    <3>3. QED
      BY <2>1, <3>1, <3>2
  <2>4. CASE Exit \/ CutShort \/ Crash
    <3>1. inbox' = <<>> /\ msgCh' = <<>> /\ pc' = "down"
      BY <2>4 DEF Exit, CutShort, Crash, Die
    <3>2. Unhandled(m, inbox') = 0 /\ Unhandled(m, msgCh') = 0 /\ InBatch(m)' = 0
      BY <3>1, CountNone DEF InBatch
    <3>3. InBatch(m) \in Nat
      BY <1>1 DEF InBatch
    <3> HIDE DEF I, M, B
    <3>4. QED
      BY <1>0, <1>1, <2>1, <3>2, <3>3 DEF I, M
  <2>5. CASE GiveUp
    <3>1. msgCh' = msgCh /\ batch' = batch /\ pc' = pc
      BY <2>5 DEF GiveUp
    <3>2. InBatch(m)' = InBatch(m) /\ InBatch(m) \in Nat
      BY <1>1, <3>1 DEF InBatch
    <3>3. Unhandled(m, inbox') \in Nat /\ Unhandled(m, inbox') <= I
      BY <1>0, <2>5, CountFirst DEF GiveUp
    <3> HIDE DEF I, M, B
    <3>4. QED
      BY <1>0, <1>1, <2>1, <3>1, <3>2, <3>3 DEF I, M
  <2>6. QED
    BY <1>7, <2>2, <2>3, <2>4, <2>5 DEF Process
<1>8. QED
  BY <1>2, <1>3, <1>4, <1>5, <1>6, <1>7 DEF Next

(* However often a message is delivered, and whatever becomes of its       *)
(* copies, it is inserted at most once per delivery.                       *)
THEOREM DuplicatesBounded == Spec => []RowsWithinDeliveries
<1>1. Init => RowsWithinDeliveries
  <2>1. ASSUME Init, NEW m \in Msgs
        PROVE  /\ Unhandled(m, inbox) = 0 /\ Unhandled(m, msgCh) = 0 /\ Unhandled(m, batch) = 0
               /\ rows[m] = 0 /\ delivered[m] = 0
    BY <2>1, CountNone DEF Init
  <2>2. QED
    BY <2>1 DEF RowsWithinDeliveries
<1>2. Inv /\ RowsWithinDeliveries /\ [Next]_vars => RowsWithinDeliveries'
  <2>1. CASE UNCHANGED vars
    BY <2>1 DEF vars, RowsWithinDeliveries, Unhandled
  <2>2. CASE Inv /\ RowsWithinDeliveries /\ Next
    BY <2>2, RowsStep DEF RowsWithinDeliveries, InBatch
  <2>3. QED
    BY <2>1, <2>2
<1>3. QED
  BY <1>1, <1>2, Invariance, PTL DEF Spec

-----------------------------------------------------------------------------
(* Refinement: every step is a step of the abstract promise or a stutter.  *)

PromiseVars == <<HeldView, delivered, StoredView, dead, dropped>>

LEMMA PromiseInit == Init => Promise!Init
  BY DEF Init, Promise!Init, HeldView, StoredView, Outstanding

LEMMA BrokerPromise == Inv /\ Broker => Promise!Next \/ UNCHANGED PromiseVars
<1> SUFFICES ASSUME Inv, NEW m \in Msgs,
                    Publish(m) \/ Discard(m) \/ Deliver(m) \/ Expire(m) \/ Exhaust(m)
             PROVE  Promise!Next \/ UNCHANGED PromiseVars
  BY DEF Broker
<1> USE DEF fateVars, lifeVars, loopVars, queueVars
<1>0. srv \in [Msgs -> BrokerStates] /\ delivered \in [Msgs -> 0..MaxDeliver]
  BY DEF Inv, TypeOK
<1>1. StoredView' = StoredView /\ dead' = dead /\ dropped' = dropped
  BY DEF Publish, Discard, Deliver, Expire, Exhaust, StoredView
<1>2. CASE Publish(m)
  <2>1. Promise!Accept(m)
    BY <1>0, <1>1, <1>2 DEF Publish, HeldView, Outstanding, Promise!Accept, Promise!Move
  <2>2. QED
    BY <2>1 DEF Promise!Next
<1>3. CASE Discard(m)
  <2>1. Promise!Discard(m)
    BY <1>0, <1>1, <1>3 DEF Discard, HeldView, Outstanding, Promise!Discard, Promise!Move
  <2>2. QED
    BY <2>1 DEF Promise!Next
<1>4. CASE Deliver(m)
  <2>1. delivered[m] < MaxDeliver
    BY <1>4, DeliverAssumption DEF Inv, Deliver, DeliveryInv
  <2>2. HeldView' = HeldView
    BY <1>0, <1>4 DEF Deliver, HeldView, Outstanding
  <2>3. HeldView[m] = "held"
    BY <1>4 DEF Deliver, HeldView, Outstanding
  <2>4. Promise!Attempt(m)
    BY <1>1, <1>4, <2>1, <2>2, <2>3 DEF Deliver, Promise!Attempt
  <2>5. QED
    BY <2>4 DEF Promise!Next
<1>5. CASE Expire(m)
  BY <1>0, <1>1, <1>5 DEF Expire, HeldView, Outstanding, PromiseVars
<1>6. CASE Exhaust(m)
  <2>1. Promise!Exhaust(m)
    BY <1>0, <1>1, <1>6 DEF Exhaust, HeldView, Outstanding, Promise!Exhaust, Promise!Move
  <2>2. QED
    BY <2>1 DEF Promise!Next
<1>7. QED
  BY <1>2, <1>3, <1>4, <1>5, <1>6

LEMMA InsertPromise == Inv /\ Insert => Promise!Next \/ UNCHANGED PromiseVars
<1> SUFFICES ASSUME Inv, NEW J \in SUBSET (DOMAIN batch),
                    InsertOk(J) \/ InsertFails(J)
             PROVE  Promise!Next \/ UNCHANGED PromiseVars
  BY DEF Insert
<1> DEFINE S == {batch[i].msg : i \in J}
           D == {batch[i].msg : i \in DOMAIN batch \ J}
<1> USE DEF brokerVars, queueVars, lifeVars
<1>1. \A i \in DOMAIN batch : batch[i].msg \in Msgs /\ delivered[batch[i].msg] > 0
  <2> SUFFICES ASSUME NEW i \in DOMAIN batch
               PROVE  batch[i].msg \in Msgs /\ delivered[batch[i].msg] > 0
    OBVIOUS
  <2>1. batch[i].msg \in Msgs /\ batch[i].num \in 1..MaxDeliver
    BY CopyFields DEF Inv, TypeOK
  <2>2. batch[i].num <= delivered[batch[i].msg]
    BY DEF Inv, DeliveryInv, KnownDelivery
  <2>3. delivered[batch[i].msg] \in Int
    BY <2>1, DeliverAssumption DEF Inv, TypeOK
  <2>4. QED
    BY <2>1, <2>2, <2>3
<1>2. S \in SUBSET Msgs /\ D \in SUBSET Msgs /\ {} \in SUBSET Msgs
  BY <1>1
<1>3. /\ \A m \in S \cup D : delivered[m] > 0
      /\ S \cap Undecodable = {}
  BY <1>1 DEF InsertOk, InsertFails, Insertable
<1>4. D \subseteq Undecodable \/ (S \cup D) \cap Panics # {}
  <2> SUFFICES ASSUME NEW i \in DOMAIN batch \ J, batch[i].msg \notin Undecodable
               PROVE  (S \cup D) \cap Panics # {}
    OBVIOUS
  <2>1. PICK p \in 1..i : batch[p].msg \in Panics
    BY DEF InsertOk, InsertFails, Insertable, PanicAtOrBefore
  <2>2. p \in DOMAIN batch
    BY LenProperties DEF Inv, TypeOK
  <2>3. batch[p].msg \in S \cup D
    BY <2>2
  <2>4. QED
    BY <2>1, <2>3
<1>5. rows' = RowsAfter(J) => StoredView' = StoredView \cup S
  <2>1. /\ \A m \in Msgs : rows[m] > 0 => RowsAfter(J)[m] > 0
        /\ \A i \in J : RowsAfter(J)[batch[i].msg] > 0
    BY RowsGrow DEF Inv
  <2>2. \A m \in Msgs \ S : RowsAfter(J)[m] = rows[m]
    <3> SUFFICES ASSUME NEW m \in Msgs \ S PROVE RowsAfter(J)[m] = rows[m]
      OBVIOUS
    <3>1. {i \in J : batch[i].msg = m} = {}
      OBVIOUS
    <3>2. Cardinality({i \in J : batch[i].msg = m}) = 0
      BY <3>1, FS_EmptySet
    <3>3. rows[m] \in Nat
      BY DEF Inv, TypeOK
    <3>4. QED
      BY <3>2, <3>3 DEF RowsAfter
  <2>3. QED
    BY <1>2, <2>1, <2>2 DEF StoredView
<1>6. HeldView' = HeldView /\ delivered' = delivered /\ dead' = dead
  BY DEF InsertOk, InsertFails, HeldView
<1>7. CASE InsertOk(J)
  <2>1. dropped' = dropped \cup D /\ StoredView' = StoredView \cup S
    BY <1>5, <1>7 DEF InsertOk
  <2> HIDE DEF S, D
  <2>2. Promise!Process(S, D)
    BY <1>3, <1>4, <1>6, <2>1 DEF Promise!Process
  <2>3. QED
    BY <1>2, <2>2 DEF Promise!Next
<1>8. CASE InsertFails(J) /\ rows' = RowsAfter(J)
  <2>1. dropped' = dropped \cup {} /\ StoredView' = StoredView \cup S
    BY <1>5, <1>8 DEF InsertFails
  <2> HIDE DEF S, D
  <2>2. Promise!Process(S, {})
    BY <1>3, <1>6, <2>1 DEF Promise!Process
  <2>3. QED
    BY <1>2, <2>2 DEF Promise!Next
<1>9. CASE InsertFails(J) /\ rows' = rows
  BY <1>6, <1>9 DEF InsertFails, StoredView, PromiseVars
<1>10. QED
  BY <1>7, <1>8, <1>9 DEF InsertFails

(* An answer leaves the abstract broker alone or releases its message.     *)
LEMMA AnswerPromise ==
  ASSUME TypeOK, NEW m \in Msgs
  PROVE  /\ Answer(Naked(m)) \/ Answer(NakedWithDelay(m)) => HeldView' = HeldView
         /\ Answer(Acked(m)) => HeldView' = HeldView \/ Promise!Move(m, "held", "acked")
  BY DEF TypeOK, BrokerStates, Outstanding, Answer, Acked, Naked, NakedWithDelay,
         HeldView, Promise!Move

LEMMA ReplyPromise == Inv /\ Reply => Promise!Next \/ UNCHANGED PromiseVars
<1> SUFFICES ASSUME Inv, AckStored \/ NakForRetry \/ DeadLetter \/ AckDead
             PROVE  Promise!Next \/ UNCHANGED PromiseVars
  BY DEF Reply
<1> USE DEF brokerVars, queueVars, fateVars, lifeVars
<1>1. /\ TypeOK
      /\ next \in DOMAIN batch
      /\ Current.msg \in Msgs
      /\ Current.num \in 1..MaxDeliver
      /\ Current.num <= delivered[Current.msg]
  BY CurrentCopy DEF Inv, AckStored, NakForRetry, DeadLetter, AckDead
<1>2. CASE AckStored \/ AckDead
  <2>1. /\ Answer(Acked(Current.msg))
        /\ UNCHANGED <<delivered, rows, dead, dropped>>
    BY <1>2 DEF AckStored, AckDead
  <2>2. Accounted(Current.msg)
    BY <1>1, <1>2 DEF AckStored, AckDead, Inv, LoopInv, Current
  <2>3. Promise!Accounted(Current.msg)
    BY <1>1, <2>2 DEF Accounted, Promise!Accounted, StoredView
  <2>4. StoredView' = StoredView
    BY <2>1 DEF StoredView
  <2>5. CASE HeldView' = HeldView
    BY <2>1, <2>4, <2>5 DEF PromiseVars
  <2>6. CASE Promise!Move(Current.msg, "held", "acked")
    <3>1. Promise!Acknowledge(Current.msg)
      BY <2>1, <2>3, <2>4, <2>6 DEF Promise!Acknowledge
    <3>2. QED
      BY <1>1, <3>1 DEF Promise!Next
  <2>7. QED
    BY <1>1, <2>1, <2>5, <2>6, AnswerPromise
<1>3. CASE NakForRetry
  <2>1. HeldView' = HeldView
    BY <1>1, <1>3, AnswerPromise DEF NakForRetry
  <2>2. QED
    BY <1>3, <2>1 DEF NakForRetry, StoredView, PromiseVars
<1>4. CASE DeadLetter
  <2>1. delivered[Current.msg] = MaxDeliver
    BY <1>1, <1>4, DeliverAssumption DEF DeadLetter, AtLimit, TypeOK
  <2>2. /\ HeldView' = HeldView /\ StoredView' = StoredView
        /\ delivered' = delivered
    BY <1>4 DEF DeadLetter, HeldView, StoredView
  <2>3. PICK inDlq \in BOOLEAN, err \in BOOLEAN :
          /\ inDlq \/ err
          /\ dead' = IF inDlq THEN dead \cup {Current.msg} ELSE dead
          /\ dropped' = IF err THEN dropped \cup {Current.msg} ELSE dropped
    BY <1>4 DEF DeadLetter
  <2>4. Promise!GiveUp(Current.msg, inDlq, err)
    BY <2>1, <2>2, <2>3 DEF Promise!GiveUp
  <2>5. QED
    BY <1>1, <2>4 DEF Promise!Next
<1>5. QED
  BY <1>2, <1>3, <1>4

LEMMA OtherPromise ==
  Inv /\ (Callback \/ Select \/ Process) => UNCHANGED PromiseVars
<1> SUFFICES ASSUME Inv, Callback \/ Select \/ Process PROVE UNCHANGED PromiseVars
  OBVIOUS
<1> USE DEF brokerVars, queueVars, loopVars, fateVars, lifeVars
<1>1. CASE Refuse
  <2>1. Head(inbox).msg \in Msgs
    <3>1. inbox # <<>> /\ inbox \in Seq(Copies)
      BY <1>1 DEF Refuse, Inv, TypeOK
    <3>2. Head(inbox) \in Copies
      BY <3>1, TakeCopy
    <3>3. QED
      BY <3>2 DEF Copies
  <2>2. HeldView' = HeldView
    BY <1>1, <2>1, AnswerPromise DEF Refuse, Inv
  <2>3. QED
    BY <1>1, <2>2 DEF Refuse, StoredView, PromiseVars
<1>2. CASE Buffer \/ Select \/ Process
  <2>1. UNCHANGED <<srv, delivered, rows, dead, dropped>>
    BY <1>2 DEF Buffer, Select, Receive, TimerFlush, DoneFlush,
                Process, Cancel, GiveUp, CloseBroker, Exit,
                CutShort, Crash, Die, Restart
  <2>2. QED
    BY <2>1 DEF HeldView, StoredView, PromiseVars
<1>3. QED
  BY <1>1, <1>2 DEF Callback

(* The consumer, with its buffers, batches, retries and crashes,           *)
(* implements the promise of AtLeastOnce: the broker releases a message    *)
(* only after it was stored, dead-lettered or logged as lost, gives it up  *)
(* only after MaxDeliver deliveries, and dead-letters nothing before that. *)
THEOREM Refinement == Spec => KeepsPromise
<1>1. Inv /\ [Next]_vars => [Promise!Next]_PromiseVars
  <2> SUFFICES ASSUME Inv, [Next]_vars PROVE Promise!Next \/ UNCHANGED PromiseVars
    OBVIOUS
  <2>1. CASE UNCHANGED vars
    BY <2>1 DEF vars, HeldView, StoredView, PromiseVars
  <2>2. CASE Next
    BY <2>2, BrokerPromise, InsertPromise, ReplyPromise, OtherPromise DEF Next
  <2>3. QED
    BY <2>1, <2>2
<1>2. PromiseVars = Promise!vars
  BY DEF PromiseVars, Promise!vars
<1>3. Inv /\ [Next]_vars => [Promise!Next]_(Promise!vars)
  BY <1>1, <1>2 DEF Promise!vars, PromiseVars
<1>4. QED
  BY Invariance, PromiseInit, <1>3, PTL DEF Spec, KeepsPromise, Promise!Spec
=============================================================================

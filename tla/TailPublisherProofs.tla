------------------------- MODULE TailPublisherProofs -------------------------
(***************************************************************************)
(* Proofs about the live tail publisher, for any numbers of enqueuers,     *)
(* publishers, buffers and logs, and any size of the queue.                *)
(***************************************************************************)
EXTENDS TailPublisher, TLAPS, SequenceTheorems

(* What is held, queued or pooled has been allocated.                      *)
Allocated ==
  \A b \in Buffers :
    (\/ \E e \in Enqueuers : EnqHas(e, b)
     \/ \E p \in Publishers : PubHas(p, b)
     \/ \E i \in DOMAIN jobChan : Queued(i, b)) => b \in made

(* From its marshalling to its publish a job's buffer holds the job's log, *)
(* and from Offer on the log counts as accepted.                           *)
Carried ==
  /\ \A e \in Enqueuers : enq[e].at = "offer" => holds[enq[e].job.buf] = enq[e].job.log
  /\ \A i \in DOMAIN jobChan :
       holds[jobChan[i].buf] = jobChan[i].log /\ jobChan[i].log \in accepted
  /\ \A p \in Publishers :
       pub[p].at = "publish" =>
         holds[pub[p].job.buf] = pub[p].job.log /\ pub[p].job.log \in accepted

Inv == TypeOK /\ OneOwner /\ Allocated /\ Carried /\ SentIntact

-----------------------------------------------------------------------------
(* Jobs and queues of jobs                                                 *)

LEMMA AppendJob ==
  ASSUME NEW q \in Seq(Jobs), NEW x \in Jobs
  PROVE  /\ Append(q, x) \in Seq(Jobs)
         /\ Len(q) \in Nat /\ Len(Append(q, x)) = Len(q) + 1
         /\ DOMAIN q = 1..Len(q) /\ DOMAIN Append(q, x) = 1..(Len(q) + 1)
         /\ \A i \in 1..Len(q) : Append(q, x)[i] = q[i]
         /\ Append(q, x)[Len(q) + 1] = x
<1>1. /\ Append(q, x) \in Seq(Jobs)
      /\ Len(Append(q, x)) = Len(q) + 1
      /\ \A i \in 1..Len(q) : Append(q, x)[i] = q[i]
      /\ Append(q, x)[Len(q) + 1] = x
  BY AppendProperties
<1>2. QED
  BY <1>1, LenProperties

LEMMA TakeJob ==
  ASSUME NEW q \in Seq(Jobs), q # <<>>
  PROVE  /\ Head(q) \in Jobs /\ Head(q) = q[1]
         /\ Tail(q) \in Seq(Jobs)
         /\ Len(q) \in Nat \ {0} /\ Len(Tail(q)) = Len(q) - 1
         /\ DOMAIN q = 1..Len(q) /\ DOMAIN Tail(q) = 1..(Len(q) - 1)
         /\ \A i \in 1..(Len(q) - 1) : Tail(q)[i] = q[i + 1]
<1>1. /\ Head(q) \in Jobs /\ Tail(q) \in Seq(Jobs)
      /\ Len(Tail(q)) = Len(q) - 1
      /\ \A i \in 1..Len(Tail(q)) : Tail(q)[i] = q[i + 1]
  BY HeadTailProperties
<1>2. Head(q) = q[1]
  OBVIOUS
<1>3. Len(q) \in Nat \ {0}
  BY EmptySeq, LenProperties
<1>4. QED
  BY <1>1, <1>2, <1>3, LenProperties

LEMMA QueuedJob ==
  ASSUME TypeOK, NEW i \in DOMAIN jobChan
  PROVE  jobChan[i] \in Jobs
  BY ElementOfSeq, LenProperties DEF TypeOK

LEMMA JobFields ==
  ASSUME NEW j \in Jobs
  PROVE  j.buf \in Buffers /\ j.log \in Logs
  BY DEF Jobs

(* Whoever is at work has a job.                                           *)
LEMMA InHand ==
  ASSUME TypeOK
  PROVE  /\ \A e \in Enqueuers : enq[e].at # Idle => enq[e].job \in Jobs
         /\ \A p \in Publishers : pub[p].at \in {"publish", "put"} => pub[p].job \in Jobs
  BY DEF TypeOK, Idle

-----------------------------------------------------------------------------
(* The invariant holds initially                                           *)

LEMMA InitInv == Init => Inv
<1> SUFFICES ASSUME Init PROVE Inv
  OBVIOUS
<1>1. DOMAIN jobChan = {} /\ jobChan \in Seq(Jobs) /\ Len(jobChan) = 0
  BY EmptySeq DEF Init
<1>2. TypeOK
  <2>1. jobChan \in Seq(Jobs) /\ Len(jobChan) <= QueueSize /\ logs \in 0..MaxLogs
    BY <1>1, QueueAssumption, LogsAssumption DEF Init
  <2>2. enq \in [Enqueuers -> [at : {Idle}, job : {<<>>}]
                               \cup [at : {"marshal", "offer"}, job : Jobs]]
    BY DEF Init
  <2>3. pub \in [Publishers -> [at : {Idle, "exited"}, job : {<<>>}]
                                \cup [at : {"publish", "put"}, job : Jobs]]
    BY DEF Init
  <2>4. QED
    BY <2>1, <2>2, <2>3 DEF Init, TypeOK
<1>3. OneOwner /\ Allocated
  BY <1>1 DEF Init, OneOwner, Allocated, EnqHas, PubHas, Idle
<1>4. Carried /\ SentIntact
  BY <1>1 DEF Init, Carried, SentIntact, Idle
<1>5. QED
  BY <1>2, <1>3, <1>4 DEF Inv

-----------------------------------------------------------------------------
(* Type correctness.  A buffer that goes back to the pool was allocated.   *)

LEMMA EnqueuerTypes ==
  ASSUME TypeOK, NEW e \in Enqueuers, NEW j \in Jobs,
         \/ enq' = [enq EXCEPT ![e] = [at |-> Idle, job |-> <<>>]]
         \/ enq[e].at # Idle /\ enq' = [enq EXCEPT ![e].at = "offer"]
         \/ enq' = [enq EXCEPT ![e] = [at |-> "marshal", job |-> j]]
  PROVE  enq' \in [Enqueuers -> [at : {Idle}, job : {<<>>}]
                                 \cup [at : {"marshal", "offer"}, job : Jobs]]
  BY DEF TypeOK, Idle

LEMMA PublisherTypes ==
  ASSUME TypeOK, NEW p \in Publishers, NEW j \in Jobs,
         \/ pub' = [pub EXCEPT ![p] = [at |-> Idle, job |-> <<>>]]
         \/ pub' = [pub EXCEPT ![p] = [at |-> "publish", job |-> j]]
         \/ pub[p].at = "publish" /\ pub' = [pub EXCEPT ![p].at = "put"]
         \/ pub[p].at = Idle /\ pub' = [pub EXCEPT ![p].at = "exited"]
  PROVE  pub' \in [Publishers -> [at : {Idle, "exited"}, job : {<<>>}]
                                  \cup [at : {"publish", "put"}, job : Jobs]]
  BY DEF TypeOK, Idle

LEMMA TypeStep == TypeOK /\ Allocated /\ [Next]_vars => TypeOK'
<1> SUFFICES ASSUME TypeOK, Allocated, [Next]_vars PROVE TypeOK'
  OBVIOUS
<1> USE DEF poolVars
<1>1. ASSUME NEW e \in Enqueuers, NEW b, Get(e, b) PROVE TypeOK'
  <2>1. b \in Buffers
    BY <1>1 DEF Get, Fresh, TypeOK
  <2>2. logs + 1 \in Logs /\ logs' \in 0..MaxLogs
    BY <1>1, LogsAssumption DEF Get, TypeOK, Logs
  <2>3. [buf |-> b, log |-> logs + 1] \in Jobs
    BY <2>1, <2>2 DEF Jobs
  <2>4. enq' \in [Enqueuers -> [at : {Idle}, job : {<<>>}]
                                \cup [at : {"marshal", "offer"}, job : Jobs]]
    BY <1>1, <2>3, EnqueuerTypes DEF Get
  <2>5. QED
    BY <1>1, <2>1, <2>2, <2>4 DEF Get, TypeOK
<1>2. ASSUME NEW e \in Enqueuers, Return(e) PROVE TypeOK'
  <2>1. enq[e].at # Idle
    BY <1>2 DEF Return, Marshal, MarshalFails, Offer, QueueFull, Idle
  <2>2. enq[e].job \in Jobs /\ enq[e].job.buf \in Buffers /\ enq[e].job.log \in Logs
    BY <2>1, InHand, JobFields
  <2>3. enq[e].job.buf \in made
    BY <2>1, <2>2 DEF Allocated, EnqHas
  <2>4. enq' \in [Enqueuers -> [at : {Idle}, job : {<<>>}]
                                \cup [at : {"marshal", "offer"}, job : Jobs]]
    BY <1>2, <2>1, <2>2, EnqueuerTypes
       DEF Return, Marshal, MarshalFails, Offer, QueueFull, Refuse
  <2>5. [holds EXCEPT ![enq[e].job.buf] = enq[e].job.log]
          \in [Buffers -> {NoLog} \cup Logs]
    BY <2>2 DEF TypeOK
  <2>6. CASE Marshal(e)
    BY <2>6, <2>4, <2>5 DEF Marshal, TypeOK
  <2>7. CASE MarshalFails(e)
    BY <2>7, <2>2, <2>3, <2>4, <2>5 DEF MarshalFails, Refuse, TypeOK
  <2>8. CASE Offer(e)
    <3>1. jobChan' \in Seq(Jobs) /\ Len(jobChan') <= QueueSize
      BY <2>8, <2>2, AppendJob, QueueAssumption DEF Offer, TypeOK
    <3>2. QED
      BY <2>8, <2>2, <2>4, <3>1 DEF Offer, TypeOK
  <2>9. CASE QueueFull(e)
    BY <2>9, <2>2, <2>3, <2>4 DEF QueueFull, Refuse, TypeOK
  <2>10. QED
    BY <1>2, <2>6, <2>7, <2>8, <2>9 DEF Return
<1>3. ASSUME NEW p \in Publishers, Take(p) PROVE TypeOK'
  <2>1. jobChan # <<>>
    BY <1>3 DEF Take
  <2>2. /\ Head(jobChan) \in Jobs /\ Tail(jobChan) \in Seq(Jobs)
        /\ Len(Tail(jobChan)) <= QueueSize
    BY <2>1, TakeJob, QueueAssumption DEF TypeOK
  <2>3. QED
    BY <1>3, <2>2, PublisherTypes DEF Take, TypeOK
<1>4. ASSUME NEW p \in Publishers, Publish(p) \/ Put(p) PROVE TypeOK'
  <2>1. pub[p].at \in {"publish", "put"}
    BY <1>4 DEF Publish, Put
  <2>2. pub[p].job \in Jobs /\ pub[p].job.buf \in Buffers /\ pub[p].job.log \in Logs
    BY <2>1, InHand, JobFields
  <2>3. pub[p].job.buf \in made
    BY <2>1, <2>2 DEF Allocated, PubHas
  <2>4. pub' \in [Publishers -> [at : {Idle, "exited"}, job : {<<>>}]
                                 \cup [at : {"publish", "put"}, job : Jobs]]
    BY <1>4, <2>2, PublisherTypes DEF Publish, Put
  <2>5. CASE Publish(p)
    <3>1. [log |-> pub[p].job.log, bytes |-> holds[pub[p].job.buf]]
            \in [log : Logs, bytes : {NoLog} \cup Logs]
      BY <2>2 DEF TypeOK
    <3>2. QED
      BY <2>5, <2>4, <3>1 DEF Publish, TypeOK
  <2>6. CASE Put(p)
    BY <2>6, <2>3, <2>4 DEF Put, TypeOK
  <2>7. QED
    BY <1>4, <2>5, <2>6
<1>5. ASSUME NEW p \in Publishers, Leave(p) PROVE TypeOK'
  <2>1. pub' \in [Publishers -> [at : {Idle, "exited"}, job : {<<>>}]
                                 \cup [at : {"publish", "put"}, job : Jobs]]
    BY <1>5 DEF Leave, TypeOK, Idle
  <2>2. QED
    BY <1>5, <2>1 DEF Leave, TypeOK
<1>6. CASE Close
  BY <1>6 DEF Close, TypeOK
<1>7. CASE UNCHANGED vars
  BY <1>7 DEF vars, TypeOK
<1>8. QED
  BY <1>1, <1>2, <1>3, <1>4, <1>5, <1>6, <1>7
     DEF Next, Enqueue, Publisher, Finished

-----------------------------------------------------------------------------
(* Ownership: each action hands a buffer on, or leaves all of them alone.  *)

LEMMA GetOwner ==
  ASSUME Inv, NEW e \in Enqueuers, NEW b \in pooled \cup Fresh, Get(e, b)
  PROVE  OneOwner' /\ Allocated'
<1>1. b \in Buffers /\ pooled \subseteq made
  BY DEF Inv, TypeOK, Fresh
<1>2. b \in pooled \/ b \notin made
  BY DEF Fresh, Inv, TypeOK
<1>3. /\ \A f \in Enqueuers : ~EnqHas(f, b)
      /\ \A p \in Publishers : ~PubHas(p, b)
      /\ \A i \in DOMAIN jobChan : ~Queued(i, b)
  BY <1>1, <1>2 DEF Inv, OneOwner, Allocated
<1>4. \A f \in Enqueuers, c \in Buffers :
        EnqHas(f, c)' <=> IF f = e THEN c = b ELSE EnqHas(f, c)
  BY DEF Get, EnqHas, Inv, TypeOK, Idle
<1>5. ~\E c \in Buffers : EnqHas(e, c)
  BY DEF Get, EnqHas
<1>6. /\ \A p \in Publishers, c \in Buffers : PubHas(p, c)' <=> PubHas(p, c)
      /\ \A i, c : Queued(i, c)' <=> Queued(i, c)
      /\ jobChan' = jobChan /\ pooled' = pooled \ {b} /\ made' = made \cup {b}
  BY DEF Get, PubHas, Queued
<1>7. OneOwner'
  BY <1>3, <1>4, <1>5, <1>6 DEF Inv, OneOwner
<1>8. Allocated'
  BY <1>4, <1>5, <1>6 DEF Inv, Allocated
<1>9. QED
  BY <1>7, <1>8

LEMMA RefuseOwner ==
  ASSUME Inv, NEW e \in Enqueuers, enq[e].at # Idle, Refuse(e),
         UNCHANGED <<made, jobChan, pub>>
  PROVE  OneOwner' /\ Allocated'
<1> DEFINE b == enq[e].job.buf
<1>1. b \in Buffers /\ EnqHas(e, b)
  BY InHand, JobFields DEF EnqHas, Inv
<1>2. \A f \in Enqueuers, c \in Buffers :
        EnqHas(f, c)' <=> f # e /\ EnqHas(f, c)
  BY DEF Refuse, EnqHas, Inv, TypeOK, Idle
<1>3. /\ \A p \in Publishers, c \in Buffers : PubHas(p, c)' <=> PubHas(p, c)
      /\ \A i, c : Queued(i, c)' <=> Queued(i, c)
      /\ jobChan' = jobChan /\ pooled' = pooled \cup {b} /\ made' = made
  BY DEF Refuse, PubHas, Queued
<1>4. OneOwner'
  BY <1>1, <1>2, <1>3 DEF Inv, OneOwner
<1>5. Allocated'
  BY <1>2, <1>3 DEF Inv, Allocated
<1>6. QED
  BY <1>4, <1>5

LEMMA OfferOwner ==
  ASSUME Inv, NEW e \in Enqueuers, Offer(e)
  PROVE  OneOwner' /\ Allocated'
<1> DEFINE b == enq[e].job.buf  n == Len(jobChan) + 1
<1>1. b \in Buffers /\ EnqHas(e, b) /\ enq[e].job \in Jobs
  BY InHand, JobFields DEF EnqHas, Inv, Offer, Idle
<1>2. \A f \in Enqueuers, c \in Buffers :
        EnqHas(f, c)' <=> f # e /\ EnqHas(f, c)
  BY DEF Offer, EnqHas, Inv, TypeOK, Idle
<1>3. /\ DOMAIN jobChan = 1..Len(jobChan) /\ DOMAIN jobChan' = 1..n
      /\ Len(jobChan) \in Nat
      /\ \A i \in DOMAIN jobChan : jobChan'[i] = jobChan[i]
      /\ jobChan'[n] = enq[e].job
  BY <1>1, AppendJob DEF Offer, Inv, TypeOK
<1>4. \A i \in DOMAIN jobChan', c \in Buffers :
        Queued(i, c)' <=> IF i = n THEN c = b ELSE Queued(i, c)
  BY <1>3 DEF Queued
<1>5. \A i \in DOMAIN jobChan' : i # n => i \in DOMAIN jobChan
  BY <1>3
<1>6. /\ \A p \in Publishers, c \in Buffers : PubHas(p, c)' <=> PubHas(p, c)
      /\ pooled' = pooled /\ made' = made
  BY DEF Offer, PubHas, poolVars
<1>7. ASSUME NEW c \in Buffers
      PROVE  \A i, j \in DOMAIN jobChan' : Queued(i, c)' /\ Queued(j, c)' => i = j
  BY <1>1, <1>4, <1>5 DEF Inv, OneOwner
<1>8. OneOwner'
  BY <1>1, <1>2, <1>4, <1>5, <1>6, <1>7 DEF Inv, OneOwner
<1>9. Allocated'
  BY <1>1, <1>2, <1>4, <1>5, <1>6 DEF Inv, Allocated
<1>10. QED
  BY <1>8, <1>9

LEMMA TakeOwner ==
  ASSUME Inv, NEW p \in Publishers, Take(p)
  PROVE  OneOwner' /\ Allocated'
<1> DEFINE b == Head(jobChan).buf
<1>1. jobChan # <<>> /\ jobChan \in Seq(Jobs)
  BY DEF Take, Inv, TypeOK
<1>2. /\ DOMAIN jobChan = 1..Len(jobChan) /\ DOMAIN jobChan' = 1..(Len(jobChan) - 1)
      /\ Len(jobChan) \in Nat \ {0}
      /\ \A i \in DOMAIN jobChan' : jobChan'[i] = jobChan[i + 1]
      /\ Head(jobChan) \in Jobs /\ Head(jobChan) = jobChan[1]
  BY <1>1, TakeJob DEF Take
<1>3. b \in Buffers /\ 1 \in DOMAIN jobChan /\ Queued(1, b)
  BY <1>2, JobFields DEF Queued
<1>4. \A i \in DOMAIN jobChan' : i + 1 \in DOMAIN jobChan /\ i + 1 # 1 /\ i \in Nat
  BY <1>2
<1>5. \A i \in DOMAIN jobChan', c \in Buffers : Queued(i, c)' <=> Queued(i + 1, c)
  BY <1>2 DEF Queued
<1>6. \A q \in Publishers, c \in Buffers :
        PubHas(q, c)' <=> IF q = p THEN c = b ELSE PubHas(q, c)
  BY DEF Take, PubHas, Inv, TypeOK
<1>7. ~\E c \in Buffers : PubHas(p, c)
  BY DEF Take, PubHas, Idle
<1>8. /\ \A e \in Enqueuers, c \in Buffers : EnqHas(e, c)' <=> EnqHas(e, c)
      /\ pooled' = pooled /\ made' = made
  BY DEF Take, EnqHas, poolVars
<1>9. ASSUME NEW c \in Buffers
      PROVE  /\ \A i, j \in DOMAIN jobChan' : Queued(i, c)' /\ Queued(j, c)' => i = j
             /\ c = b => \A i \in DOMAIN jobChan' : ~Queued(i, c)'
  <2>1. \A i, j \in DOMAIN jobChan : Queued(i, c) /\ Queued(j, c) => i = j
    BY DEF Inv, OneOwner
  <2>2. QED
    BY <2>1, <1>3, <1>4, <1>5
<1>10. OneOwner'
  BY <1>3, <1>4, <1>5, <1>6, <1>7, <1>8, <1>9 DEF Inv, OneOwner
<1>11. Allocated'
  BY <1>3, <1>4, <1>5, <1>6, <1>8 DEF Inv, Allocated
<1>12. QED
  BY <1>10, <1>11

LEMMA PutOwner ==
  ASSUME Inv, NEW p \in Publishers, Put(p)
  PROVE  OneOwner' /\ Allocated'
<1> DEFINE b == pub[p].job.buf
<1>1. b \in Buffers /\ PubHas(p, b)
  BY InHand, JobFields DEF Put, PubHas, Inv
<1>2. \A q \in Publishers, c \in Buffers :
        PubHas(q, c)' <=> q # p /\ PubHas(q, c)
  BY DEF Put, PubHas, Inv, TypeOK, Idle
<1>3. /\ \A e \in Enqueuers, c \in Buffers : EnqHas(e, c)' <=> EnqHas(e, c)
      /\ \A i, c : Queued(i, c)' <=> Queued(i, c)
      /\ jobChan' = jobChan /\ pooled' = pooled \cup {b} /\ made' = made
  BY DEF Put, EnqHas, Queued
<1>4. OneOwner'
  BY <1>1, <1>2, <1>3 DEF Inv, OneOwner
<1>5. Allocated'
  BY <1>2, <1>3 DEF Inv, Allocated
<1>6. QED
  BY <1>4, <1>5

(* The steps that hand nothing on.                                         *)
LEMMA KeepOwner ==
  ASSUME Inv, UNCHANGED <<poolVars, jobChan>>,
         \A e \in Enqueuers, b \in Buffers : EnqHas(e, b)' <=> EnqHas(e, b),
         \A p \in Publishers, b \in Buffers : PubHas(p, b)' <=> PubHas(p, b)
  PROVE  OneOwner' /\ Allocated'
<1>1. \A i, b : Queued(i, b)' <=> Queued(i, b)
  BY DEF Queued
<1>2. QED
  BY <1>1 DEF Inv, OneOwner, Allocated, poolVars

LEMMA OwnerStep == Inv /\ [Next]_vars => OneOwner' /\ Allocated'
<1> SUFFICES ASSUME Inv, [Next]_vars PROVE OneOwner' /\ Allocated'
  OBVIOUS
<1>1. ASSUME NEW e \in Enqueuers, NEW b, Get(e, b) PROVE OneOwner' /\ Allocated'
  BY <1>1, GetOwner DEF Get
<1>2. ASSUME NEW e \in Enqueuers, Return(e) PROVE OneOwner' /\ Allocated'
  <2>1. CASE Marshal(e)
    <3>1. \A f \in Enqueuers, b \in Buffers : EnqHas(f, b)' <=> EnqHas(f, b)
      BY <2>1 DEF Marshal, EnqHas, Inv, TypeOK, Idle
    <3>2. \A p \in Publishers, b \in Buffers : PubHas(p, b)' <=> PubHas(p, b)
      BY <2>1 DEF Marshal, PubHas
    <3>3. QED
      BY <2>1, <3>1, <3>2, KeepOwner DEF Marshal
  <2>2. CASE MarshalFails(e) \/ QueueFull(e)
    BY <2>2, RefuseOwner DEF MarshalFails, QueueFull, Idle
  <2>3. CASE Offer(e)
    BY <2>3, OfferOwner
  <2>4. QED
    BY <1>2, <2>1, <2>2, <2>3 DEF Return
<1>3. ASSUME NEW p \in Publishers, Publisher(p) PROVE OneOwner' /\ Allocated'
  <2>1. CASE Take(p)
    BY <2>1, TakeOwner
  <2>2. CASE Put(p)
    BY <2>2, PutOwner
  <2>3. CASE Publish(p) \/ Leave(p)
    <3>1. \A q \in Publishers, b \in Buffers : PubHas(q, b)' <=> PubHas(q, b)
      BY <2>3 DEF Publish, Leave, PubHas, Inv, TypeOK, Idle
    <3>2. \A e \in Enqueuers, b \in Buffers : EnqHas(e, b)' <=> EnqHas(e, b)
      BY <2>3 DEF Publish, Leave, EnqHas
    <3>3. QED
      BY <2>3, <3>1, <3>2, KeepOwner DEF Publish, Leave
  <2>4. QED
    BY <1>3, <2>1, <2>2, <2>3 DEF Publisher
<1>4. CASE Close \/ UNCHANGED vars
  <2>1. UNCHANGED <<poolVars, jobChan, enq, pub>>
    BY <1>4 DEF Close, vars, poolVars
  <2>2. QED
    BY <2>1, KeepOwner DEF EnqHas, PubHas
<1>5. QED
  BY <1>1, <1>2, <1>3, <1>4 DEF Next, Enqueue, Finished

-----------------------------------------------------------------------------
(* Contents: only Enqueue writes a buffer, and only the one it owns.       *)

LEMMA CarriedStep == Inv /\ [Next]_vars => Carried' /\ SentIntact'
<1> SUFFICES ASSUME Inv, [Next]_vars PROVE Carried' /\ SentIntact'
  OBVIOUS
<1> USE DEF poolVars
<1>1. \A i \in DOMAIN jobChan : jobChan[i].buf \in Buffers /\ Queued(i, jobChan[i].buf)
  BY QueuedJob, JobFields DEF Inv, Queued
<1>2. \A p \in Publishers : pub[p].at \in {"publish", "put"} =>
        pub[p].job.buf \in Buffers /\ PubHas(p, pub[p].job.buf)
  BY InHand, JobFields DEF Inv, PubHas
<1>3. \A e \in Enqueuers : enq[e].at # Idle =>
        enq[e].job.buf \in Buffers /\ EnqHas(e, enq[e].job.buf)
  BY InHand, JobFields DEF Inv, EnqHas
<1>4. ASSUME NEW e \in Enqueuers, enq[e].at # Idle
      PROVE  /\ \A f \in Enqueuers : f # e /\ enq[f].at # Idle =>
                  enq[f].job.buf # enq[e].job.buf
             /\ \A i \in DOMAIN jobChan : jobChan[i].buf # enq[e].job.buf
             /\ \A p \in Publishers : pub[p].at = "publish" =>
                  pub[p].job.buf # enq[e].job.buf
  BY <1>1, <1>2, <1>3, <1>4 DEF Inv, OneOwner
<1>5. ASSUME NEW e \in Enqueuers, NEW b, Get(e, b) PROVE Carried' /\ SentIntact'
  BY <1>5 DEF Get, Inv, TypeOK, Carried, SentIntact
<1>6. ASSUME NEW e \in Enqueuers, Return(e) PROVE Carried' /\ SentIntact'
  <2>1. enq[e].at # Idle
    BY <1>6 DEF Return, Marshal, MarshalFails, Offer, QueueFull, Idle
  <2>2. SentIntact'
    BY <1>6 DEF Inv, SentIntact, Return, Marshal, MarshalFails, Offer, QueueFull
  <2>3. CASE Marshal(e) \/ MarshalFails(e)
    <3>1. \A f \in Enqueuers : enq'[f].at = "offer" =>
            enq[f].at # Idle /\ (f = e \/ enq[f].at = "offer") /\ enq'[f].job = enq[f].job
      BY <2>1, <2>3 DEF Marshal, MarshalFails, Refuse, Inv, TypeOK, Idle
    <3>2. /\ holds' = [holds EXCEPT ![enq[e].job.buf] = enq[e].job.log]
          /\ UNCHANGED <<jobChan, pub, accepted>>
      BY <2>3 DEF Marshal, MarshalFails
    <3>3. enq[e].job.buf \in Buffers /\ holds \in [Buffers -> {NoLog} \cup Logs]
      BY <2>1, <1>3 DEF Inv, TypeOK
    <3>4. Carried'
      BY <2>1, <1>1, <1>2, <1>3, <1>4, <3>1, <3>2, <3>3 DEF Inv, Carried
    <3>5. QED
      BY <2>2, <3>4
  <2>4. CASE Offer(e)
    <3>1. /\ DOMAIN jobChan' = 1..(Len(jobChan) + 1) /\ Len(jobChan) \in Nat
          /\ DOMAIN jobChan = 1..Len(jobChan)
          /\ \A i \in DOMAIN jobChan : jobChan'[i] = jobChan[i]
          /\ jobChan'[Len(jobChan) + 1] = enq[e].job
      BY <2>1, <2>4, InHand, AppendJob DEF Offer, Inv, TypeOK
    <3>2. \A i \in DOMAIN jobChan' : i = Len(jobChan) + 1 \/ i \in DOMAIN jobChan
      BY <3>1
    <3>3. /\ UNCHANGED <<holds, pub>> /\ enq[e].at = "offer"
          /\ accepted' = accepted \cup {enq[e].job.log}
          /\ \A f \in Enqueuers : enq'[f].at = "offer" => enq'[f] = enq[f]
      BY <2>4 DEF Offer, Inv, TypeOK, Idle
    <3>4. Carried'
      BY <3>1, <3>2, <3>3 DEF Inv, Carried
    <3>5. QED
      BY <2>2, <3>4
  <2>5. CASE QueueFull(e)
    <3>1. /\ UNCHANGED <<holds, jobChan, pub, accepted>>
          /\ \A f \in Enqueuers : enq'[f].at = "offer" => enq'[f] = enq[f]
      BY <2>5 DEF QueueFull, Refuse, Inv, TypeOK, Idle
    <3>2. Carried'
      BY <3>1 DEF Inv, Carried
    <3>3. QED
      BY <2>2, <3>2
  <2>6. QED
    BY <1>6, <2>3, <2>4, <2>5 DEF Return
<1>7. ASSUME NEW p \in Publishers, Take(p) PROVE Carried' /\ SentIntact'
  <2>1. jobChan # <<>> /\ jobChan \in Seq(Jobs)
    BY <1>7 DEF Take, Inv, TypeOK
  <2>2. /\ DOMAIN jobChan = 1..Len(jobChan) /\ DOMAIN jobChan' = 1..(Len(jobChan) - 1)
        /\ Len(jobChan) \in Nat \ {0}
        /\ \A i \in DOMAIN jobChan' : jobChan'[i] = jobChan[i + 1]
        /\ Head(jobChan) = jobChan[1]
    BY <1>7, <2>1, TakeJob DEF Take
  <2>3. 1 \in DOMAIN jobChan /\ \A i \in DOMAIN jobChan' : i + 1 \in DOMAIN jobChan
    BY <2>2
  <2>4. /\ UNCHANGED <<holds, enq, accepted, sent>>
        /\ pub' = [pub EXCEPT ![p] = [at |-> "publish", job |-> jobChan[1]]]
    BY <1>7, <2>2 DEF Take
  <2>5. \A q \in Publishers : pub'[q] = IF q = p THEN [at |-> "publish", job |-> jobChan[1]]
                                        ELSE pub[q]
    BY <2>4 DEF Inv, TypeOK
  <2>6. QED
    BY <2>2, <2>3, <2>4, <2>5 DEF Inv, Carried, SentIntact
<1>8. ASSUME NEW p \in Publishers, Publish(p) PROVE Carried' /\ SentIntact'
  <2>1. /\ UNCHANGED <<holds, enq, jobChan, accepted>> /\ pub[p].at = "publish"
        /\ \A q \in Publishers : pub'[q].at = "publish" => pub'[q] = pub[q]
    BY <1>8 DEF Publish, Inv, TypeOK
  <2>2. Carried'
    BY <2>1 DEF Inv, Carried
  <2>3. SentIntact'
    BY <1>8, <2>1 DEF Publish, Inv, Carried, SentIntact
  <2>4. QED
    BY <2>2, <2>3
<1>9. ASSUME NEW p \in Publishers, Put(p) \/ Leave(p) PROVE Carried' /\ SentIntact'
  <2>1. /\ UNCHANGED <<holds, enq, jobChan, accepted, sent>>
        /\ \A q \in Publishers : pub'[q].at = "publish" => pub'[q] = pub[q]
    BY <1>9 DEF Put, Leave, Inv, TypeOK, Idle
  <2>2. QED
    BY <2>1 DEF Inv, Carried, SentIntact
<1>10. CASE Close \/ UNCHANGED vars
  BY <1>10 DEF Close, vars, Inv, Carried, SentIntact
<1>11. QED
  BY <1>5, <1>6, <1>7, <1>8, <1>9, <1>10 DEF Next, Enqueue, Publisher, Finished

-----------------------------------------------------------------------------
(* The theorems                                                            *)

(* The invariant: types, ownership, allocation and contents together.      *)
THEOREM Invariance == Spec => []Inv
<1>1. Init => Inv
  BY InitInv
<1>2. Inv /\ [Next]_vars => Inv'
  BY TypeStep, OwnerStep, CarriedStep DEF Inv
<1>3. QED
  BY <1>1, <1>2, PTL DEF Spec

(* Every variable has its type, the queue stays within its capacity, and   *)
(* whoever is at work has a job in hand.                                   *)
THEOREM TypeCorrect == Spec => []TypeOK
<1>1. Inv => TypeOK
  BY DEF Inv
<1>2. QED
  BY <1>1, Invariance, PTL

(* bufPool and jobChan of publish.go: no buffer is in two hands.           *)
THEOREM Ownership == Spec => []OneOwner
<1>1. Inv => OneOwner
  BY DEF Inv
<1>2. QED
  BY <1>1, Invariance, PTL

(* What the publisher sends are the bytes of the log it was asked to send, *)
(* whatever else the pool's buffers are used for meanwhile.                *)
THEOREM Integrity == Spec => []SentIntact
<1>1. Inv => SentIntact
  BY DEF Inv
<1>2. QED
  BY <1>1, Invariance, PTL
=============================================================================

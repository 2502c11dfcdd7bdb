---------------------------- MODULE LiveTailProofs ----------------------------
(***************************************************************************)
(* Proofs about one live tail connection, for any capacity of the ring and *)
(* any number of logs.                                                     *)
(***************************************************************************)
EXTENDS LiveTail, TLAPS, SequenceTheorems

-----------------------------------------------------------------------------
(* Queues of logs                                                          *)

LEMMA AppendLog ==
  ASSUME NEW q \in Seq(Logs), NEW l \in Logs
  PROVE  /\ Append(q, l) \in Seq(Logs)
         /\ Len(Append(q, l)) = Len(q) + 1
         /\ Len(q) \in Nat
  BY AppendProperties, LenProperties

LEMMA TakeLog ==
  ASSUME NEW q \in Seq(Logs), q # <<>>
  PROVE  /\ Head(q) \in Logs
         /\ Tail(q) \in Seq(Logs)
         /\ Len(Tail(q)) = Len(q) - 1
         /\ Len(q) \in Nat \ {0}
  BY HeadTailProperties, EmptySeq, LenProperties

LEMMA EmptyLogs == <<>> \in Seq(Logs) /\ Len(<<>>) = 0
  BY EmptySeq

-----------------------------------------------------------------------------
(* The invariant, conjunct by conjunct                                     *)

LEMMA InitInv == Init => Inv
<1> SUFFICES ASSUME Init PROVE Inv
  OBVIOUS
<1>1. TypeOK
  <2>1. at \in [Actors -> Positions]
    BY DEF Init, Actors, Positions
  <2>2. published \in 0..MaxLogs /\ Len(logCh) <= Capacity
    BY EmptyLogs, CapacityAssumption, LogsAssumption DEF Init
  <2>3. valid \in BOOLEAN /\ closed \in BOOLEAN /\ cancelled \in BOOLEAN
        /\ reader \in BOOLEAN /\ presence \in BOOLEAN
    BY DEF Init
  <2>4. QED
    BY <2>1, <2>2, <2>3, EmptyLogs DEF Init, TypeOK
<1>2. CallbackNeverBlocks /\ CleanupInv
  BY DEF Init, CallbackNeverBlocks, CleanupInv, InCleanup, Actors
<1>3. QED
  BY <1>1, <1>2 DEF Inv

(* Type correctness, action by action. *)
LEMMA TypeStep == TypeOK /\ [Next]_vars => TypeOK'
<1> SUFFICES ASSUME TypeOK, [Next]_vars PROVE TypeOK'
  OBVIOUS
<1> USE DEF TypeOK, subVars, cbVars, chanVars, sideVars, wsVars
<1>0. ASSUME NEW a \in Actors, NEW p \in Positions, Move(a, p)
      PROVE  at' \in [Actors -> Positions]
  BY <1>0 DEF Move
<1>1. CASE Publish
  <2>1. published + 1 \in Logs /\ published' \in 0..MaxLogs
    BY <1>1, LogsAssumption DEF Publish, Logs
  <2>2. Append(pending, published + 1) \in Seq(Logs)
    BY <2>1, AppendLog
  <2>3. pending' \in Seq(Logs)
    BY <1>1, <2>2 DEF Publish
  <2>4. QED
    BY <1>1, <2>1, <2>3 DEF Publish
<1>2. CASE Dispatch
  BY <1>2, TakeLog DEF Dispatch
<1>3. CASE Check
  BY <1>3 DEF Check
<1>4. ASSUME Len(logCh) < Capacity, msg \in Logs
      PROVE  Append(logCh, msg) \in Seq(Logs) /\ Len(Append(logCh, msg)) <= Capacity
  BY <1>4, AppendLog, CapacityAssumption
<1>5. CASE TrySend
  BY <1>5, <1>4 DEF TrySend
<1>6. CASE DropOldest
  <2>1. logCh' \in Seq(Logs) /\ Len(logCh') <= Capacity
    BY <1>6, TakeLog, EmptyLogs, CapacityAssumption DEF DropOldest
  <2>2. QED
    BY <1>6, <2>1 DEF DropOldest
<1>7. CASE Send
  BY <1>7, <1>4 DEF Send
<1>8. CASE SendOnClosed
  <2>1. at' \in [Actors -> Positions]
    BY <1>8 DEF SendOnClosed, Positions
  <2>2. QED
    BY <1>8, <2>1, EmptyLogs DEF SendOnClosed
<1>9. ASSUME NEW a \in Actors, Cleanup(a) PROVE TypeOK'
  <2>1. {"unsub", "close", After(a)} \subseteq Positions
    BY DEF After, Positions
  <2>2. CASE EnterCleanup(a)
    BY <2>2, <2>1, <1>0 DEF EnterCleanup
  <2>3. CASE Unsubscribe(a)
    BY <2>3, <2>1, <1>0, EmptyLogs DEF Unsubscribe
  <2>4. CASE CloseLogs(a)
    BY <2>4, <2>1, <1>0 DEF CloseLogs
  <2>5. QED
    BY <1>9, <2>2, <2>3, <2>4 DEF Cleanup
<1>10. "handler" \in Actors /\ "watcher" \in Actors
  BY DEF Actors
<1>11. CASE Watch
  BY <1>11, <1>10, <1>0 DEF Watch, Positions
<1>12. CASE Subscribe
  <2>1. at' \in [Actors -> Positions]
    BY <1>12 DEF Subscribe, Actors, Positions
  <2>2. QED
    BY <1>12, <2>1 DEF Subscribe
<1>13. CASE SubscribeFails
  BY <1>13, <1>10, <1>0 DEF SubscribeFails, Positions
<1>14. CASE Leave
  <2>1. {"cleanup", "ws", "done"} \subseteq Positions
    BY DEF Positions
  <2>2. CASE SeeDone \/ SeeClosed \/ WriteFails
    <3>1. at' \in [Actors -> Positions]
      BY <2>2, <1>10, <1>0, <2>1 DEF SeeDone, SeeClosed, WriteFails
    <3>2. QED
      BY <2>2, <3>1 DEF SeeDone, SeeClosed, WriteFails
  <2>3. CASE CancelContext \/ CloseWebSocket
    <3>1. at' \in [Actors -> Positions]
      BY <2>3, <1>10, <1>0, <2>1 DEF CancelContext, CloseWebSocket
    <3>2. CASE CancelContext
      BY <3>2, <3>1 DEF CancelContext
    <3>3. CASE CloseWebSocket
      BY <3>3, <3>1 DEF CloseWebSocket
    <3>4. QED
      BY <2>3, <3>2, <3>3
  <2>4. QED
    BY <1>14, <2>2, <2>3 DEF Leave
<1>15. CASE SeePayload
  <2>1. batch' \in Seq(Logs)
    BY <1>15, TakeLog, AppendLog DEF SeePayload
  <2>2. logCh' \in Seq(Logs) /\ Len(logCh') <= Capacity
    BY <1>15, TakeLog, CapacityAssumption DEF SeePayload
  <2>3. QED
    BY <1>15, <2>1, <2>2 DEF SeePayload
<1>16. CASE Tick
  BY <1>16, <1>10, <1>0 DEF Tick, Positions
<1>17. CASE Write
  <2>1. received' \in Seq(Logs) /\ batch' \in Seq(Logs)
    BY <1>17, ConcatProperties, EmptyLogs DEF Write
  <2>2. at' \in [Actors -> Positions]
    BY <1>17, <1>10, <1>0 DEF Write, Positions
  <2>3. QED
    BY <1>17, <2>1, <2>2 DEF Write
<1>18. CASE ReaderCancels \/ StopPresence \/ Disconnect
  <2>1. CASE ReaderCancels
    BY <2>1 DEF ReaderCancels
  <2>2. CASE StopPresence
    BY <2>2 DEF StopPresence
  <2>3. CASE Disconnect
    BY <2>3 DEF Disconnect
  <2>4. QED
    BY <1>18, <2>1, <2>2, <2>3
<1>19. CASE UNCHANGED vars
  BY <1>19 DEF vars
<1>20. QED
  BY <1>1, <1>2, <1>3, <1>5, <1>6, <1>7, <1>8, <1>9, <1>11, <1>12, <1>13, <1>14,
     <1>15, <1>16, <1>17, <1>18, <1>19 DEF Next, Callback, Start, Forward

(* The callback finds room: DropOldest has made it or found it, and until  *)
(* the send only the handler touches the channel, and takes from it.       *)
LEMMA RoomStep == TypeOK /\ CallbackNeverBlocks /\ [Next]_vars => CallbackNeverBlocks'
<1> SUFFICES ASSUME TypeOK, CallbackNeverBlocks, [Next]_vars PROVE CallbackNeverBlocks'
  OBVIOUS
<1> USE DEF CallbackNeverBlocks, subVars, cbVars, chanVars, sideVars, wsVars
<1>1. CASE DropOldest
  <2>1. Len(logCh') < Capacity
    BY <1>1, TakeLog, EmptyLogs, CapacityAssumption DEF DropOldest, TypeOK
  <2>2. QED
    BY <2>1
<1>2. CASE SeePayload
  <2>1. Len(logCh) \in Nat /\ Len(logCh') = Len(logCh) - 1
    BY <1>2, TakeLog DEF SeePayload, TypeOK
  <2>2. QED
    BY <1>2, <2>1, CapacityAssumption DEF SeePayload
<1>3. CASE Dispatch \/ Check \/ TrySend \/ Send \/ SendOnClosed
  BY <1>3 DEF Dispatch, Check, TrySend, Send, SendOnClosed
<1>4. ASSUME NEW a \in Actors, Cleanup(a) PROVE CallbackNeverBlocks'
  BY <1>4 DEF Cleanup, EnterCleanup, Unsubscribe, CloseLogs
<1>5. CASE Publish \/ Watch \/ Start \/ Leave \/ Tick \/ Write
  BY <1>5 DEF Publish, Watch, Start, Subscribe, SubscribeFails, Leave, SeeDone, SeeClosed,
     WriteFails, CancelContext, CloseWebSocket, Tick, Write
<1>6. CASE ReaderCancels \/ StopPresence \/ Disconnect
  BY <1>6 DEF ReaderCancels, StopPresence, Disconnect
<1>7. CASE UNCHANGED vars
  BY <1>7 DEF vars
<1>8. QED
  BY <1>1, <1>2, <1>3, <1>4, <1>5, <1>6, <1>7 DEF Next, Callback, Forward

(* The cleanup is exclusive. *)
LEMMA CleanupStep == TypeOK /\ CleanupInv /\ [Next]_vars => CleanupInv'
<1> SUFFICES ASSUME TypeOK, CleanupInv, [Next]_vars PROVE CleanupInv'
  OBVIOUS
<1>0. at \in [Actors -> Positions] /\ Actors = {"handler", "watcher"}
  BY DEF TypeOK, Actors
<1> USE DEF CleanupInv, InCleanup, subVars, cbVars, chanVars, sideVars, wsVars
<1>1. ASSUME NEW a \in Actors, EnterCleanup(a) PROVE CleanupInv'
  BY <1>0, <1>1 DEF EnterCleanup, Move, After
<1>2. ASSUME NEW a \in Actors, Unsubscribe(a) PROVE CleanupInv'
  BY <1>0, <1>2 DEF Unsubscribe, Move
<1>3. ASSUME NEW a \in Actors, CloseLogs(a) PROVE CleanupInv'
  BY <1>0, <1>3 DEF CloseLogs, Move, After
<1>4. CASE Watch
  BY <1>0, <1>4 DEF Watch, Move
<1>5. CASE Start
  BY <1>0, <1>5 DEF Start, Subscribe, SubscribeFails, Move
<1>6. CASE Leave
  BY <1>0, <1>6
     DEF Leave, SeeDone, SeeClosed, WriteFails, CancelContext, CloseWebSocket, Move
<1>7. CASE Forward
  BY <1>0, <1>7 DEF Forward, SeePayload, Tick, Write, Move
<1>8. CASE SendOnClosed
  BY <1>0, <1>8 DEF SendOnClosed
<1>9. CASE Publish \/ Dispatch \/ Check \/ TrySend \/ DropOldest \/ Send
  BY <1>9 DEF Publish, Dispatch, Check, TrySend, DropOldest, Send
<1>10. CASE ReaderCancels \/ StopPresence \/ Disconnect
  BY <1>10 DEF ReaderCancels, StopPresence, Disconnect
<1>11. CASE UNCHANGED vars
  BY <1>11 DEF vars
<1>12. QED
  BY <1>1, <1>2, <1>3, <1>4, <1>5, <1>6, <1>7, <1>8, <1>9, <1>10, <1>11
     DEF Next, Callback, Cleanup

-----------------------------------------------------------------------------
(* Order.  The five stages of a log, from the client's to the library's:   *)
(* r (received), b (batch), l (logCh), h (in the callback's hand) and p    *)
(* (pending).  Each is increasing, each lies below the later ones, and n   *)
(* bounds them all.                                                        *)

Below(s, t)  == \A c \in Range(s), d \in Range(t) : c < d
AtMost(s, n) == \A c \in Range(s) : c <= n

Ordered(r, b, l, h, p, n) ==
  /\ Increasing(r) /\ Increasing(b) /\ Increasing(l) /\ Increasing(h) /\ Increasing(p)
  /\ Below(r, b) /\ Below(r, l) /\ Below(r, h) /\ Below(r, p)
  /\ Below(b, l) /\ Below(b, h) /\ Below(b, p)
  /\ Below(l, h) /\ Below(l, p) /\ Below(h, p)
  /\ AtMost(r, n) /\ AtMost(b, n) /\ AtMost(l, n) /\ AtMost(h, n) /\ AtMost(p, n)

OrderInv == Ordered(received, batch, logCh, InHand, pending, published)

LEMMA ConcatIncreasing ==
  ASSUME NEW s \in Seq(Logs), NEW t \in Seq(Logs)
  PROVE  Increasing(s \o t) <=> Increasing(s) /\ Increasing(t) /\ Below(s, t)
<1> DEFINE x == s \o t
           m == Len(s)
           k == Len(t)
<1>1. /\ x \in Seq(Logs) /\ Len(x) = m + k /\ m \in Nat /\ k \in Nat
      /\ DOMAIN x = 1..(m + k) /\ DOMAIN s = 1..m /\ DOMAIN t = 1..k
  BY ConcatProperties, LenProperties
<1>2. /\ \A i \in 1..m : i \in 1..(m + k) /\ x[i] = s[i]
      /\ \A i \in 1..k : m + i \in 1..(m + k) /\ x[m + i] = t[i]
  <2>1. \A i \in 1..(m + k) : x[i] = IF i <= m THEN s[i] ELSE t[i - m]
    BY ConcatProperties
  <2>2. ASSUME NEW i \in 1..k PROVE m + i \in 1..(m + k) /\ x[m + i] = t[i]
    <3>1. m + i \in 1..(m + k) /\ ~(m + i <= m) /\ (m + i) - m = i
      BY <1>1
    <3>2. QED
      BY <2>1, <3>1
  <2>3. QED
    BY <1>1, <2>1, <2>2
<1>3. \A i \in 1..(m + k) : i \in 1..m \/ \E j \in 1..k : i = m + j
  <2>1. ASSUME NEW i \in 1..(m + k), i \notin 1..m PROVE i - m \in 1..k /\ i = m + (i - m)
    BY <1>1, <2>1
  <2>2. QED
    BY <2>1
<1>4. Below(s, t) <=> \A i \in 1..m, j \in 1..k : s[i] < t[j]
  <2>1. Range(s) = {s[i] : i \in 1..m}
    BY RangeEquality
  <2>2. Range(t) = {t[j] : j \in 1..k}
    BY RangeEquality
  <2>3. QED
    BY <2>1, <2>2 DEF Below
<1>5. ASSUME Increasing(x) PROVE Increasing(s) /\ Increasing(t) /\ Below(s, t)
  <2>1. Increasing(s)
    BY <1>1, <1>2, <1>5 DEF Increasing
  <2>2. ASSUME NEW i \in 1..k, NEW j \in 1..k, i < j PROVE t[i] < t[j]
    <3>1. m + i < m + j
      BY <1>1, <2>2
    <3>2. QED
      BY <1>1, <1>2, <1>5, <3>1 DEF Increasing
  <2>3. ASSUME NEW i \in 1..m, NEW j \in 1..k PROVE s[i] < t[j]
    <3>1. i < m + j
      BY <1>1
    <3>2. QED
      BY <1>1, <1>2, <1>5, <3>1 DEF Increasing
  <2>4. QED
    BY <1>1, <1>4, <2>1, <2>2, <2>3 DEF Increasing
<1>6. ASSUME Increasing(s), Increasing(t), Below(s, t),
             NEW i \in 1..(m + k), NEW j \in 1..(m + k), i < j
      PROVE  x[i] < x[j]
  <2>1. CASE j \in 1..m
    <3>1. i \in 1..m
      BY <1>1, <1>6, <2>1
    <3>2. QED
      BY <1>1, <1>2, <1>6, <2>1, <3>1 DEF Increasing
  <2>2. CASE j \notin 1..m
    <3>1. PICK c \in 1..k : j = m + c
      BY <1>3, <2>2
    <3>2. CASE i \in 1..m
      BY <1>1, <1>2, <1>4, <1>6, <3>1, <3>2
    <3>3. CASE i \notin 1..m
      <4>1. PICK a \in 1..k : i = m + a
        BY <1>3, <3>3
      <4>2. a < c
        BY <1>1, <1>6, <3>1, <4>1
      <4>3. QED
        BY <1>1, <1>2, <1>6, <3>1, <4>1, <4>2 DEF Increasing
    <3>4. QED
      BY <3>2, <3>3
  <2>3. QED
    BY <2>1, <2>2
<1>7. QED
  BY <1>1, <1>5, <1>6 DEF Increasing

LEMMA ConcatOrder ==
  ASSUME NEW s \in Seq(Logs), NEW t \in Seq(Logs)
  PROVE  /\ s \o t \in Seq(Logs)
         /\ Increasing(s \o t) <=> Increasing(s) /\ Increasing(t) /\ Below(s, t)
         /\ \A u : Below(s \o t, u) <=> Below(s, u) /\ Below(t, u)
         /\ \A u : Below(u, s \o t) <=> Below(u, s) /\ Below(u, t)
         /\ \A n : AtMost(s \o t, n) <=> AtMost(s, n) /\ AtMost(t, n)
<1>1. Range(s \o t) = Range(s) \cup Range(t)
  BY RangeConcatenation
<1>2. s \o t \in Seq(Logs)
  BY ConcatProperties
<1>3. \A u : Below(s \o t, u) <=> Below(s, u) /\ Below(t, u)
  BY <1>1 DEF Below
<1>4. \A u : Below(u, s \o t) <=> Below(u, s) /\ Below(u, t)
  BY <1>1 DEF Below
<1>5. \A n : AtMost(s \o t, n) <=> AtMost(s, n) /\ AtMost(t, n)
  BY <1>1 DEF AtMost
<1>6. QED
  BY <1>2, <1>3, <1>4, <1>5, ConcatIncreasing

LEMMA EmptyOrder ==
  /\ Increasing(<<>>)
  /\ \A u : Below(<<>>, u) /\ Below(u, <<>>)
  /\ \A n : AtMost(<<>>, n)
<1>1. Range(<<>>) = {}
  BY DEF Range
<1>2. QED
  BY <1>1, EmptyLogs DEF Increasing, Below, AtMost

(* Taking the first log, and appending one, as concatenations.             *)
LEMMA HeadConcat ==
  ASSUME NEW s \in Seq(Logs), s # <<>>
  PROVE  /\ Head(s) \in Logs /\ Tail(s) \in Seq(Logs) /\ <<Head(s)>> \in Seq(Logs)
         /\ s = <<Head(s)>> \o Tail(s)
<1>1. /\ Head(s) \in Logs /\ Tail(s) \in Seq(Logs) /\ Len(Tail(s)) = Len(s) - 1
      /\ \A i \in 1..Len(Tail(s)) : Tail(s)[i] = s[i + 1]
      /\ Len(s) \in Nat \ {0}
  BY HeadTailProperties, TakeLog
<1>2. <<Head(s)>> \in Seq(Logs) /\ Len(<<Head(s)>>) = 1
  BY <1>1
<1> DEFINE x == <<Head(s)>> \o Tail(s)
<1>3. /\ x \in Seq(Logs) /\ Len(x) = 1 + Len(Tail(s))
      /\ \A i \in 1..(1 + Len(Tail(s))) :
           x[i] = IF i <= 1 THEN <<Head(s)>>[i] ELSE Tail(s)[i - 1]
  BY <1>1, <1>2, ConcatProperties
<1>4. Len(x) = Len(s)
  BY <1>1, <1>3
<1>5. ASSUME NEW i \in 1..Len(s) PROVE s[i] = x[i]
  <2>1. CASE i = 1
    BY <1>1, <1>3, <2>1
  <2>2. CASE i # 1
    <3>1. i - 1 \in 1..Len(Tail(s)) /\ (i - 1) + 1 = i /\ ~(i <= 1)
      BY <1>1, <2>2
    <3>2. Tail(s)[i - 1] = s[i]
      BY <1>1, <3>1
    <3>3. x[i] = Tail(s)[i - 1]
      BY <1>1, <1>3, <3>1
    <3>4. QED
      BY <3>2, <3>3
  <2>3. QED
    BY <2>1, <2>2
<1>6. s = x
  BY <1>3, <1>4, <1>5, SeqEqual
<1>7. QED
  BY <1>1, <1>2, <1>6

LEMMA HeadOrder ==
  ASSUME NEW s \in Seq(Logs), s # <<>>
  PROVE  /\ Increasing(s) => /\ Increasing(<<Head(s)>>) /\ Increasing(Tail(s))
                             /\ Below(<<Head(s)>>, Tail(s))
         /\ \A u : Below(u, s) => Below(u, <<Head(s)>>) /\ Below(u, Tail(s))
         /\ \A u : Below(s, u) => Below(<<Head(s)>>, u) /\ Below(Tail(s), u)
         /\ \A n : AtMost(s, n) => AtMost(<<Head(s)>>, n) /\ AtMost(Tail(s), n)
<1> DEFINE f == <<Head(s)>>
           t == Tail(s)
<1>1. f \in Seq(Logs) /\ t \in Seq(Logs) /\ s = f \o t
  BY HeadConcat
<1> HIDE DEF f, t
<1>2. /\ Increasing(f \o t) <=> Increasing(f) /\ Increasing(t) /\ Below(f, t)
      /\ \A u : Below(f \o t, u) <=> Below(f, u) /\ Below(t, u)
      /\ \A u : Below(u, f \o t) <=> Below(u, f) /\ Below(u, t)
      /\ \A n : AtMost(f \o t, n) <=> AtMost(f, n) /\ AtMost(t, n)
  BY <1>1, ConcatOrder
<1>3. /\ Increasing(s) => Increasing(f) /\ Increasing(t) /\ Below(f, t)
      /\ \A u : Below(u, s) => Below(u, f) /\ Below(u, t)
      /\ \A u : Below(s, u) => Below(f, u) /\ Below(t, u)
      /\ \A n : AtMost(s, n) => AtMost(f, n) /\ AtMost(t, n)
  BY <1>1, <1>2
<1>4. QED
  BY <1>3 DEF f, t

LEMMA AppendConcat ==
  ASSUME NEW s \in Seq(Logs), NEW e \in Logs
  PROVE  Append(s, e) = s \o <<e>> /\ <<e>> \in Seq(Logs) /\ Range(<<e>>) = {e}
<1>1. <<e>> \in Seq(Logs) /\ Len(<<e>>) = 1
  OBVIOUS
<1>2. Range(<<e>>) = {<<e>>[i] : i \in 1..1}
  BY <1>1, RangeEquality
<1>3. Range(<<e>>) = {e}
  BY <1>2
<1>4. QED
  BY <1>1, <1>3, AppendIsConcat

(* The stages in a row are in order if and only if they are ordered.       *)
LEMMA StagesInOrder ==
  ASSUME NEW r \in Seq(Logs), NEW b \in Seq(Logs), NEW l \in Seq(Logs),
         NEW h \in Seq(Logs), NEW p \in Seq(Logs), NEW n \in Nat,
         Ordered(r, b, l, h, p, n)
  PROVE  Increasing(r \o b \o l \o h \o p)
<1>1. r \o b \in Seq(Logs) /\ Increasing(r \o b) /\ Below(r \o b, l)
      /\ Below(r \o b, h) /\ Below(r \o b, p)
  BY ConcatOrder DEF Ordered
<1>2. r \o b \o l \in Seq(Logs) /\ Increasing(r \o b \o l)
      /\ Below(r \o b \o l, h) /\ Below(r \o b \o l, p)
  BY <1>1, ConcatOrder DEF Ordered
<1>3. r \o b \o l \o h \in Seq(Logs) /\ Increasing(r \o b \o l \o h)
      /\ Below(r \o b \o l \o h, p)
  BY <1>2, ConcatOrder DEF Ordered
<1>4. QED
  BY <1>3, ConcatOrder DEF Ordered

(* The ways in which logs move between the stages keep the order.          *)
LEMMA Moves ==
  ASSUME NEW r \in Seq(Logs), NEW b \in Seq(Logs), NEW l \in Seq(Logs),
         NEW h \in Seq(Logs), NEW p \in Seq(Logs), NEW n \in Nat,
         Ordered(r, b, l, h, p, n)
  PROVE  /\ Ordered(r, b, l, <<>>, p, n)
         /\ Ordered(r, b, l, <<>>, <<>>, n)
         /\ Ordered(r, b, l, h, <<>>, n)
         /\ p # <<>> => Ordered(r, b, l, <<Head(p)>>, Tail(p), n)
         /\ l # <<>> => Ordered(r, b, Tail(l), h, p, n)
         /\ l # <<>> => Ordered(r, Append(b, Head(l)), Tail(l), h, p, n)
         /\ Ordered(r \o b, <<>>, l, h, p, n)
         /\ \A e \in Logs : h = <<e>> => Ordered(r, b, Append(l, e), <<>>, p, n)
<1> USE DEF Ordered
<1>1. /\ Ordered(r, b, l, <<>>, p, n)
      /\ Ordered(r, b, l, <<>>, <<>>, n)
      /\ Ordered(r, b, l, h, <<>>, n)
  BY EmptyOrder
<1>2. ASSUME p # <<>> PROVE Ordered(r, b, l, <<Head(p)>>, Tail(p), n)
  <2>1. ASSUME NEW x \in Seq(Logs), Below(x, p)
        PROVE  Below(x, <<Head(p)>>) /\ Below(x, Tail(p))
    BY <1>2, <2>1, HeadOrder
  <2>2. /\ Increasing(<<Head(p)>>) /\ Increasing(Tail(p)) /\ Below(<<Head(p)>>, Tail(p))
        /\ AtMost(<<Head(p)>>, n) /\ AtMost(Tail(p), n)
    BY <1>2, HeadOrder
  <2>3. QED
    BY <2>1, <2>2
<1>3. ASSUME l # <<>>
      PROVE  /\ Ordered(r, b, Tail(l), h, p, n)
             /\ Ordered(r, Append(b, Head(l)), Tail(l), h, p, n)
  <2> DEFINE f == <<Head(l)>>
             t == Tail(l)
  <2>1. /\ f \in Seq(Logs) /\ t \in Seq(Logs) /\ l = f \o t /\ Head(l) \in Logs
        /\ Append(b, Head(l)) = b \o f
    BY <1>3, HeadConcat, AppendConcat
  <2>2. ASSUME NEW x \in Seq(Logs)
        PROVE  /\ Below(x, l) => Below(x, f) /\ Below(x, t)
               /\ Below(l, x) => Below(f, x) /\ Below(t, x)
    BY <1>3, HeadOrder
  <2>3. /\ Increasing(f) /\ Increasing(t) /\ Below(f, t)
        /\ AtMost(f, n) /\ AtMost(t, n)
    BY <1>3, HeadOrder
  <2>4. /\ Increasing(b \o f) /\ Below(r, b \o f) /\ Below(b \o f, t)
        /\ Below(b \o f, h) /\ Below(b \o f, p) /\ AtMost(b \o f, n)
    BY <2>1, <2>2, <2>3, ConcatOrder
  <2>5. QED
    BY <2>1, <2>2, <2>3, <2>4
<1>4. Ordered(r \o b, <<>>, l, h, p, n)
  <2>1. /\ r \o b \in Seq(Logs) /\ Increasing(r \o b) /\ Below(r \o b, l)
        /\ Below(r \o b, h) /\ Below(r \o b, p) /\ AtMost(r \o b, n)
    BY ConcatOrder
  <2>2. QED
    BY <2>1, EmptyOrder
<1>5. ASSUME NEW e \in Logs, h = <<e>> PROVE Ordered(r, b, Append(l, e), <<>>, p, n)
  <2>1. Append(l, e) = l \o h
    BY <1>5, AppendConcat
  <2>2. /\ l \o h \in Seq(Logs) /\ Increasing(l \o h) /\ Below(r, l \o h)
        /\ Below(b, l \o h) /\ Below(l \o h, p) /\ AtMost(l \o h, n)
    BY ConcatOrder
  <2>3. QED
    BY <2>1, <2>2, EmptyOrder
<1>6. QED
  BY <1>1, <1>2, <1>3, <1>4, <1>5

(* A log that is published is newer than all before it.                    *)
LEMMA PublishOrder ==
  ASSUME NEW r \in Seq(Logs), NEW b \in Seq(Logs), NEW l \in Seq(Logs),
         NEW h \in Seq(Logs), NEW p \in Seq(Logs), NEW n \in Nat, n + 1 \in Logs,
         Ordered(r, b, l, h, p, n)
  PROVE  /\ Ordered(r, b, l, h, p, n + 1)
         /\ Ordered(r, b, l, h, Append(p, n + 1), n + 1)
<1> DEFINE e == <<n + 1>>
<1>1. e \in Seq(Logs) /\ Append(p, n + 1) = p \o e /\ Range(e) = {n + 1}
  BY AppendConcat
<1>2. ASSUME NEW s \in Seq(Logs), AtMost(s, n) PROVE AtMost(s, n + 1) /\ Below(s, e)
  <2>1. Range(s) \subseteq Logs
    BY RangeOfSeq
  <2>2. \A c \in Range(s) : c <= n + 1 /\ c < n + 1
    BY <1>2, <2>1 DEF AtMost, Logs
  <2>3. QED
    BY <1>1, <2>2 DEF AtMost, Below
<1>3. Increasing(e) /\ AtMost(e, n + 1)
  <2>1. \A i, j \in DOMAIN e : ~(i < j)
    OBVIOUS
  <2>2. \A c \in Range(e) : c <= n + 1
    BY <1>1
  <2> HIDE DEF e
  <2>3. QED
    BY <2>1, <2>2 DEF Increasing, AtMost
<1> HIDE DEF e
<1>4. /\ Increasing(p \o e) /\ AtMost(p \o e, n + 1)
      /\ Below(r, p \o e) /\ Below(b, p \o e) /\ Below(l, p \o e) /\ Below(h, p \o e)
  <2>1. /\ Increasing(p \o e) <=> Increasing(p) /\ Increasing(e) /\ Below(p, e)
        /\ \A u : Below(u, p \o e) <=> Below(u, p) /\ Below(u, e)
        /\ AtMost(p \o e, n + 1) <=> AtMost(p, n + 1) /\ AtMost(e, n + 1)
    BY <1>1, ConcatOrder
  <2>2. QED
    BY <1>2, <1>3, <2>1 DEF Ordered
<1>5. QED
  BY <1>1, <1>2, <1>4 DEF Ordered

LEMMA OrderInit == Init => OrderInv
<1> SUFFICES ASSUME Init PROVE OrderInv
  OBVIOUS
<1>1. received = <<>> /\ batch = <<>> /\ logCh = <<>> /\ pending = <<>>
      /\ InHand = <<>> /\ published = 0
  BY DEF Init, InHand
<1>2. QED
  BY <1>1, EmptyOrder, EmptyLogs DEF OrderInv, Ordered

LEMMA OrderStep == TypeOK /\ OrderInv /\ [Next]_vars => OrderInv'
<1> SUFFICES ASSUME TypeOK, OrderInv, [Next]_vars PROVE OrderInv'
  OBVIOUS
<1> USE DEF OrderInv, subVars, cbVars, chanVars, sideVars, wsVars
<1>1. /\ received \in Seq(Logs) /\ batch \in Seq(Logs) /\ logCh \in Seq(Logs)
      /\ InHand \in Seq(Logs) /\ pending \in Seq(Logs) /\ published \in Nat
  BY EmptyLogs, LogsAssumption DEF TypeOK, InHand
<1> DEFINE Now(r, b, l, h, p) == Ordered(r, b, l, h, p, published)
<1>0. /\ Now(received, batch, logCh, <<>>, pending)
      /\ Now(received, batch, logCh, <<>>, <<>>)
      /\ Now(received, batch, logCh, InHand, <<>>)
      /\ pending # <<>> => Now(received, batch, logCh, <<Head(pending)>>, Tail(pending))
      /\ logCh # <<>> => Now(received, batch, Tail(logCh), InHand, pending)
      /\ logCh # <<>> =>
           Now(received, Append(batch, Head(logCh)), Tail(logCh), InHand, pending)
      /\ Now(received \o batch, <<>>, logCh, InHand, pending)
      /\ \A e \in Logs : InHand = <<e>> =>
           Now(received, batch, Append(logCh, e), <<>>, pending)
  BY <1>1, Moves
<1>2. CASE Publish
  <2>1. /\ published + 1 \in Logs /\ published' = published + 1
        /\ pending' \in {pending, Append(pending, published + 1)}
        /\ UNCHANGED <<received, batch, logCh>> /\ InHand' = InHand
    BY <1>1, <1>2, LogsAssumption DEF Publish, Logs, InHand
  <2>2. QED
    BY <1>1, <2>1, PublishOrder
<1>3. CASE Dispatch
  <2>1. /\ pending # <<>> /\ InHand' = <<Head(pending)>> /\ pending' = Tail(pending)
        /\ UNCHANGED <<received, batch, logCh, published>>
    BY <1>3 DEF Dispatch, InHand
  <2>2. QED
    BY <1>0, <2>1
<1>4. CASE Check
  <2>1. /\ InHand' \in {InHand, <<>>}
        /\ UNCHANGED <<received, batch, logCh, pending, published>>
    BY <1>4 DEF Check, InHand
  <2>2. QED
    BY <1>0, <2>1
<1>5. CASE TrySend \/ Send
  <2>1. /\ msg \in Logs /\ InHand = <<msg>>
        /\ UNCHANGED <<received, batch, pending, published>>
        /\ \/ InHand' = InHand /\ logCh' = logCh
           \/ InHand' = <<>> /\ logCh' = Append(logCh, msg)
    BY <1>5 DEF TrySend, Send, InHand, TypeOK
  <2>2. QED
    BY <1>0, <2>1
<1>6. CASE DropOldest
  <2>1. /\ InHand' = InHand
        /\ logCh' = IF logCh = <<>> THEN logCh ELSE Tail(logCh)
        /\ UNCHANGED <<received, batch, pending, published>>
    BY <1>6 DEF DropOldest, InHand
  <2>2. QED
    BY <1>0, <2>1
<1>7. CASE SendOnClosed
  <2>1. /\ InHand' = <<>> /\ pending' = <<>>
        /\ UNCHANGED <<received, batch, logCh, published>>
    BY <1>7 DEF SendOnClosed, InHand
  <2>2. QED
    BY <1>0, <2>1
<1>8. CASE SeePayload
  <2>1. /\ logCh # <<>> /\ logCh' = Tail(logCh) /\ batch' = Append(batch, Head(logCh))
        /\ UNCHANGED <<received, pending, published>> /\ InHand' = InHand
    BY <1>8 DEF SeePayload, InHand
  <2>2. QED
    BY <1>0, <2>1
<1>9. CASE Write
  <2>1. /\ received' = received \o batch /\ batch' = <<>>
        /\ UNCHANGED <<logCh, pending, published>> /\ InHand' = InHand
    BY <1>9 DEF Write, InHand
  <2>2. QED
    BY <1>0, <2>1
<1>10. ASSUME NEW a \in Actors, Cleanup(a) PROVE OrderInv'
  <2>1. /\ pending' \in {pending, <<>>}
        /\ UNCHANGED <<received, batch, logCh, published>> /\ InHand' = InHand
    BY <1>10 DEF Cleanup, EnterCleanup, Unsubscribe, CloseLogs, InHand
  <2>2. QED
    BY <1>0, <2>1
<1>11. CASE Watch \/ Start \/ Leave \/ Tick \/ ReaderCancels \/ StopPresence \/ Disconnect
            \/ UNCHANGED vars
  <2>1. UNCHANGED <<received, batch, logCh, pending, published>> /\ InHand' = InHand
    BY <1>11 DEF Watch, Start, Subscribe, SubscribeFails, Leave, SeeDone, SeeClosed,
       WriteFails, CancelContext, CloseWebSocket, Tick, ReaderCancels, StopPresence,
       Disconnect, vars, InHand
  <2>2. QED
    BY <2>1
<1>12. QED
  BY <1>2, <1>3, <1>4, <1>5, <1>6, <1>7, <1>8, <1>9, <1>10, <1>11
     DEF Next, Callback, Forward

-----------------------------------------------------------------------------
(* The end of a connection.  Which goroutine can take a step of its own,   *)
(* other than forwarding logs?                                             *)
CleanerCan(a) == at[a] \in {"unsub", "close"} \/ (at[a] = "cleanup" /\ once # "held")
WatcherCan    == at["watcher"] = "wait" /\ cancelled
HandlerCan ==
  \/ at["handler"] \in {"start", "cancel", "ws"}
  \/ at["handler"] = "select" /\ (cancelled \/ (closed /\ logCh = <<>>))
  \/ at["handler"] = "write" /\ conn = "gone"

SomebodyLeaves ==
  conn # "open" /\ cb # "panicked" =>
    \/ Released
    \/ reader \/ (presence /\ cancelled)
    \/ WatcherCan \/ HandlerCan \/ \E a \in Actors : CleanerCan(a)

(* Who waits can rely on another: only the reader's end hides the client's *)
(* departure, and it cancels; the once is held by somebody in the cleanup; *)
(* there is a watcher as long as the subscription is valid, and afterwards *)
(* somebody is about to close the channel, or it is closed.                *)
LeaveInv ==
  cb # "panicked" =>
    /\ ~reader => cancelled
    /\ once = "held" => \E a \in Actors : InCleanup(a)
    /\ once = "done" => closed
    /\ at["watcher"] = "none" => ~valid /\ ~presence
    /\ at["watcher"] = "done" => ~valid
    /\ at["watcher"] # "none" /\ ~valid => closed \/ \E a \in Actors : at[a] = "close"
    /\ conn = "closed" => at["handler"] = "done"
    /\ at["watcher"] \in {"none", "wait", "cleanup", "unsub", "close", "done"}
    /\ at["handler"] \in Positions \ {"none", "wait"}

LEMMA LeaveInit == Init => LeaveInv
  BY DEF Init, LeaveInv, InCleanup, Actors, Positions

LEMMA LeaveStep == TypeOK /\ CleanupInv /\ LeaveInv /\ [Next]_vars => LeaveInv'
<1> SUFFICES ASSUME TypeOK, CleanupInv, LeaveInv, [Next]_vars PROVE LeaveInv'
  OBVIOUS
<1>0. at \in [Actors -> Positions] /\ Actors = {"handler", "watcher"}
  BY DEF TypeOK, Actors
<1> USE DEF LeaveInv, CleanupInv, InCleanup, Positions, subVars, cbVars, chanVars, sideVars, wsVars
<1>1. ASSUME NEW a \in Actors, EnterCleanup(a) PROVE LeaveInv'
  <2>1. CASE once = "free"
    <3>1. once' = "held" /\ at' = [at EXCEPT ![a] = "unsub"]
      BY <1>1, <2>1 DEF EnterCleanup, Move
    <3>2. UNCHANGED <<valid, cb, closed, cancelled, reader, presence, conn>>
      BY <1>1 DEF EnterCleanup
    <3>3. at[a] = "cleanup"
      BY <1>1 DEF EnterCleanup
    <3>4. QED
      BY <1>0, <2>1, <3>1, <3>2, <3>3
  <2>2. CASE once # "free"
    <3>1. once' = once /\ at' = [at EXCEPT ![a] = After(a)] /\ once # "held"
      BY <1>1, <2>2 DEF EnterCleanup, Move
    <3>2. UNCHANGED <<valid, cb, closed, cancelled, reader, presence, conn>>
      BY <1>1 DEF EnterCleanup
    <3>3. at[a] = "cleanup" /\ once = "done" /\ ~valid
      BY <1>1, <2>2, <3>1 DEF EnterCleanup, TypeOK
    <3>4. After("handler") = "cancel" /\ After("watcher") = "done"
      BY DEF After
    <3>5. QED
      BY <1>0, <2>2, <3>1, <3>2, <3>3, <3>4
  <2>3. QED
    BY <2>1, <2>2
<1>2. ASSUME NEW a \in Actors, Unsubscribe(a) PROVE LeaveInv'
  BY <1>0, <1>2 DEF Unsubscribe, Move
<1>3. ASSUME NEW a \in Actors, CloseLogs(a) PROVE LeaveInv'
  BY <1>0, <1>3 DEF CloseLogs, Move, After
<1>4. CASE Watch
  BY <1>0, <1>4 DEF Watch, Move
<1>5. CASE Start
  BY <1>0, <1>5 DEF Start, Subscribe, SubscribeFails, Move
<1>6. CASE Leave
  BY <1>0, <1>6
     DEF Leave, SeeDone, SeeClosed, WriteFails, CancelContext, CloseWebSocket, Move
<1>7. CASE Forward
  BY <1>0, <1>7 DEF Forward, SeePayload, Tick, Write, Move
<1>8. CASE SendOnClosed
  BY <1>8 DEF SendOnClosed
<1>9. CASE Publish \/ Dispatch \/ Check \/ TrySend \/ DropOldest \/ Send
  BY <1>9 DEF Publish, Dispatch, Check, TrySend, DropOldest, Send
<1>10. CASE ReaderCancels \/ StopPresence \/ Disconnect
  BY <1>10 DEF ReaderCancels, StopPresence, Disconnect
<1>11. CASE UNCHANGED vars
  BY <1>11 DEF vars
<1>12. QED
  BY <1>1, <1>2, <1>3, <1>4, <1>5, <1>6, <1>7, <1>8, <1>9, <1>10, <1>11
     DEF Next, Callback, Cleanup

-----------------------------------------------------------------------------
(* Theorems                                                                *)

(* Every reachable state of a connection satisfies the inductive invariant. *)
THEOREM Invariance == Spec => []Inv
<1>1. Inv /\ [Next]_vars => Inv'
  BY TypeStep, RoomStep, CleanupStep DEF Inv
<1>2. QED
  BY InitInv, <1>1, PTL DEF Spec

(* Type correctness: the channel stays within its capacity and only logs   *)
(* are forwarded, whatever the order of the goroutines.                    *)
THEOREM TypeCorrect == Spec => []TypeOK
<1>1. Inv => TypeOK
  BY DEF Inv
<1>2. QED
  BY Invariance, <1>1, PTL

(* The callback of TailLiveLogs is never held up by a slow client.         *)
THEOREM RingNeverBlocks == Spec => []CallbackNeverBlocks
<1>1. Inv => CallbackNeverBlocks
  BY DEF Inv
<1>2. QED
  BY Invariance, <1>1, PTL

(* The channel is never closed twice, nor before Unsubscribe.              *)
THEOREM CloseSafety == Spec => []ClosedOnce
<1>1. Inv => ClosedOnce
  BY DEF Inv, CleanupInv, InCleanup, ClosedOnce
<1>2. QED
  BY Invariance, <1>1, PTL

(* However many logs the ring drops, and whichever goroutine is ahead, the *)
(* client gets the logs in the order of their publish and none twice.      *)
THEOREM OrderKept == Spec => []InOrder
<1>1. Init => OrderInv
  BY OrderInit
<1>2. TypeOK /\ OrderInv /\ [Next]_vars => OrderInv'
  BY OrderStep
<1>3. Spec => []OrderInv
  BY <1>1, <1>2, TypeCorrect, PTL DEF Spec
<1>4. TypeOK /\ OrderInv => InOrder
  <2>1. ASSUME TypeOK PROVE InHand \in Seq(Logs) /\ published \in Nat
    BY <2>1, EmptyLogs, LogsAssumption DEF TypeOK, InHand
  <2>2. QED
    BY <2>1, StagesInOrder DEF TypeOK, OrderInv, InOrder
<1>5. QED
  BY <1>3, <1>4, TypeCorrect, PTL

(* A connection whose client is gone is never stuck: unless everything has *)
(* been released, some goroutine can go on, whatever the others wait for.  *)
THEOREM NeverStuck == Spec => []SomebodyLeaves
<1>1. Init => LeaveInv
  BY LeaveInit
<1>2. TypeOK /\ CleanupInv /\ LeaveInv /\ [Next]_vars => LeaveInv'
  BY LeaveStep
<1>3. Inv => TypeOK /\ CleanupInv
  BY DEF Inv
<1>4. TypeOK /\ CleanupInv /\ LeaveInv => SomebodyLeaves
  <2> SUFFICES ASSUME TypeOK, CleanupInv, LeaveInv, conn # "open", cb # "panicked",
                      ~reader, ~(presence /\ cancelled), ~WatcherCan, ~HandlerCan,
                      \A a \in Actors : ~CleanerCan(a)
               PROVE  Released
    BY DEF SomebodyLeaves
  <2>1. cancelled /\ ~presence /\ at["watcher"] # "wait"
    BY DEF LeaveInv, WatcherCan, TypeOK
  <2>2. \A a \in Actors : ~InCleanup(a) /\ at[a] # "close"
    BY DEF CleanerCan, InCleanup
  <2>3. once # "held"
    BY <2>2 DEF LeaveInv
  <2>4. \A a \in Actors : at[a] # "cleanup"
    BY <2>3 DEF CleanerCan
  <2>5. at["handler"] = "done"
    BY <2>1, <2>2, <2>4 DEF LeaveInv, HandlerCan, InCleanup, Actors, Positions, TypeOK
  <2>6. at["watcher"] \in {"none", "done"}
    BY <2>1, <2>2, <2>4 DEF LeaveInv, InCleanup, Actors
  <2>7. ~valid /\ (at["watcher"] = "done" => closed)
    BY <2>2, <2>6 DEF LeaveInv
  <2>8. QED
    BY <2>1, <2>5, <2>6, <2>7 DEF Released
<1>5. QED
  BY <1>1, <1>2, <1>3, <1>4, Invariance, PTL DEF Spec
=============================================================================

---------------------------- MODULE LogStoreProofs ----------------------------
(***************************************************************************)
(* Proofs about the tables, the search, the pages a browser turns and the  *)
(* queries of the charts, for any rows, searches, number of starts, page   *)
(* size and spans.                                                         *)
(***************************************************************************)
EXTENDS LogStore, TLAPS, SequenceTheorems, FiniteSetTheorems, WellFoundedInduction,
        NaturalsInduction

(* Types, with what a page may hold.                                       *)
Types == TypeOK /\ query \in LogQueryFilter /\ ToSet(page) \subseteq ever

(* Only rows that are too old were removed, and the registry knows the     *)
(* service of every row, once the views are written.                       *)
RowsInv ==
  /\ \A r \in ever \ logs : Old(r)
  /\ {Service[r] : r \in ever \ behind} \subseteq registry

(* The k-th start inserts, or is over, when its record is in; a late one   *)
(* is over.  One that did or may seed after an earlier one found a table   *)
(* that rows were removed from, unless that earlier insert is a late one.  *)
Seeding(k) == Seeds[k] \in ever \/ k \in late \/ (boot = "insert" /\ k = starts)
SeedsInv ==
  /\ boot # "down" => starts >= 1
  /\ \A k \in DOMAIN Seeds : Seeds[k] \in ever \/ k \in late =>
       k <= starts /\ (boot = "count" => k < starts)
  /\ \A k, l \in DOMAIN Seeds :
       k < l /\ Seeds[k] \in ever /\ Seeding(l) => ever # logs \/ k \in late

Fits(p, q) ==
  /\ \A i \in DOMAIN p : Matches(p[i], q)
  /\ \A i, j \in DOMAIN p : p[i] = p[j] => i = j
  /\ Sorted(p, q)
  /\ Len(p) <= LimitOf(q)

(* Between the two queries: what the count will find, or is due to expire. *)
PageInv ==
  /\ at = "count" =>
       /\ Fits(page, query)
       /\ page # <<>> =>
            OffsetOf(query) + Len(page) <= Cardinality({r \in ever : Matches(r, query)})
  /\ PageConsistent

(* What a browser must still be shown, and what comes before a row.        *)
Waiting  == {r \in initial \ seen :
               ~Old(r) /\ TiedWith(r) = {} /\ (NewestFirst \/ ever = logs)}
Ahead(r) == {s \in logs : Matches(s, query) /\ Before(s, r, query)}

(* A row that is still to be shown has the rows of the pages so far ahead  *)
(* of it; once searched, it is on the page, or the rows of this page, too, *)
(* are ahead of it and the total asks for another.                         *)
BrowseInv ==
  /\ tab = "open" => \A r \in initial : Matches(r, [query EXCEPT !.to = now])
  /\ tab = "open" /\ at # "idle" =>
       query.limit = Limit /\ query.offset = offset /\ \A r \in initial : Matches(r, query)
  /\ tab = "open" /\ (at # "idle" \/ offset > 0) => query.to \in 1..now
  /\ tab = "open" => \A r \in Waiting : Cardinality(Ahead(r)) >= offset
  /\ tab = "open" /\ at \in {"count", "reply"} =>
       \A r \in Waiting :
         \/ r \in ToSet(page)
         \/ /\ Cardinality(Ahead(r)) >= offset + Limit
            /\ at = "reply" => total > offset + Limit
  /\ tab = "end" => Waiting = {}

Inv == Types /\ RowsInv /\ SeedsInv /\ PageInv /\ BrowseInv

-----------------------------------------------------------------------------
(* Sets of rows, and the order                                             *)

LEMMA FiniteRows ==
  ASSUME NEW S \in SUBSET Rows
  PROVE  /\ IsFiniteSet(S) /\ Cardinality(S) \in Nat
         /\ S # {} => Cardinality(S) >= 1
<1>1. IsFiniteSet(S)
  BY RowAssumption, FS_Subset
<1>2. Cardinality(S) \in Nat /\ (Cardinality(S) = 0 <=> S = {})
  BY <1>1, FS_CardinalityType, FS_EmptySet
<1>3. QED
  BY <1>1, <1>2

LEMMA FewerRows ==
  ASSUME NEW T \in SUBSET Rows, NEW S \in SUBSET T
  PROVE  Cardinality(S) <= Cardinality(T)
  BY FiniteRows, FS_Subset

LEMMA RowTypes ==
  ASSUME NEW r \in Rows
  PROVE  /\ Time[r] \in Nat /\ Time[r] <= End /\ Time[r] \in Seconds
         /\ Service[r] \in Nat /\ Service[r] \in Services
  BY RowAssumption, SpanAssumption DEF Seconds, Services

LEMMA SpanTypes ==
  /\ MaxAge \in Nat /\ Limit \in Nat /\ Limit >= 1
  /\ Begin \in Nat /\ Begin >= 1 /\ End \in Nat
  BY SpanAssumption

(* Before is irreflexive and asymmetric, and looks at the order only.      *)
LEMMA BeforeIsStrict ==
  ASSUME NEW q, NEW r \in Rows, NEW s \in Rows
  PROVE  Before(r, s, q) => ~Before(s, r, q)
  BY RowTypes DEF Before

LEMMA QueryFields ==
  ASSUME NEW q \in LogQueryFilter
  PROVE  /\ LimitOf(q) \in Nat /\ LimitOf(q) >= 1 /\ OffsetOf(q) \in Nat
         /\ q.limit \in Nat /\ q.offset \in Int /\ q.to \in Nat /\ q.from \in Nat
         /\ \A n \in Nat : [q EXCEPT !.to = n] \in LogQueryFilter
  BY DEF LogQueryFilter, LimitOf, OffsetOf

-----------------------------------------------------------------------------
(* SearchLogs                                                              *)

LEMMA PageOfSorted ==
  ASSUME NEW q \in LogQueryFilter, logs \in SUBSET Rows, NEW p \in SearchLogs(q)
  PROVE  \E t \in SetToSeqs(Matching(q)) :
           /\ Sorted(t, q)
           /\ t \in Seq(Matching(q)) /\ Len(t) = Cardinality(Matching(q))
           /\ p \in Seq(Matching(q))
           /\ Len(p) <= LimitOf(q)
           /\ p # <<>> => OffsetOf(q) + Len(p) <= Len(t)
           /\ \A i \in 1..Len(p) :
                OffsetOf(q) + i \in 1..Len(t) /\ p[i] = t[OffsetOf(q) + i]
           /\ \A j \in 1..Len(t) :
                j > OffsetOf(q) /\ j <= OffsetOf(q) + LimitOf(q) => j - OffsetOf(q) \in 1..Len(p)
<1> DEFINE S == Matching(q)
           o == OffsetOf(q)
           l == LimitOf(q)
<1>1. Cardinality(S) \in Nat
  BY FiniteRows DEF Matching
<1>2. PICK t \in SetToSeqs(S) :
        Sorted(t, q) /\ p = SubSeq(t, o + 1, IF o + l < Len(t) THEN o + l ELSE Len(t))
  BY DEF SearchLogs
<1>3. t \in [1..Cardinality(S) -> S]
  BY <1>2 DEF SetToSeqs
<1>4. t \in Seq(S) /\ Len(t) = Cardinality(S)
  BY <1>1, <1>3
<1>5. o \in Nat /\ l \in Nat /\ l >= 1
  BY QueryFields
<1> DEFINE n == IF o + l < Len(t) THEN o + l ELSE Len(t)
<1>6. n \in Nat /\ n <= Len(t) /\ n <= o + l /\ (n = Len(t) \/ n = o + l)
  BY <1>1, <1>4, <1>5
<1> HIDE DEF n, o, l, S
<1>7. \A i \in (o + 1)..n : t[i] \in S
  BY <1>1, <1>3, <1>4, <1>5, <1>6
<1>8. /\ SubSeq(t, o + 1, n) \in Seq(S)
      /\ Len(SubSeq(t, o + 1, n)) = IF o + 1 <= n THEN n - (o + 1) + 1 ELSE 0
      /\ \A i \in 1..(n - (o + 1) + 1) : SubSeq(t, o + 1, n)[i] = t[o + 1 + i - 1]
  <2> DEFINE m == o + 1
  <2>1. m \in Int /\ n \in Int
    BY <1>5, <1>6
  <2>2. \A i \in m..n : t[i] \in S
    BY <1>7
  <2> HIDE DEF m
  <2>3. /\ SubSeq(t, m, n) \in Seq(S)
        /\ Len(SubSeq(t, m, n)) = IF m <= n THEN n - m + 1 ELSE 0
        /\ \A i \in 1..(n - m + 1) : SubSeq(t, m, n)[i] = t[m + i - 1]
    BY <2>1, <2>2, SubSeqProperties
  <2>4. QED
    BY <2>3 DEF m
<1>9. p = SubSeq(t, o + 1, n)
  BY <1>2 DEF n, o, l
<1>10. /\ p \in Seq(S)
       /\ Len(p) = IF o + 1 <= n THEN n - o ELSE 0
       /\ \A i \in 1..(n - o) : p[i] = t[o + i]
  BY <1>5, <1>6, <1>8, <1>9
<1>11. Len(p) <= l /\ (p # <<>> => o + Len(p) <= Len(t))
  <2>1. p # <<>> => Len(p) # 0
    BY <1>10, EmptySeq
  <2>2. QED
    BY <1>5, <1>6, <1>10, <2>1
<1>12. \A i \in 1..Len(p) : o + i \in 1..Len(t) /\ p[i] = t[o + i]
  BY <1>1, <1>4, <1>5, <1>6, <1>10
<1>13. \A j \in 1..Len(t) : j > o /\ j <= o + l => j - o \in 1..Len(p)
  BY <1>1, <1>4, <1>5, <1>6, <1>10
<1>14. QED
  BY <1>2, <1>4, <1>10, <1>11, <1>12, <1>13 DEF o, l, S

(* The page fits the query, and its rows are among those that match.       *)
LEMMA SearchedPage ==
  ASSUME NEW q \in LogQueryFilter, logs \in SUBSET Rows, NEW p \in SearchLogs(q)
  PROVE  /\ Fits(p, q)
         /\ p \in Seq(Matching(q))
         /\ p # <<>> => OffsetOf(q) + Len(p) <= Cardinality(Matching(q))
<1>1. PICK t \in SetToSeqs(Matching(q)) :
           /\ Sorted(t, q)
           /\ t \in Seq(Matching(q)) /\ Len(t) = Cardinality(Matching(q))
           /\ p \in Seq(Matching(q))
           /\ Len(p) <= LimitOf(q)
           /\ p # <<>> => OffsetOf(q) + Len(p) <= Len(t)
           /\ \A i \in 1..Len(p) :
                OffsetOf(q) + i \in 1..Len(t) /\ p[i] = t[OffsetOf(q) + i]
  BY PageOfSorted
<1>2. DOMAIN p = 1..Len(p) /\ DOMAIN t = 1..Len(t) /\ Len(p) \in Nat /\ OffsetOf(q) \in Nat
  BY <1>1, QueryFields, LenProperties
<1>3. \A i \in DOMAIN p : p[i] \in Matching(q)
  BY <1>1, ElementOfSeq, <1>2
<1>4. \A i \in DOMAIN p : Matches(p[i], q)
  BY <1>3 DEF Matching
<1>5. \A i, j \in DOMAIN t : t[i] = t[j] => i = j
  BY <1>1, <1>2 DEF SetToSeqs
<1>6. \A i, j \in DOMAIN p : p[i] = p[j] => i = j
  BY <1>1, <1>2, <1>5
<1>7. Sorted(p, q)
  <2> SUFFICES ASSUME NEW i \in DOMAIN p, NEW j \in DOMAIN p, Before(p[i], p[j], q)
               PROVE  i < j
    BY DEF Sorted
  <2>1. /\ OffsetOf(q) + i \in DOMAIN t /\ OffsetOf(q) + j \in DOMAIN t
        /\ p[i] = t[OffsetOf(q) + i] /\ p[j] = t[OffsetOf(q) + j]
    BY <1>1, <1>2
  <2>2. OffsetOf(q) + i < OffsetOf(q) + j
    BY <1>1, <2>1 DEF Sorted
  <2>3. QED
    BY <1>2, <2>2
<1>8. QED
  BY <1>1, <1>4, <1>6, <1>7 DEF Fits

(* A matching row without ties is on the page when the number of rows      *)
(* before it is among the offsets of the page.                             *)
LEMMA PositionInOrder ==
  ASSUME NEW q \in LogQueryFilter, logs \in SUBSET Rows, NEW p \in SearchLogs(q),
         NEW r \in Matching(q),
         \A s \in Matching(q) \ {r} : Before(r, s, q) \/ Before(s, r, q),
         Cardinality({s \in logs : Matches(s, q) /\ Before(s, r, q)}) >= OffsetOf(q)
  PROVE  \/ r \in ToSet(p)
         \/ Cardinality({s \in logs : Matches(s, q) /\ Before(s, r, q)})
              >= OffsetOf(q) + LimitOf(q)
<1> DEFINE S == Matching(q)
           B == {s \in logs : Matches(s, q) /\ Before(s, r, q)}
<1>1. PICK t \in SetToSeqs(S) :
           /\ Sorted(t, q)
           /\ t \in Seq(S) /\ Len(t) = Cardinality(S)
           /\ p \in Seq(S)
           /\ \A i \in 1..Len(p) :
                OffsetOf(q) + i \in 1..Len(t) /\ p[i] = t[OffsetOf(q) + i]
           /\ \A j \in 1..Len(t) :
                j > OffsetOf(q) /\ j <= OffsetOf(q) + LimitOf(q) => j - OffsetOf(q) \in 1..Len(p)
  BY PageOfSorted
<1>2. DOMAIN t = 1..Len(t) /\ Len(t) \in Nat
  BY <1>1, LenProperties
<1>3. S \subseteq Rows /\ B = {s \in S : Before(s, r, q)}
  BY DEF Matching
<1>4. t \in [1..Cardinality(S) -> S] /\ \A i, j \in DOMAIN t : t[i] = t[j] => i = j
  BY <1>1, <1>2 DEF SetToSeqs
<1>5. IsFiniteSet(S) /\ Cardinality(S) \in Nat
  BY <1>3, FiniteRows
<1>6. \A s \in S : \E j \in DOMAIN t : t[j] = s
  <2> HIDE DEF S
  <2>1. t \in Injection(1..Cardinality(S), S)
    BY <1>4 DEF Injection, IsInjective
  <2>2. Cardinality(1..Cardinality(S)) = Cardinality(S)
    BY <1>5, FS_Interval
  <2>3. t \in Surjection(1..Cardinality(S), S)
    BY <1>5, <2>1, <2>2, FS_Injection
  <2>4. QED
    BY <2>3, <1>4 DEF Surjection
<1>7. PICK j \in 1..Len(t) : t[j] = r
  BY <1>2, <1>6
<1>8. \A i \in 1..Len(t) : t[i] \in S /\ (t[i] \in B <=> i < j)
  <2> TAKE i \in 1..Len(t)
  <2>1. t[i] \in S /\ t[i] \in Rows /\ r \in Rows
    BY <1>1, <1>3, ElementOfSeq
  <2>2. t[i] \in B <=> Before(t[i], r, q)
    BY <1>3, <2>1
  <2>3. Before(t[i], r, q) => i < j
    BY <1>1, <1>2, <1>7 DEF Sorted
  <2>4. i < j => t[i] # r /\ ~Before(r, t[i], q)
    BY <1>1, <1>2, <1>4, <1>7 DEF Sorted
  <2>5. i < j => Before(t[i], r, q)
    BY <2>1, <2>4
  <2>6. QED
    BY <2>1, <2>2, <2>3, <2>5
<1>9. Cardinality(B) = j - 1
  <2> DEFINE f == [i \in 1..(j - 1) |-> t[i]]
  <2>1. \A i \in 1..(j - 1) : i \in 1..Len(t) /\ i < j
    BY <1>2
  <2>2. f \in [1..(j - 1) -> B]
    BY <1>8, <2>1
  <2>3. \A a, b \in 1..(j - 1) : f[a] = f[b] => a = b
    BY <1>2, <1>4, <2>1
  <2>4. \A s \in B : \E i \in 1..(j - 1) : f[i] = s
    <3> TAKE s \in B
    <3>1. PICK i \in 1..Len(t) : t[i] = s
      BY <1>2, <1>3, <1>6
    <3>2. i < j
      BY <1>8, <3>1
    <3>3. QED
      BY <3>1, <3>2
  <2> HIDE DEF f, B
  <2>5. f \in Bijection(1..(j - 1), B)
    BY <2>2, <2>3, <2>4 DEF Bijection, Injection, Surjection, IsInjective
  <2>6. QED
    BY <2>5, FS_CountingElements DEF ExistsBijection
<1>10. OffsetOf(q) \in Nat /\ LimitOf(q) \in Nat
  BY QueryFields
<1>11. CASE j <= OffsetOf(q) + LimitOf(q)
  <2>1. j - OffsetOf(q) \in 1..Len(p)
    BY <1>1, <1>9, <1>10, <1>11
  <2>2. p[j - OffsetOf(q)] = r /\ DOMAIN p = 1..Len(p)
    <3>1. OffsetOf(q) + (j - OffsetOf(q)) = j
      BY <1>10
    <3>2. QED
      BY <1>1, <1>7, <2>1, <3>1, LenProperties
  <2>3. QED
    BY <2>1, <2>2 DEF ToSet
<1>12. CASE j > OffsetOf(q) + LimitOf(q)
  BY <1>9, <1>10, <1>12
<1>13. QED
  BY <1>10, <1>11, <1>12

-----------------------------------------------------------------------------
LEMMA InitInv == Init => Inv
<1> SUFFICES ASSUME Init PROVE Inv
  OBVIOUS
<1>1. query \in LogQueryFilter /\ <<>> \in Seq(Rows) /\ ToSet(page) = {}
  BY SearchAssumption, EmptySeq DEF Init, ToSet
<1>2. now \in Begin..End /\ MaxStarts \in Nat
  BY SpanAssumption, RowAssumption, LenProperties DEF Init, MaxStarts
<1>3. Types
  BY <1>1, <1>2 DEF Init, Types, TypeOK
<1>4. RowsInv
  BY DEF Init, RowsInv
<1>5. SeedsInv
  BY DEF Init, SeedsInv, Seeding
<1>6. PageInv /\ BrowseInv
  BY DEF Init, PageInv, PageConsistent, BrowseInv
<1>7. QED
  BY <1>3, <1>4, <1>5, <1>6 DEF Inv

-----------------------------------------------------------------------------
(* The database changes under the handler and the browser                  *)

LEMMA InsertedRow ==
  ASSUME Types, RowsInv, NEW r \in Rows, Inserted(r), now' = now
  PROVE  /\ (logs \subseteq ever /\ behind \subseteq ever /\ ever \subseteq Rows)'
         /\ UNCHANGED <<metrics, registry>>
         /\ RowsInv'
<1>1. (logs \subseteq ever /\ behind \subseteq ever /\ ever \subseteq Rows)'
  BY DEF Inserted, Types, TypeOK
<1>2. UNCHANGED <<metrics, registry>>
  BY DEF Inserted
<1>3. RowsInv'
  BY DEF Inserted, RowsInv, Old
<1>4. QED
  BY <1>1, <1>2, <1>3

(* A row comes in or is removed, or time passes.                           *)
OtherStep ==
  /\ UNCHANGED <<handler, browser>>
  /\ now' >= now
  /\ \/ UNCHANGED <<logs, ever>>
     \/ \E r \in Rows \ ever : logs' = logs \cup {r} /\ ever' = ever \cup {r}
     \/ \E r \in logs : Old(r)' /\ logs' = logs \ {r} /\ ever' = ever

(* What is awaited then was awaited before, and no row ahead of it is gone *)
(* in between: where the newest come first, a row ahead is newer.          *)
LEMMA OtherWaiting ==
  ASSUME Inv, Types', OtherStep
  PROVE  /\ \A r \in Waiting' : r \in Waiting
         /\ \A r \in Waiting' : Cardinality(Ahead(r)') >= Cardinality(Ahead(r))
<1>1. /\ UNCHANGED <<at, query, page, total, tab, offset, seen, initial>>
      /\ now \in Nat /\ now' \in Nat /\ now' >= now
      /\ logs \subseteq ever /\ ever \subseteq Rows /\ ever \subseteq ever'
      /\ logs' \subseteq ever' /\ ever' \subseteq Rows
      /\ initial \subseteq ever
  BY SpanTypes DEF OtherStep, handler, browser, Inv, Types, TypeOK
<1>2. ever' = logs' => ever = logs
  BY <1>1 DEF OtherStep
<1>3. NewestFirst' <=> NewestFirst
  BY <1>1 DEF NewestFirst
<1>4. ASSUME NEW r \in Waiting' PROVE r \in Waiting
  <2>1. r \in initial \ seen /\ r \in Rows
    BY <1>1, <1>4 DEF Waiting
  <2>2. ~Old(r)
    BY <1>1, <1>4, <2>1, RowTypes, SpanTypes DEF Waiting, Old
  <2>3. TiedWith(r) = {}
    BY <1>1, <1>4 DEF Waiting, TiedWith, Before
  <2>4. NewestFirst \/ ever = logs
    BY <1>2, <1>3, <1>4 DEF Waiting
  <2>5. QED
    BY <2>1, <2>2, <2>3, <2>4 DEF Waiting
<1>5. ASSUME NEW r \in Waiting' PROVE Cardinality(Ahead(r)') >= Cardinality(Ahead(r))
  <2>1. r \in Rows /\ ~Old(r)' /\ (NewestFirst \/ ever' = logs')
    BY <1>1, <1>3, <1>4, <1>5 DEF Waiting
  <2>2. ASSUME NEW s \in Ahead(r) PROVE s \in logs'
    <3>1. s \in logs /\ s \in Rows /\ Before(s, r, query)
      BY <1>1, <2>2 DEF Ahead
    <3>2. CASE ever' = logs'
      BY <1>1, <3>1, <3>2
    <3>3. CASE NewestFirst
      <4>1. Time[r] < Time[s]
        BY <3>1, <3>3 DEF Before, NewestFirst
      <4>2. ~Old(s)'
        BY <1>1, <2>1, <3>1, <4>1, RowTypes, SpanTypes DEF Old
      <4>3. QED
        BY <3>1, <4>2 DEF OtherStep
    <3>4. QED
      BY <2>1, <3>2, <3>3
  <2>3. Ahead(r) \subseteq Ahead(r)' /\ Ahead(r)' \in SUBSET Rows
    BY <1>1, <2>2 DEF Ahead, Matches, Before
  <2>4. QED
    BY <2>3, FewerRows, FiniteRows
<1>6. QED
  BY <1>4, <1>5

LEMMA OtherBrowse ==
  ASSUME Inv, Types', OtherStep
  PROVE  BrowseInv'
<1>1. /\ UNCHANGED <<at, query, page, total, tab, offset, seen, initial>>
      /\ now \in Nat /\ now' \in Nat /\ now' >= now /\ now >= 1
      /\ query \in LogQueryFilter /\ initial \subseteq Rows
      /\ offset \in Nat /\ Limit \in Nat
  BY SpanTypes DEF OtherStep, handler, browser, Inv, Types, TypeOK
<1>2. /\ \A r \in Waiting' : r \in Waiting
      /\ \A r \in Waiting' : Cardinality(Ahead(r)') >= Cardinality(Ahead(r))
  BY OtherWaiting
<1>3. \A r \in Waiting' : Cardinality(Ahead(r)) \in Nat /\ Cardinality(Ahead(r)') \in Nat
  <2>1. logs \subseteq Rows /\ logs' \subseteq Rows
    BY DEF Inv, Types, TypeOK
  <2>2. QED
    BY <2>1, FiniteRows DEF Ahead
<1>4. (tab = "open" => \A r \in initial : Matches(r, [query EXCEPT !.to = now]))'
  <2> SUFFICES ASSUME tab = "open", NEW r \in initial
               PROVE  Matches(r, [query EXCEPT !.to = now'])
    BY <1>1 DEF Matches
  <2>1. Matches(r, [query EXCEPT !.to = now]) /\ r \in Rows
    BY <1>1 DEF Inv, BrowseInv
  <2>2. QED
    BY <1>1, <2>1, RowTypes DEF Matches, LogQueryFilter
<1>5. (tab = "open" /\ at # "idle" =>
         query.limit = Limit /\ query.offset = offset /\ \A r \in initial : Matches(r, query))'
  BY <1>1 DEF Inv, BrowseInv, Matches
<1>6. (tab = "open" /\ (at # "idle" \/ offset > 0) => query.to \in 1..now)'
  BY <1>1 DEF Inv, BrowseInv
<1>7. (tab = "open" => \A r \in Waiting : Cardinality(Ahead(r)) >= offset)'
  BY <1>1, <1>2, <1>3 DEF Inv, BrowseInv
<1>8. (tab = "open" /\ at \in {"count", "reply"} =>
         \A r \in Waiting :
           \/ r \in ToSet(page)
           \/ /\ Cardinality(Ahead(r)) >= offset + Limit
              /\ at = "reply" => total > offset + Limit)'
  <2> SUFFICES ASSUME tab = "open", at \in {"count", "reply"}, NEW r \in Waiting'
               PROVE  \/ r \in ToSet(page)
                      \/ /\ Cardinality(Ahead(r)') >= offset + Limit
                         /\ at = "reply" => total > offset + Limit
    BY <1>1 DEF ToSet
  <2>1. \/ r \in ToSet(page)
        \/ /\ Cardinality(Ahead(r)) >= offset + Limit
           /\ at = "reply" => total > offset + Limit
    BY <1>2 DEF Inv, BrowseInv
  <2>2. QED
    BY <1>1, <1>2, <1>3, <2>1
<1>9. (tab = "end" => Waiting = {})'
  BY <1>1, <1>2 DEF Inv, BrowseInv
<1>10. QED
  BY <1>4, <1>5, <1>6, <1>7, <1>8, <1>9 DEF BrowseInv

LEMMA OtherPage ==
  ASSUME Inv, Types', OtherStep
  PROVE  PageInv'
<1>1. /\ UNCHANGED <<at, query, page, total>>
      /\ now \in Nat /\ now' \in Nat /\ now' >= now
      /\ ever \subseteq ever' /\ ever' \subseteq Rows
      /\ query \in LogQueryFilter /\ total \in Nat /\ page \in Seq(Rows)
  BY SpanTypes DEF OtherStep, handler, browser, Inv, Types, TypeOK
<1>2. OffsetOf(query) \in Nat /\ Len(page) \in Nat
  BY <1>1, QueryFields, LenProperties
<1>3. (at = "count" => Fits(page, query))'
  BY <1>1 DEF Inv, PageInv, Fits, Matches, Sorted, Before, LimitOf
<1>4. (at = "count" /\ page # <<>> =>
         OffsetOf(query) + Len(page) <= Cardinality({r \in ever : Matches(r, query)}))'
  <2> DEFINE S == {r \in ever : Matches(r, query)}
             T == {r \in ever' : Matches(r, query)}
  <2>1. /\ S \in SUBSET T /\ T \in SUBSET Rows
    BY <1>1
  <2> HIDE DEF S, T
  <2>2. Cardinality(S) <= Cardinality(T) /\ Cardinality(S) \in Nat /\ Cardinality(T) \in Nat
    BY <2>1, FewerRows, FiniteRows
  <2>3. at = "count" /\ page # <<>> => OffsetOf(query) + Len(page) <= Cardinality(T)
    BY <1>2, <2>2 DEF Inv, PageInv, S
  <2>4. QED
    BY <1>1, <2>3 DEF T, Matches, OffsetOf
<1>5. PageConsistent'
  <2> DEFINE S == {r \in ever : Old(r) /\ Matches(r, query)}
             T == {r \in ever' : Old(r)' /\ Matches(r, query)}
  <2>1. \A r \in Rows : Old(r) => Old(r)'
    BY <1>1, RowTypes, SpanTypes DEF Old
  <2>2. S \in SUBSET T /\ T \in SUBSET Rows
    BY <1>1, <2>1
  <2> HIDE DEF S, T
  <2>3. Cardinality(S) <= Cardinality(T) /\ Cardinality(S) \in Nat /\ Cardinality(T) \in Nat
    BY <2>2, FewerRows, FiniteRows
  <2>4. at = "reply" /\ page # <<>> => OffsetOf(query) + Len(page) <= total + Cardinality(T)
    BY <1>1, <1>2, <2>3 DEF Inv, PageInv, PageConsistent, S
  <2>5. at' = "reply" => (Fits(page, query))'
    BY <1>1 DEF Inv, PageInv, PageConsistent, Fits, Matches, Sorted, Before, LimitOf
  <2>6. at' = "reply" /\ page' # <<>> =>
          (OffsetOf(query) + Len(page)
             <= total + Cardinality({r \in ever : Old(r) /\ Matches(r, query)}))'
    BY <1>1, <2>4 DEF T, Matches, OffsetOf
  <2>7. QED
    BY <2>5, <2>6 DEF PageConsistent, Fits
<1>6. QED
  BY <1>3, <1>4, <1>5 DEF PageInv

-----------------------------------------------------------------------------
(* Rows come in, rows expire, time passes                                  *)

LEMMA SeedTypes ==
  /\ MaxStarts \in Nat /\ DOMAIN Seeds = 1..MaxStarts
  /\ \A k \in DOMAIN Seeds : Seeds[k] \in Rows
  BY RowAssumption, LenProperties, ElementOfSeq DEF MaxStarts

(* No seed comes in but the one that a start inserts and those that are    *)
(* late, and a removed row stays removed.                                  *)
LEMMA SameSeeds ==
  ASSUME Inv, starts' = starts, late \subseteq late',
         boot' = boot \/ (boot' \in {"down", "up"} /\ boot # "down"),
         ever # logs => ever' # logs',
         \A k \in DOMAIN Seeds : Seeds[k] \in ever' \/ k \in late' => Seeding(k)
  PROVE  SeedsInv'
<1>1. starts \in Nat /\ \A k \in DOMAIN Seeds : k \in Nat
  BY SeedTypes DEF Inv, Types, TypeOK
<1>2. \A k \in DOMAIN Seeds : Seeding(k)' => Seeding(k)
  BY DEF Seeding
<1>3. \A k \in DOMAIN Seeds : Seeding(k) => k <= starts /\ (boot = "count" => k < starts)
  BY <1>1 DEF Seeding, Inv, SeedsInv
<1>4. boot' # "down" => starts' >= 1
  BY DEF Inv, SeedsInv
<1>5. ASSUME NEW k \in DOMAIN Seeds, Seeds[k] \in ever' \/ k \in late'
      PROVE  k <= starts' /\ (boot' = "count" => k < starts')
  BY <1>3, <1>5
<1>6. ASSUME NEW k \in DOMAIN Seeds, NEW l \in DOMAIN Seeds,
             k < l, Seeds[k] \in ever', Seeding(l)'
      PROVE  ever' # logs' \/ k \in late'
  <2>1. Seeding(l) /\ l <= starts
    BY <1>2, <1>3, <1>6
  <2>2. Seeds[k] \in ever \/ k \in late
    BY <1>1, <1>6, <2>1 DEF Seeding
  <2>3. QED
    BY <1>6, <2>1, <2>2 DEF Inv, SeedsInv
<1>7. QED
  BY <1>4, <1>5, <1>6 DEF SeedsInv

LEMMA StillMissing ==
  ASSUME NEW L, NEW E, NEW r, L \subseteq E, r \notin E, E # L
  PROVE  E \cup {r} # L \cup {r}
<1>1. PICK x \in E : x \notin L
  OBVIOUS
<1>2. x \in E \cup {r} /\ x \notin L \cup {r}
  BY <1>1
<1>3. QED
  BY <1>2

(* A row comes in: of the worker, of a start, or late.                     *)
LEMMA RowStep ==
  ASSUME Inv, NEW r \in Rows, r \notin ever, Inserted(r),
         UNCHANGED <<now, process, handler, browser>>,
         \A k \in DOMAIN Seeds : Seeds[k] = r => Seeding(k)
  PROVE  Inv'
<1>1. logs' = logs \cup {r} /\ ever' = ever \cup {r}
  BY DEF Inserted
<1>2. UNCHANGED <<boot, starts, late, at, query, page, total, tab, offset, seen, initial>>
  BY DEF process, handler, browser
<1>3. /\ (logs \subseteq ever /\ behind \subseteq ever /\ ever \subseteq Rows)'
      /\ UNCHANGED <<metrics, registry>>
      /\ RowsInv'
  BY InsertedRow DEF Inv
<1>4. Types'
  BY <1>1, <1>2, <1>3 DEF Inv, Types, TypeOK, ToSet
<1>5. OtherStep
  BY <1>1, <1>4, SpanTypes DEF OtherStep, Types, TypeOK
<1>6. PageInv' /\ BrowseInv'
  BY <1>4, <1>5, OtherPage, OtherBrowse
<1>7. SeedsInv'
  <2>1. ever # logs => ever' # logs'
    BY <1>1, StillMissing DEF Inv, Types, TypeOK
  <2>2. \A k \in DOMAIN Seeds : Seeds[k] \in ever' \/ k \in late' => Seeding(k)
    BY <1>1, <1>2 DEF Seeding
  <2>3. QED
    BY <1>2, <2>1, <2>2, SameSeeds
<1>8. QED
  BY <1>3, <1>4, <1>6, <1>7 DEF Inv

LEMMA InsertStep == ASSUME Inv, NEW r \in Rows, Insert(r) PROVE Inv'
<1>1. /\ r \notin ever /\ \A k \in DOMAIN Seeds : Seeds[k] # r
      /\ Inserted(r) /\ UNCHANGED <<now, process, handler, browser>>
  BY DEF Insert
<1>2. QED
  BY <1>1, RowStep

LEMMA CommitStep == ASSUME Inv, NEW k \in DOMAIN Seeds, Commit(k) PROVE Inv'
<1>1. /\ Seeds[k] \notin ever /\ Inserted(Seeds[k])
      /\ UNCHANGED <<now, process, handler, browser>>
      /\ Seeding(k)
  BY DEF Commit, Seeding
<1>2. Seeds[k] \in Rows /\ \A l \in DOMAIN Seeds : Seeds[l] = Seeds[k] => l = k
  BY SeedTypes, RowAssumption
<1>3. QED
  BY <1>1, <1>2, RowStep

LEMMA ViewsStep == ASSUME Inv, NEW r \in Rows, WriteViews(r) PROVE Inv'
<1>1. /\ r \in behind /\ behind' = behind \ {r}
      /\ registry' = registry \cup {Service[r]}
      /\ UNCHANGED <<now, logs, ever, process, handler, browser>>
  BY DEF WriteViews
<1>2. UNCHANGED <<boot, starts, late, at, query, page, total, tab, offset, seen, initial>>
  BY <1>1 DEF process, handler, browser
<1>3. Service[r] \in Services /\ Time[r] \in Seconds
  BY RowTypes
<1>4. metrics' \in [Services \X Seconds -> [logs : Nat, errors : Nat]]
  BY <1>3 DEF WriteViews, Inv, Types, TypeOK
<1>5. Types'
  BY <1>1, <1>2, <1>3, <1>4 DEF Inv, Types, TypeOK, ToSet
<1>6. RowsInv'
  BY <1>1 DEF Inv, RowsInv, Old
<1>7. OtherStep
  BY <1>1, <1>5, SpanTypes DEF OtherStep, Types, TypeOK
<1>8. PageInv' /\ BrowseInv'
  BY <1>5, <1>7, OtherPage, OtherBrowse
<1>9. SeedsInv'
  BY <1>1, <1>2, SameSeeds DEF Seeding
<1>10. QED
  BY <1>5, <1>6, <1>8, <1>9 DEF Inv

LEMMA ExpireStep == ASSUME Inv, NEW r \in Rows, Expire(r) PROVE Inv'
<1>1. /\ r \in logs /\ Old(r) /\ logs' = logs \ {r} /\ ever' = ever
      /\ UNCHANGED <<now, behind, metrics, registry, process, handler, browser>>
  BY DEF Expire
<1>2. UNCHANGED <<boot, starts, late, at, query, page, total,
                  tab, offset, seen, initial>>
  BY <1>1 DEF process, handler, browser
<1>3. Types'
  BY <1>1, <1>2 DEF Inv, Types, TypeOK, ToSet
<1>4. RowsInv'
  BY <1>1 DEF Inv, RowsInv, Old
<1>5. OtherStep
  BY <1>1, <1>3 DEF OtherStep, Old, Types, TypeOK, Inv
<1>6. PageInv' /\ BrowseInv'
  BY <1>3, <1>5, OtherPage, OtherBrowse
<1>7. SeedsInv'
  <2>1. ever' # logs'
    BY <1>1 DEF Inv, Types, TypeOK
  <2>2. QED
    BY <1>1, <1>2, <2>1, SameSeeds DEF Seeding
<1>8. QED
  BY <1>3, <1>4, <1>6, <1>7 DEF Inv

LEMMA TickStep == ASSUME Inv, Tick PROVE Inv'
<1>1. /\ now < End /\ now' = now + 1 /\ UNCHANGED <<database, process, handler, browser>>
  BY DEF Tick
<1>2. UNCHANGED <<logs, ever, behind, metrics, registry, boot, starts, late, at, query, page, total,
                  tab, offset, seen, initial>>
  BY <1>1 DEF database, process, handler, browser
<1>3. now \in Begin..End /\ now' \in Begin..End /\ now' >= now /\ now \in Nat /\ now' \in Nat
  BY <1>1, SpanTypes DEF Inv, Types, TypeOK
<1>4. Types'
  BY <1>2, <1>3 DEF Inv, Types, TypeOK, ToSet
<1>5. RowsInv'
  <2>1. \A r \in Rows : Old(r) => Old(r)'
    BY <1>3, RowTypes, SpanTypes DEF Old
  <2>2. QED
    BY <1>2, <2>1 DEF Inv, RowsInv, Types, TypeOK
<1>6. OtherStep
  BY <1>1, <1>2, <1>3 DEF OtherStep
<1>7. PageInv' /\ BrowseInv'
  BY <1>4, <1>6, OtherPage, OtherBrowse
<1>8. SeedsInv'
  BY <1>2, SameSeeds DEF Seeding
<1>9. QED
  BY <1>4, <1>5, <1>7, <1>8 DEF Inv

-----------------------------------------------------------------------------
(* InitDB                                                                  *)

LEMMA StartStep == ASSUME Inv, Start \/ CountRows PROVE Inv'
<1>1. /\ UNCHANGED <<now, database, late, handler, browser>>
      /\ boot' \in {"count", "insert", "up"}
      /\ boot \in {"down", "count"}
      /\ \/ boot = "down" /\ boot' = "count" /\ starts' = starts + 1 /\ starts < MaxStarts
         \/ boot = "count" /\ boot' # "count" /\ starts' = starts /\ (boot' = "insert" => logs = {})
  BY DEF Start, CountRows
<1>2. UNCHANGED <<now, logs, ever, behind, metrics, registry, late, at, query, page, total,
                  tab, offset, seen, initial>>
  BY <1>1 DEF database, handler, browser
<1>3. starts \in Nat /\ starts' \in 0..MaxStarts /\ MaxStarts \in Nat
  BY <1>1, SeedTypes DEF Inv, Types, TypeOK
<1>4. Types'
  BY <1>1, <1>2, <1>3 DEF Inv, Types, TypeOK, ToSet
<1>5. RowsInv'
  BY <1>2 DEF Inv, RowsInv, Old
<1>6. OtherStep
  BY <1>1, <1>2, <1>4, SpanTypes DEF OtherStep, Types, TypeOK
<1>7. PageInv' /\ BrowseInv'
  BY <1>4, <1>6, OtherPage, OtherBrowse
<1>8. SeedsInv'
  <2>1. starts' >= 1
    BY <1>1, <1>3 DEF Inv, SeedsInv
  <2>2. \A k \in DOMAIN Seeds : Seeds[k] \in ever' \/ k \in late' =>
           k <= starts' /\ (boot' = "count" => k < starts')
    BY <1>1, <1>2, <1>3, SeedTypes DEF Inv, SeedsInv
  <2>3. ASSUME NEW k \in DOMAIN Seeds, NEW l \in DOMAIN Seeds,
               k < l, Seeds[k] \in ever', Seeding(l)'
        PROVE  ever' # logs' \/ k \in late'
    <3>1. CASE boot' = "insert"
      BY <1>1, <1>2, <2>3, <3>1
    <3>2. CASE boot' # "insert"
      <4>1. Seeding(l)
        BY <1>2, <2>3, <3>2 DEF Seeding
      <4>2. QED
        BY <1>2, <2>3, <4>1 DEF Inv, SeedsInv
    <3>3. QED
      BY <3>1, <3>2
  <2>4. QED
    BY <2>1, <2>2, <2>3 DEF SeedsInv
<1>9. QED
  BY <1>4, <1>5, <1>7, <1>8 DEF Inv

LEMMA SeedStep == ASSUME Inv, Seeded \/ SeedFails PROVE Inv'
<1>1. boot = "insert" /\ boot' = "up" /\ UNCHANGED <<now, database, starts, handler, browser>>
  BY DEF Seeded, SeedFails
<1>2. late' = late \/ late' = late \cup {starts}
  BY DEF Seeded, SeedFails, LeaveInsert
<1>3. UNCHANGED <<logs, ever, behind, metrics, registry, at, query, page, total,
                  tab, offset, seen, initial>>
  BY <1>1 DEF database, handler, browser
<1>4. starts \in 1..starts
  BY <1>1 DEF Inv, SeedsInv, Types, TypeOK
<1>5. Types'
  BY <1>1, <1>2, <1>3, <1>4 DEF Inv, Types, TypeOK, ToSet
<1>6. RowsInv'
  BY <1>1, <1>3 DEF Inv, RowsInv, Old
<1>7. OtherStep
  BY <1>1, <1>3, <1>5, SpanTypes DEF OtherStep, Types, TypeOK
<1>8. PageInv' /\ BrowseInv'
  BY <1>5, <1>7, OtherPage, OtherBrowse
<1>9. SeedsInv'
  BY <1>1, <1>2, <1>3, SameSeeds DEF Seeding
<1>10. QED
  BY <1>5, <1>6, <1>8, <1>9 DEF Inv

-----------------------------------------------------------------------------
(* The search handler.  Its steps leave the database alone.                *)

LEMMA SameRows ==
  ASSUME Inv, UNCHANGED <<now, database>>
  PROVE  /\ RowsInv'
         /\ UNCHANGED process => SeedsInv'
<1>1. UNCHANGED <<now, logs, ever, behind, metrics, registry>>
  BY DEF database
<1>2. RowsInv'
  BY <1>1 DEF Inv, RowsInv, Old
<1>3. UNCHANGED process => SeedsInv'
  BY <1>1, SameSeeds DEF process, Seeding
<1>4. QED
  BY <1>2, <1>3

(* What is awaited and what is ahead depends on the order of the query and *)
(* on what it matches.                                                     *)
LEMMA SameWaiting ==
  ASSUME UNCHANGED <<now, logs, ever, initial, seen>>,
         query'.orderBy = query.orderBy, query'.descending = query.descending
  PROVE  /\ Waiting' = Waiting
         /\ \A r : query' = query => Ahead(r)' = Ahead(r)
<1>1. NewestFirst' <=> NewestFirst
  BY DEF NewestFirst
<1>2. \A r : TiedWith(r)' = TiedWith(r)
  BY DEF TiedWith, Before
<1>3. \A r : Old(r)' <=> Old(r)
  BY DEF Old
<1>4. Waiting' = Waiting
  BY <1>1, <1>2, <1>3 DEF Waiting
<1>5. \A r : query' = query => Ahead(r)' = Ahead(r)
  BY DEF Ahead, Matches, Before
<1>6. QED
  BY <1>4, <1>5

LEMMA WaitingRow ==
  ASSUME Inv, NEW r \in Waiting
  PROVE  /\ r \in initial /\ r \in logs /\ r \in Rows /\ TiedWith(r) = {}
         /\ Cardinality(Ahead(r)) \in Nat
<1>1. /\ r \in initial /\ r \in ever /\ ~Old(r) /\ r \in Rows /\ TiedWith(r) = {}
      /\ logs \subseteq Rows
  BY DEF Waiting, Inv, Types, TypeOK
<1>2. r \in logs
  BY <1>1 DEF Inv, RowsInv
<1>3. Cardinality(Ahead(r)) \in Nat
  BY <1>1, FiniteRows DEF Ahead
<1>4. QED
  BY <1>1, <1>2, <1>3

(* The handler ends without a reply.                                       *)
LEMMA ReturnBrowse ==
  ASSUME Inv, Return, UNCHANGED <<now, database, query, browser>>
  PROVE  PageInv' /\ BrowseInv'
<1>1. UNCHANGED <<now, logs, ever, query, tab, offset, seen, initial>> /\ at' = "idle"
  BY DEF database, browser, Return
<1>2. PageInv'
  BY <1>1 DEF PageInv, PageConsistent
<1>3. Waiting' = Waiting /\ \A r : Ahead(r)' = Ahead(r)
  BY <1>1, SameWaiting
<1>4. \A r, q : Matches(r, q)' <=> Matches(r, q)
  BY DEF Matches
<1>5. (tab = "open" => \A r \in initial : Matches(r, [query EXCEPT !.to = now]))'
  BY <1>1 DEF Inv, BrowseInv, Matches
<1>6. (tab = "open" /\ (at # "idle" \/ offset > 0) => query.to \in 1..now)'
  BY <1>1 DEF Inv, BrowseInv
<1>7. (tab = "open" => \A r \in Waiting : Cardinality(Ahead(r)) >= offset)'
  BY <1>1, <1>3 DEF Inv, BrowseInv
<1>8. (tab = "end" => Waiting = {})'
  BY <1>1, <1>3 DEF Inv, BrowseInv
<1>9. QED
  BY <1>1, <1>2, <1>5, <1>6, <1>7, <1>8 DEF BrowseInv

LEMMA StopStep == ASSUME Inv, Stop PROVE Inv'
<1>1. /\ boot # "down" /\ boot' = "down" /\ Return
      /\ UNCHANGED <<now, database, starts, query, browser>>
      /\ late' = late \/ (boot = "insert" /\ late' = late \cup {starts})
  BY DEF Stop, LeaveInsert
<1>2. /\ UNCHANGED <<now, logs, ever, behind, metrics, registry, starts, query,
                     tab, offset, seen, initial>>
      /\ at' = "idle" /\ page' = <<>> /\ total' = 0
  BY <1>1 DEF database, browser, Return
<1>3. page' \in Seq(Rows) /\ ToSet(page)' = {}
  BY <1>2, EmptySeq DEF ToSet
<1>4. starts \in 1..starts /\ late \subseteq 1..starts
  BY <1>1 DEF Inv, SeedsInv, Types, TypeOK
<1>5. Types'
  BY <1>1, <1>2, <1>3, <1>4 DEF Inv, Types, TypeOK
<1>6. SeedsInv'
  BY <1>1, <1>2, SameSeeds DEF Seeding
<1>7. QED
  BY <1>1, <1>5, <1>6, ReturnBrowse, SameRows DEF Inv

LEMMA FailStep == ASSUME Inv, Fail PROVE Inv'
<1>1. Return /\ UNCHANGED <<now, database, process, query, browser>>
  BY DEF Fail
<1>2. /\ UNCHANGED <<now, logs, ever, behind, metrics, registry, boot, starts, late, query,
                     tab, offset, seen, initial>>
      /\ at' = "idle" /\ page' = <<>> /\ total' = 0
  BY <1>1 DEF database, process, browser, Return
<1>3. page' \in Seq(Rows) /\ ToSet(page)' = {}
  BY <1>2, EmptySeq DEF ToSet
<1>4. Types'
  BY <1>2, <1>3 DEF Inv, Types, TypeOK
<1>5. QED
  BY <1>1, <1>4, ReturnBrowse, SameRows DEF Inv

LEMMA AskStep == ASSUME Inv, NEW q \in Searches, Ask(q) PROVE Inv'
<1>1. /\ boot = "up" /\ tab = "closed" /\ at' = "parse" /\ query' = q
      /\ UNCHANGED <<now, database, process, page, total, browser>>
  BY DEF Ask
<1>2. UNCHANGED <<logs, ever, behind, metrics, registry, boot, starts, late, tab, offset, seen,
                     initial>>
  BY <1>1 DEF database, process, browser
<1>3. Types'
  BY <1>1, <1>2, SearchAssumption DEF Inv, Types, TypeOK, ToSet
<1>4. PageInv' /\ BrowseInv'
  BY <1>1, <1>2 DEF PageInv, PageConsistent, BrowseInv
<1>5. QED
  BY <1>1, <1>3, <1>4, SameRows DEF Inv

LEMMA SearchStep == ASSUME Inv, Search PROVE Inv'
<1>1. /\ at = "parse" /\ at' = "count" /\ page' \in SearchLogs(query)
      /\ UNCHANGED <<now, database, process, query, total, browser>>
  BY DEF Search
<1>2. /\ UNCHANGED <<logs, ever, behind, metrics, registry, boot, starts, late, tab, offset, seen,
                     initial>>
      /\ query \in LogQueryFilter /\ logs \subseteq ever /\ ever \subseteq Rows
      /\ offset \in Nat
  BY <1>1 DEF database, process, browser, Inv, Types, TypeOK
<1>3. /\ Fits(page', query)
      /\ page' \in Seq(Matching(query))
      /\ page' # <<>> => OffsetOf(query) + Len(page') <= Cardinality(Matching(query))
  BY <1>1, <1>2, SearchedPage
<1>4. Matching(query) \subseteq logs /\ Matching(query) \subseteq Rows
  BY <1>2 DEF Matching
<1>5. page' \in Seq(Rows) /\ ToSet(page') \subseteq Matching(query)
  <2>1. DOMAIN page' = 1..Len(page') /\ \A i \in 1..Len(page') : page'[i] \in Matching(query)
    BY <1>3, ElementOfSeq, LenProperties
  <2>2. \A i \in 1..Len(page') : page'[i] \in Rows
    BY <1>4, <2>1
  <2>3. QED
    BY <1>3, <2>1, <2>2, <1>4 DEF ToSet
<1>6. Types'
  <2>1. (ToSet(page) \subseteq ever)'
    BY <1>2, <1>4, <1>5 DEF ToSet
  <2>2. QED
    BY <1>1, <1>2, <1>5, <2>1 DEF Inv, Types, TypeOK
<1>7. PageInv'
  <2> DEFINE S == {r \in ever : Matches(r, query)}
  <2>1. Matching(query) \in SUBSET S /\ S \in SUBSET Rows
    BY <1>2 DEF Matching
  <2> HIDE DEF S
  <2>2. /\ Cardinality(Matching(query)) <= Cardinality(S)
        /\ Cardinality(S) \in Nat /\ Cardinality(Matching(query)) \in Nat
    BY <1>4, <2>1, FewerRows, FiniteRows
  <2>3. OffsetOf(query) \in Nat /\ Len(page') \in Nat
    BY <1>2, <1>5, QueryFields, LenProperties
  <2>4. page' # <<>> => OffsetOf(query) + Len(page') <= Cardinality(S)
    BY <1>3, <2>2, <2>3
  <2>5. /\ Fits(page, query)'
        /\ (page # <<>> =>
              OffsetOf(query) + Len(page) <= Cardinality({r \in ever : Matches(r, query)}))'
    BY <1>1, <1>2, <1>3, <2>4 DEF S, Fits, Matches, Sorted, Before, LimitOf, OffsetOf
  <2>6. QED
    BY <1>1, <2>5 DEF PageInv, PageConsistent
<1>8. Waiting' = Waiting /\ \A r : Ahead(r)' = Ahead(r)
  BY <1>1, <1>2, SameWaiting
<1>9. ASSUME tab = "open", NEW r \in Waiting
      PROVE  r \in ToSet(page') \/ Cardinality(Ahead(r)) >= offset + Limit
  <2>1. OffsetOf(query) = offset /\ LimitOf(query) = Limit
    BY <1>1, <1>2, <1>9, SpanTypes DEF Inv, BrowseInv, OffsetOf, LimitOf
  <2>2. r \in Matching(query)
    BY <1>1, <1>9, WaitingRow DEF Inv, BrowseInv, Matching
  <2>3. \A s \in Matching(query) \ {r} : Before(r, s, query) \/ Before(s, r, query)
    BY <1>2, <1>4, <1>9, WaitingRow DEF TiedWith
  <2>4. Cardinality({s \in logs : Matches(s, query) /\ Before(s, r, query)}) >= OffsetOf(query)
    BY <1>9, <2>1 DEF Inv, BrowseInv, Ahead
  <2>5. \/ r \in ToSet(page')
        \/ Cardinality({s \in logs : Matches(s, query) /\ Before(s, r, query)})
             >= OffsetOf(query) + LimitOf(query)
    BY <1>1, <1>2, <2>2, <2>3, <2>4, PositionInOrder
  <2>6. QED
    BY <2>1, <2>5 DEF Ahead
<1>10. BrowseInv'
  <2>1. \A r, q : Matches(r, q)' <=> Matches(r, q)
    BY DEF Matches
  <2>2. (tab = "open" => \A r \in initial : Matches(r, [query EXCEPT !.to = now]))'
    BY <1>1, <1>2 DEF Inv, BrowseInv, Matches
  <2>3. (tab = "open" /\ at # "idle" =>
           query.limit = Limit /\ query.offset = offset /\ \A r \in initial : Matches(r, query))'
    BY <1>1, <1>2 DEF Inv, BrowseInv, Matches
  <2>4. (tab = "open" /\ (at # "idle" \/ offset > 0) => query.to \in 1..now)'
    BY <1>1, <1>2 DEF Inv, BrowseInv
  <2>5. (tab = "open" => \A r \in Waiting : Cardinality(Ahead(r)) >= offset)'
    BY <1>2, <1>8 DEF Inv, BrowseInv
  <2>6. (tab = "open" /\ at \in {"count", "reply"} =>
           \A r \in Waiting :
             \/ r \in ToSet(page)
             \/ /\ Cardinality(Ahead(r)) >= offset + Limit
                /\ at = "reply" => total > offset + Limit)'
    BY <1>1, <1>2, <1>8, <1>9 DEF ToSet
  <2>7. (tab = "end" => Waiting = {})'
    BY <1>2, <1>8 DEF Inv, BrowseInv
  <2>8. QED
    BY <2>2, <2>3, <2>4, <2>5, <2>6, <2>7 DEF BrowseInv
<1>11. QED
  BY <1>1, <1>6, <1>7, <1>10, SameRows DEF Inv

LEMMA CountStep == ASSUME Inv, Count PROVE Inv'
<1>1. /\ at = "count" /\ at' = "reply" /\ total' = Cardinality(Matching(query))
      /\ UNCHANGED <<now, database, process, query, page, browser>>
  BY DEF Count, GetFilteredLogsCount
<1>2. /\ UNCHANGED <<logs, ever, behind, metrics, registry, boot, starts, late, tab, offset, seen,
                     initial>>
      /\ query \in LogQueryFilter /\ logs \subseteq ever /\ ever \subseteq Rows
      /\ offset \in Nat
  BY <1>1 DEF database, process, browser, Inv, Types, TypeOK
<1>3. Matching(query) \in SUBSET Rows /\ Cardinality(Matching(query)) \in Nat
  BY <1>2, FiniteRows DEF Matching
<1>4. Types'
  BY <1>1, <1>2, <1>3 DEF Inv, Types, TypeOK, ToSet
<1>5. PageInv'
  <2> DEFINE S == {r \in ever : Matches(r, query)}
             T == {r \in ever : Old(r) /\ Matches(r, query)}
             M == Matching(query)
  <2>1. S \in SUBSET (M \cup T) /\ M \cup T \in SUBSET Rows /\ T \in SUBSET Rows
    BY <1>2 DEF Matching, Inv, RowsInv
  <2> HIDE DEF S, T, M
  <2>2. Cardinality(S) <= Cardinality(M \cup T)
    BY <2>1, FewerRows
  <2>3. Cardinality(M \cup T) = Cardinality(M) + Cardinality(T) - Cardinality(M \cap T)
    BY <1>3, <2>1, FiniteRows, FS_Union DEF M
  <2>4. M \cap T \in SUBSET Rows /\ S \in SUBSET Rows
    BY <2>1
  <2>5. /\ Cardinality(M) \in Nat /\ Cardinality(T) \in Nat
        /\ Cardinality(S) \in Nat /\ Cardinality(M \cap T) \in Nat
        /\ Cardinality(M \cup T) \in Nat
    BY <1>3, <2>1, <2>4, FiniteRows DEF M
  <2>6. Cardinality(S) <= Cardinality(M) + Cardinality(T)
    BY <2>2, <2>3, <2>5
  <2>7. OffsetOf(query) \in Nat /\ Len(page) \in Nat
    BY <1>2, QueryFields, LenProperties DEF Inv, Types, TypeOK
  <2>8. page # <<>> => OffsetOf(query) + Len(page) <= total' + Cardinality(T)
    BY <1>1, <2>5, <2>6, <2>7 DEF Inv, PageInv, S, M
  <2>9. Fits(page, query)' /\ {r \in ever : Old(r) /\ Matches(r, query)}' = T
    BY <1>1, <1>2
       DEF Inv, PageInv, Fits, Matches, Sorted, Before, LimitOf, Old, T
  <2>10. (page # <<>> =>
           OffsetOf(query) + Len(page)
             <= total + Cardinality({r \in ever : Old(r) /\ Matches(r, query)}))'
    BY <1>1, <2>8, <2>9 DEF OffsetOf
  <2>11. QED
    BY <1>1, <2>9, <2>10 DEF PageInv, PageConsistent, Fits
<1>6. Waiting' = Waiting /\ \A r : Ahead(r)' = Ahead(r)
  BY <1>1, <1>2, SameWaiting
<1>7. ASSUME tab = "open", NEW r \in Waiting, r \notin ToSet(page)
      PROVE  Cardinality(Ahead(r)) >= offset + Limit /\ total' > offset + Limit
  <2>1. Cardinality(Ahead(r)) >= offset + Limit /\ Cardinality(Ahead(r)) \in Nat
    BY <1>1, <1>7, WaitingRow DEF Inv, BrowseInv
  <2>2. r \in Rows /\ r \in Matching(query)
    BY <1>1, <1>7, WaitingRow DEF Inv, BrowseInv, Matching
  <2>3. r \notin Ahead(r)
    BY <2>2, BeforeIsStrict DEF Ahead
  <2>4. Ahead(r) \in SUBSET Rows /\ Ahead(r) \cup {r} \in SUBSET Matching(query)
    BY <1>2, <2>2 DEF Ahead, Matching
  <2>5. Cardinality(Ahead(r) \cup {r}) = Cardinality(Ahead(r)) + 1
    BY <2>3, <2>4, FiniteRows, FS_AddElement
  <2>6. Cardinality(Ahead(r) \cup {r}) <= Cardinality(Matching(query))
    BY <1>3, <2>4, FewerRows
  <2>7. QED
    BY <1>1, <1>2, <1>3, <2>1, <2>5, <2>6, SpanTypes
<1>8. BrowseInv'
  <2>1. \A r, q : Matches(r, q)' <=> Matches(r, q)
    BY DEF Matches
  <2>2. (tab = "open" => \A r \in initial : Matches(r, [query EXCEPT !.to = now]))'
    BY <1>1, <1>2 DEF Inv, BrowseInv, Matches
  <2>3. (tab = "open" /\ at # "idle" =>
           query.limit = Limit /\ query.offset = offset /\ \A r \in initial : Matches(r, query))'
    BY <1>1, <1>2 DEF Inv, BrowseInv, Matches
  <2>4. (tab = "open" /\ (at # "idle" \/ offset > 0) => query.to \in 1..now)'
    BY <1>1, <1>2 DEF Inv, BrowseInv
  <2>5. (tab = "open" => \A r \in Waiting : Cardinality(Ahead(r)) >= offset)'
    BY <1>2, <1>6 DEF Inv, BrowseInv
  <2>6. (tab = "open" /\ at \in {"count", "reply"} =>
           \A r \in Waiting :
             \/ r \in ToSet(page)
             \/ /\ Cardinality(Ahead(r)) >= offset + Limit
                /\ at = "reply" => total > offset + Limit)'
    BY <1>1, <1>2, <1>6, <1>7 DEF ToSet
  <2>7. (tab = "end" => Waiting = {})'
    BY <1>2, <1>6 DEF Inv, BrowseInv
  <2>8. QED
    BY <2>2, <2>3, <2>4, <2>5, <2>6, <2>7 DEF BrowseInv
<1>9. QED
  BY <1>1, <1>4, <1>5, <1>8, SameRows DEF Inv

-----------------------------------------------------------------------------
(* The browser                                                             *)

LEMMA BrowseStep == ASSUME Inv, NEW q \in Searches, Browse(q) PROVE Inv'
<1>1. /\ at = "idle" /\ tab' = "open" /\ query' = q /\ offset' = 0 /\ seen' = {}
      /\ initial' = Matching([q EXCEPT !.to = now])
      /\ UNCHANGED <<now, database, process, at, page, total>>
  BY DEF Browse
<1>2. /\ UNCHANGED <<logs, ever, behind, metrics, registry, boot, starts, late>>
      /\ logs \subseteq ever /\ ever \subseteq Rows /\ q \in LogQueryFilter
  BY <1>1, SearchAssumption DEF database, process, Inv, Types, TypeOK
<1>3. Types'
  BY <1>1, <1>2 DEF Inv, Types, TypeOK, ToSet, Matching
<1>4. PageInv'
  BY <1>1 DEF PageInv, PageConsistent
<1>5. \A r \in initial' : Matches(r, [q EXCEPT !.to = now])
  BY <1>1 DEF Matching
<1>6. (tab = "open" => \A r \in initial : Matches(r, [query EXCEPT !.to = now]))'
  BY <1>1, <1>5 DEF Matches
<1>7. (\A r \in Waiting : Cardinality(Ahead(r)) >= offset)'
  <2>1. \A r : Ahead(r)' \in SUBSET Rows
    BY <1>2 DEF Ahead
  <2>2. QED
    BY <1>1, <2>1, FiniteRows
<1>8. BrowseInv'
  BY <1>1, <1>6, <1>7 DEF BrowseInv
<1>9. QED
  BY <1>1, <1>3, <1>4, <1>8, SameRows DEF Inv

LEMMA AskedQuery ==
  ASSUME NEW q \in LogQueryFilter, NEW l \in Nat, NEW o \in Nat, NEW n \in Nat, NEW a,
         a = [services |-> q.services, from |-> q.from, to |-> n, orderBy |-> q.orderBy,
              descending |-> q.descending, limit |-> l, offset |-> o, parses |-> TRUE]
  PROVE  /\ a \in LogQueryFilter
         /\ a.limit = l /\ a.offset = o /\ a.to = n
         /\ a.services = q.services /\ a.from = q.from /\ a.orderBy = q.orderBy
         /\ a.descending = q.descending
<1>1. /\ q.services \in SUBSET Nat /\ q.from \in Nat /\ q.orderBy \in STRING
      /\ q.descending \in BOOLEAN
  BY DEF LogQueryFilter
<1>2. a \in LogQueryFilter
  BY <1>1 DEF LogQueryFilter
<1>3. a.limit = l /\ a.offset = o /\ a.to = n
  OBVIOUS
<1>4. a.services = q.services /\ a.from = q.from /\ a.orderBy = q.orderBy
  OBVIOUS
<1>5. a.descending = q.descending
  OBVIOUS
<1>6. QED
  BY <1>2, <1>3, <1>4, <1>5

LEMMA AskPageStep == ASSUME Inv, AskPage PROVE Inv'
<1>1. /\ boot = "up" /\ at = "idle" /\ tab = "open" /\ at' = "parse"
      /\ query' = [query EXCEPT !.limit = Limit, !.offset = offset, !.to = now, !.parses = TRUE]
      /\ UNCHANGED <<now, database, process, page, total, browser>>
  BY DEF AskPage
<1>2. /\ UNCHANGED <<logs, ever, behind, metrics, registry, boot, starts, late, tab, offset, seen,
                     initial>>
      /\ query \in LogQueryFilter /\ logs \subseteq ever /\ ever \subseteq Rows
      /\ initial \subseteq ever /\ offset \in Nat /\ now \in Nat /\ now >= 1
  BY <1>1, SpanTypes DEF database, process, browser, Inv, Types, TypeOK
<1>3. /\ query' \in LogQueryFilter
      /\ query'.limit = Limit /\ query'.offset = offset /\ query'.to = now
      /\ query'.services = query.services /\ query'.from = query.from
      /\ query'.orderBy = query.orderBy /\ query'.descending = query.descending
  <2> DEFINE a == query'
  <2>1. a = [services |-> query.services, from |-> query.from, to |-> now,
             orderBy |-> query.orderBy, descending |-> query.descending,
             limit |-> Limit, offset |-> offset, parses |-> TRUE]
    BY <1>1, <1>2 DEF LogQueryFilter
  <2>2. Limit \in Nat
    BY SpanTypes
  <2> HIDE DEF a
  <2>3. /\ a \in LogQueryFilter
        /\ a.limit = Limit /\ a.offset = offset /\ a.to = now
        /\ a.services = query.services /\ a.from = query.from /\ a.orderBy = query.orderBy
        /\ a.descending = query.descending
    BY <1>2, <2>1, <2>2, AskedQuery
  <2>4. QED
    BY <2>3 DEF a
<1>4. Types'
  BY <1>1, <1>2, <1>3 DEF Inv, Types, TypeOK, ToSet
<1>5. PageInv'
  BY <1>1 DEF PageInv, PageConsistent
<1>6. Waiting' = Waiting
  BY <1>1, <1>2, <1>3, SameWaiting
<1>7. \A r \in initial :
        Matches(r, query') /\ Matches(r, [query' EXCEPT !.to = now])
  <2> TAKE r \in initial
  <2>1. Matches(r, [query EXCEPT !.to = now])
    BY <1>1 DEF Inv, BrowseInv
  <2>2. /\ query.services = {} \/ Service[r] \in query.services
        /\ Time[r] >= query.from
        /\ Time[r] <= now
    BY <1>2, <2>1 DEF Matches, LogQueryFilter
  <2>3. Matches(r, query')
    BY <1>3, <2>2 DEF Matches
  <2>4. Matches(r, [query' EXCEPT !.to = now])
    BY <1>3, <2>2 DEF Matches, LogQueryFilter
  <2>5. QED
    BY <2>3, <2>4
<1>8. ASSUME NEW r \in Waiting PROVE Cardinality(Ahead(r)') >= offset
  <2>1. Ahead(r)' \in SUBSET Rows
    BY <1>2 DEF Ahead
  <2>2. Cardinality(Ahead(r)') \in Nat
    BY <2>1, FiniteRows
  <2>3. CASE offset = 0
    BY <2>2, <2>3
  <2>4. CASE offset > 0
    <3>1. query.to \in 1..now
      BY <1>1, <2>4 DEF Inv, BrowseInv
    <3>2. \A s \in Rows : Matches(s, query) => Matches(s, query')
      BY <1>2, <1>3, <3>1, RowTypes DEF Matches
    <3>3. \A s : Before(s, r, query') <=> Before(s, r, query)
      BY <1>3 DEF Before
    <3>4. Ahead(r)' = {s \in logs : Matches(s, query') /\ Before(s, r, query')}
      BY <1>2 DEF Ahead, Matches, Before
    <3>5. Ahead(r) \in SUBSET Ahead(r)'
      BY <1>2, <3>2, <3>3, <3>4 DEF Ahead
    <3>6. Cardinality(Ahead(r)) <= Cardinality(Ahead(r)')
      BY <2>1, <3>5, FewerRows
    <3>7. Cardinality(Ahead(r)) >= offset /\ Cardinality(Ahead(r)) \in Nat
      BY <1>1, <1>8, WaitingRow DEF Inv, BrowseInv
    <3>8. QED
      BY <1>2, <2>2, <3>6, <3>7
  <2>5. QED
    BY <1>2, <2>3, <2>4
<1>9. BrowseInv'
  <2>1. (tab = "open" => \A r \in initial : Matches(r, [query EXCEPT !.to = now]))'
    BY <1>1, <1>2, <1>7 DEF Matches
  <2>2. (tab = "open" /\ at # "idle" =>
           query.limit = Limit /\ query.offset = offset /\ \A r \in initial : Matches(r, query))'
    BY <1>2, <1>3, <1>7 DEF Matches
  <2>3. (query.to \in 1..now)'
    BY <1>1, <1>2, <1>3
  <2>4. (tab = "open" => \A r \in Waiting : Cardinality(Ahead(r)) >= offset)'
    BY <1>2, <1>6, <1>8
  <2>5. QED
    BY <1>1, <1>2, <2>1, <2>2, <2>3, <2>4 DEF BrowseInv
<1>10. QED
  BY <1>1, <1>4, <1>5, <1>9, SameRows DEF Inv

LEMMA ReplyStep == ASSUME Inv, Reply PROVE Inv'
<1>1. at = "reply" /\ Return /\ UNCHANGED <<now, database, process, query, initial>>
  BY DEF Reply
<1>2. /\ UNCHANGED <<logs, ever, behind, metrics, registry, boot, starts, late>>
      /\ at' = "idle" /\ page' = <<>> /\ total' = 0
      /\ ToSet(page) \subseteq ever /\ seen \subseteq ever /\ offset \in Nat
      /\ total \in Nat /\ Limit \in Nat /\ Limit >= 1
  BY <1>1, SpanTypes DEF database, process, Return, Inv, Types, TypeOK
<1>3. page' \in Seq(Rows) /\ ToSet(page)' = {}
  BY <1>2, EmptySeq DEF ToSet
<1>4. CASE tab # "open"
  <2>1. UNCHANGED <<seen, offset, tab>>
    BY <1>4 DEF Reply
  <2>2. Types'
    BY <1>1, <1>2, <1>3, <2>1 DEF Inv, Types, TypeOK
  <2>3. PageInv' /\ BrowseInv'
    BY <1>1, <2>1, ReturnBrowse DEF browser
  <2>4. QED
    BY <1>1, <2>2, <2>3, SameRows DEF Inv
<1>5. CASE tab = "open"
  <2>1. /\ seen' = seen \cup ToSet(page) /\ offset' = offset + Limit
        /\ tab' = IF offset + Limit < total THEN "open" ELSE "end"
    BY <1>5 DEF Reply, NextOffset
  <2>2. Types'
    BY <1>1, <1>2, <1>3, <2>1 DEF Inv, Types, TypeOK
  <2>3. PageInv'
    BY <1>2 DEF PageInv, PageConsistent
  <2>4. /\ \A r : Old(r)' <=> Old(r)
        /\ \A r : TiedWith(r)' = TiedWith(r)
        /\ NewestFirst' <=> NewestFirst
        /\ \A r : Ahead(r)' = Ahead(r)
    BY <1>1, <1>2 DEF Old, TiedWith, NewestFirst, Ahead, Matches, Before
  <2>5. ASSUME NEW r \in Waiting'
        PROVE  Cardinality(Ahead(r)) >= offset + Limit /\ total > offset + Limit
    <3>1. r \in Waiting /\ r \notin ToSet(page)
      BY <1>1, <1>2, <2>1, <2>4, <2>5 DEF Waiting
    <3>2. QED
      BY <1>1, <1>5, <3>1 DEF Inv, BrowseInv
  <2>6. (tab = "open" => \A r \in initial : Matches(r, [query EXCEPT !.to = now]))'
    BY <1>1, <1>5 DEF Inv, BrowseInv, Matches
  <2>7. (tab = "open" /\ (at # "idle" \/ offset > 0) => query.to \in 1..now)'
    BY <1>1, <1>5 DEF Inv, BrowseInv
  <2>8. (\A r \in Waiting : Cardinality(Ahead(r)) >= offset)'
    BY <2>1, <2>4, <2>5
  <2>9. (tab = "end" => Waiting = {})'
    BY <1>2, <2>1, <2>5
  <2>10. BrowseInv'
    BY <1>2, <2>6, <2>7, <2>8, <2>9 DEF BrowseInv
  <2>11. QED
    BY <1>1, <2>2, <2>3, <2>10, SameRows DEF Inv
<1>6. QED
  BY <1>4, <1>5

LEMMA StutterStep == ASSUME Inv, UNCHANGED vars PROVE Inv'
<1>1. /\ UNCHANGED <<now, logs, ever, behind, metrics, registry, boot, starts, late, at, query, page, total,
                     tab, offset, seen, initial>>
      /\ now \in Nat
  BY SpanTypes DEF vars, Inv, Types, TypeOK
<1>2. Types'
  BY <1>1 DEF Inv, Types, TypeOK, ToSet
<1>3. OtherStep
  BY <1>1 DEF OtherStep, handler, browser
<1>4. PageInv' /\ BrowseInv'
  BY <1>2, <1>3, OtherPage, OtherBrowse
<1>5. RowsInv' /\ SeedsInv'
  BY <1>1, SameRows DEF database, process
<1>6. QED
  BY <1>2, <1>4, <1>5 DEF Inv

LEMMA NextInv == Inv /\ [Next]_vars => Inv'
<1> SUFFICES ASSUME Inv, [Next]_vars PROVE Inv'
  OBVIOUS
<1>1. ASSUME NEW r \in Rows, Insert(r) \/ WriteViews(r) \/ Expire(r) PROVE Inv'
  BY <1>1, InsertStep, ViewsStep, ExpireStep
<1>2. CASE Tick \/ Start \/ CountRows \/ Seeded \/ SeedFails \/ Stop
  BY <1>2, TickStep, StartStep, SeedStep, StopStep
<1>6. ASSUME NEW k \in DOMAIN Seeds, Commit(k) PROVE Inv'
  BY <1>6, CommitStep
<1>3. ASSUME NEW q \in Searches, Ask(q) \/ Browse(q) PROVE Inv'
  BY <1>3, AskStep, BrowseStep
<1>4. CASE Fail \/ Search \/ Count \/ AskPage \/ Reply
  BY <1>4, FailStep, SearchStep, CountStep, AskPageStep, ReplyStep
<1>5. CASE Ended \/ UNCHANGED vars
  BY <1>5, StutterStep DEF Ended
<1>7. QED
  BY <1>1, <1>2, <1>3, <1>4, <1>5, <1>6 DEF Next

-----------------------------------------------------------------------------
(* The theorems                                                            *)

(* The invariant: types, removed rows, starts, the page and the browser.   *)
THEOREM Invariance == Spec => []Inv
<1>1. Init => Inv
  BY InitInv
<1>2. Inv /\ [Next]_vars => Inv'
  BY NextInv
<1>3. QED
  BY <1>1, <1>2, PTL DEF Spec

(* Type correctness of the tables, the handler and the browser.            *)
THEOREM TypeCorrect == Spec => []TypeOK
<1>1. Inv => TypeOK
  BY DEF Inv, Types
<1>2. QED
  BY <1>1, Invariance, PTL

(* handleLogs: a reply of two queries fits together.                       *)
THEOREM RepliesConsistent == Spec => []PageConsistent
<1>1. Inv => PageConsistent
  BY DEF Inv, PageInv
<1>2. QED
  BY <1>1, Invariance, PTL

(* searchLogs of the frontend, with SearchLogs: the pages show every row   *)
(* that was there at the beginning, but for the exceptions named.          *)
THEOREM PagesComplete == Spec => []BrowseMissesNothing
<1>1. Inv => BrowseMissesNothing
  BY DEF Inv, BrowseInv, Waiting, BrowseMissesNothing
<1>2. QED
  BY <1>1, Invariance, PTL

(* InitDB: a table is seeded twice only after rows were removed from it,   *)
(* or beside an insert that outlived its start.                            *)
THEOREM SeedingOnce == Spec => []SeededOnce
<1>1. Inv => SeededOnce
  BY DEF Inv, SeedsInv, Seeding, SeededOnce
<1>2. QED
  BY <1>1, Invariance, PTL

(* The registry: the service filter of the dashboard offers the service of *)
(* every stored log whose views are written, also of those that have       *)
(* expired.                                                                *)
THEOREM ServicesOffered ==
  Spec => []({Service[r] : r \in ever \ behind} \subseteq GetDistinctServices)
<1>1. Inv => {Service[r] : r \in ever \ behind} \subseteq GetDistinctServices
  BY DEF Inv, RowsInv, GetDistinctServices
<1>2. QED
  BY <1>1, Invariance, PTL

-----------------------------------------------------------------------------
(* The charts.  First sums over finite sets: what MapThenSumSet computes,  *)
(* whatever order its CHOOSE takes the elements in.  Claims about all      *)
(* subsets of a finite set are proved of a smallest counterexample.        *)

(* Among sets of parts of a finite set one is smallest.                    *)
LEMMA MinimalSet ==
  ASSUME NEW U, IsFiniteSet(U), NEW B, B \subseteq SUBSET U, B # {}
  PROVE  \E T \in B : \A R \in B : R \subseteq T => R = T
<1>1. IsWellFoundedOn(StrictSubsetOrdering(U), SUBSET U)
  BY FS_StrictSubsetOrderingWellFounded, FS_FiniteSubsetsOfFinite
<1>2. PICK T \in B : \A R \in B : ~(<<R, T>> \in StrictSubsetOrdering(U))
  BY <1>1, WFMin
<1>3. ASSUME NEW R \in B, R \subseteq T, R # T PROVE <<R, T>> \in StrictSubsetOrdering(U)
  BY <1>3 DEF StrictSubsetOrdering
<1>4. \A R \in B : R \subseteq T => R = T
  BY <1>2, <1>3
<1>5. QED
  BY <1>4

(* A fold over the subsets of a finite set: the equation of its recursive  *)
(* function, with the choice and the step as functions.                    *)
Folds(g, s, ch, base, step) ==
  \A t \in SUBSET s : g[t] = IF t = {} THEN base ELSE step[<<ch[t], g[t \ {ch[t]}]>>]

(* Two such folds agree.                                                   *)
LEMMA FoldUnique ==
  ASSUME NEW U, IsFiniteSet(U), NEW ch, \A s \in SUBSET U : s # {} => ch[s] \in s,
         NEW base, NEW step,
         NEW s \in SUBSET U, NEW t \in SUBSET U,
         NEW g, NEW h, Folds(g, s, ch, base, step), Folds(h, t, ch, base, step)
  PROVE  \A r \in SUBSET U : r \subseteq s /\ r \subseteq t => g[r] = h[r]
<1> DEFINE B == {r \in SUBSET U : r \subseteq s /\ r \subseteq t /\ g[r] # h[r]}
<1> SUFFICES ASSUME B # {} PROVE FALSE
  OBVIOUS
<1>1. B \subseteq SUBSET U
  OBVIOUS
<1> HIDE DEF B
<1>2. PICK r \in B : \A q \in B : q \subseteq r => q = r
  BY <1>1, MinimalSet
<1>3. r \in SUBSET U /\ r \subseteq s /\ r \subseteq t /\ g[r] # h[r]
  BY <1>2 DEF B
<1>4. r # {}
  BY <1>3 DEF Folds
<1>5. ch[r] \in r
  BY <1>3, <1>4
<1>6. r \ {ch[r]} \notin B
  BY <1>2, <1>5
<1>7. g[r \ {ch[r]}] = h[r \ {ch[r]}]
  BY <1>3, <1>6 DEF B
<1>8. g[r] = step[<<ch[r], g[r \ {ch[r]}]>>] /\ h[r] = step[<<ch[r], h[r \ {ch[r]}]>>]
  BY <1>3, <1>4 DEF Folds
<1>9. QED
  BY <1>3, <1>7, <1>8

(* There is one, for any choice from non-empty sets and any step.          *)
LEMMA FoldExists ==
  ASSUME NEW U, IsFiniteSet(U), NEW ch, \A s \in SUBSET U : s # {} => ch[s] \in s,
         NEW base, NEW step
  PROVE  \E g : g = [t \in SUBSET U |-> g[t]] /\ Folds(g, U, ch, base, step)
<1> DEFINE B == {s \in SUBSET U : ~\E g : Folds(g, s, ch, base, step)}
           pick(s) == CHOOSE g : Folds(g, s, ch, base, step)
           less(s) == s \ {ch[s]}
           val == [t \in SUBSET U |-> IF t = {} THEN base
                                      ELSE step[<<ch[t], pick(less(t))[less(t)]>>]]
<1>1. \A s \in SUBSET U : s # {} => less(s) \in SUBSET U /\ less(s) \subseteq s /\ less(s) # s
  OBVIOUS
<1>2. ASSUME NEW s \in SUBSET U, \A r \in SUBSET U : r \subseteq s /\ r # s => r \notin B
      PROVE  Folds(val, s, ch, base, step)
  <2>1. ASSUME NEW t \in SUBSET s, t # {}
        PROVE  val[t] = step[<<ch[t], val[less(t)]>>]
    <3> DEFINE u == less(t)
    <3>1. t \in SUBSET U /\ u \in SUBSET U /\ u \subseteq s /\ u # s
      BY <2>1, <1>1
    <3>2. Folds(pick(u), u, ch, base, step)
      BY <1>2, <3>1
    <3>3. val[t] = step[<<ch[t], pick(u)[u]>>]
      BY <2>1, <3>1
    <3>4. CASE u = {}
      <4>1. val[u] = base
        BY <3>1, <3>4
      <4>2. pick(u)[u] = base
        BY <3>2, <3>4 DEF Folds
      <4>3. QED
        BY <3>3, <4>1, <4>2
    <3>5. CASE u # {}
      <4> DEFINE v == less(u)
      <4>1. v \in SUBSET U /\ v \subseteq u /\ v \subseteq s /\ v # s
        BY <1>1, <3>1, <3>5
      <4>2. Folds(pick(v), v, ch, base, step)
        BY <1>2, <4>1
      <4>3. val[u] = step[<<ch[u], pick(v)[v]>>]
        BY <3>1, <3>5
      <4>4. pick(u)[u] = step[<<ch[u], pick(u)[v]>>]
        BY <3>2, <3>5 DEF Folds
      <4> HIDE DEF pick, val, u, v
      <4>5. pick(u)[v] = pick(v)[v]
        BY <3>1, <3>2, <4>1, <4>2, FoldUnique
      <4>6. QED
        BY <3>3, <4>3, <4>4, <4>5 DEF u
    <3>6. QED
      BY <3>4, <3>5
  <2>2. val[{}] = base
    OBVIOUS
  <2> HIDE DEF val, pick
  <2>3. QED
    BY <2>1, <2>2 DEF Folds
<1>3. B = {}
  <2> SUFFICES ASSUME B # {} PROVE FALSE
    OBVIOUS
  <2>1. B \subseteq SUBSET U
    OBVIOUS
  <2> HIDE DEF B, val
  <2>2. PICK s \in B : \A q \in B : q \subseteq s => q = s
    BY <2>1, MinimalSet
  <2>3. Folds(val, s, ch, base, step)
    BY <1>2, <2>1, <2>2
  <2>4. QED
    BY <2>2, <2>3 DEF B
<1>4. Folds(val, U, ch, base, step)
  <2> HIDE DEF B, val
  <2>1. QED
    BY <1>2, <1>3
<1>5. val = [t \in SUBSET U |-> val[t]]
  OBVIOUS
<1> HIDE DEF val
<1>6. QED
  BY <1>4, <1>5

(* The sums of f over the subsets of its domain.                           *)
SomeOf(U) == [t \in SUBSET U |-> CHOOSE x \in t : TRUE]
Adds(g, f, S) ==
  \A t \in SUBSET S :
    g[t] = IF t = {} THEN 0 ELSE f[CHOOSE x \in t : TRUE] + g[t \ {CHOOSE x \in t : TRUE}]
IsSum(g, f, S) == g \in [SUBSET S -> Nat] /\ Adds(g, f, S)
SumOf(f) == CHOOSE g : IsSum(g, f, DOMAIN f)

(* It stays in a set that the step stays in.                               *)
LEMMA FoldTyped ==
  ASSUME NEW U, IsFiniteSet(U), NEW ch, \A s \in SUBSET U : s # {} => ch[s] \in s,
         NEW V, NEW base \in V, NEW step, \A x \in U, v \in V : step[<<x, v>>] \in V
  PROVE  \E g \in [SUBSET U -> V] : Folds(g, U, ch, base, step)
<1>1. PICK g : g = [t \in SUBSET U |-> g[t]] /\ Folds(g, U, ch, base, step)
  BY FoldExists
<1> DEFINE B == {t \in SUBSET U : g[t] \notin V}
<1>2. B = {}
  <2> SUFFICES ASSUME B # {} PROVE FALSE
    OBVIOUS
  <2>1. B \subseteq SUBSET U
    OBVIOUS
  <2> HIDE DEF B
  <2>2. PICK s \in B : \A q \in B : q \subseteq s => q = s
    BY <2>1, MinimalSet
  <2>3. s # {} /\ s \in SUBSET U
    BY <1>1, <2>1, <2>2 DEF Folds, B
  <2>4. ch[s] \in s /\ ch[s] \in U
    BY <2>3
  <2>5. g[s \ {ch[s]}] \in V
    BY <2>2, <2>3, <2>4 DEF B
  <2>6. g[s] = step[<<ch[s], g[s \ {ch[s]}]>>]
    BY <1>1, <2>3 DEF Folds
  <2>7. QED
    BY <2>2, <2>4, <2>5, <2>6 DEF B
<1>3. g \in [SUBSET U -> V]
  BY <1>1, <1>2
<1>4. QED
  BY <1>1, <1>3

LEMMA SumExists ==
  ASSUME NEW S, IsFiniteSet(S), NEW f, \A x \in S : f[x] \in Nat, S \subseteq DOMAIN f
  PROVE  \E g : IsSum(g, f, S)
<1> DEFINE ch == SomeOf(S)
           step == [z \in S \X Nat |-> f[z[1]] + z[2]]
<1>1. \A s \in SUBSET S : s # {} => ch[s] \in s
  BY DEF SomeOf
<1>2. \A x \in S, v \in Nat : step[<<x, v>>] \in Nat /\ step[<<x, v>>] = f[x] + v
  <2> SUFFICES ASSUME NEW x \in S, NEW v \in Nat
               PROVE  step[<<x, v>>] \in Nat /\ step[<<x, v>>] = f[x] + v
    OBVIOUS
  <2>2. step[<<x, v>>] = f[x] + v
    OBVIOUS
  <2>3. f[x] \in Nat
    OBVIOUS
  <2> HIDE DEF step
  <2>4. QED
    BY <2>2, <2>3
<1>3. \A s \in SUBSET S : ch[s] = CHOOSE x \in s : TRUE
  BY DEF SomeOf
<1> HIDE DEF ch, step
<1>4. PICK g \in [SUBSET S -> Nat] : Folds(g, S, ch, 0, step)
  BY <1>1, <1>2, FoldTyped, 0 \in Nat
<1>5. ASSUME NEW t \in SUBSET S, t # {}
      PROVE  g[t] = f[CHOOSE x \in t : TRUE] + g[t \ {CHOOSE x \in t : TRUE}]
  <2>1. g[t] = step[<<ch[t], g[t \ {ch[t]}]>>]
    BY <1>4, <1>5 DEF Folds
  <2>2. ch[t] \in S /\ g[t \ {ch[t]}] \in Nat
    BY <1>1, <1>4, <1>5
  <2>3. QED
    BY <1>2, <1>3, <2>1, <2>2
<1>6. g[{}] = 0
  BY <1>4 DEF Folds
<1>7. QED
  BY <1>5, <1>6 DEF IsSum, Adds

(* The function of all partial sums exists.                                *)
LEMMA SumIs ==
  ASSUME NEW f, IsFiniteSet(DOMAIN f), \A x \in DOMAIN f : f[x] \in Nat
  PROVE  IsSum(SumOf(f), f, DOMAIN f)
<1>1. \E g : IsSum(g, f, DOMAIN f)
  BY SumExists
<1>2. QED
  BY <1>1 DEF SumOf

(* A sum over a part of the domain, computed over that part only.          *)
LEMMA SumSame ==
  ASSUME NEW f, IsFiniteSet(DOMAIN f), \A x \in DOMAIN f : f[x] \in Nat,
         NEW S, S \subseteq DOMAIN f, NEW g, Adds(g, f, S)
  PROVE  g[S] = SumOf(f)[S]
<1> DEFINE F == SumOf(f)
           B == {t \in SUBSET S : g[t] # F[t]}
<1>1. IsSum(F, f, DOMAIN f)
  BY SumIs
<1> HIDE DEF F
<1>2. B = {}
  <2> SUFFICES ASSUME B # {} PROVE FALSE
    OBVIOUS
  <2>1. B \subseteq SUBSET S /\ IsFiniteSet(S)
    BY FS_Subset
  <2> HIDE DEF B
  <2>2. PICK s \in B : \A q \in B : q \subseteq s => q = s
    BY <2>1, MinimalSet
  <2>3. s \in SUBSET S /\ g[s] # F[s]
    BY <2>2 DEF B
  <2>4. s # {}
    BY <1>1, <2>3 DEF IsSum, Adds
  <2> DEFINE c == CHOOSE x \in s : TRUE
  <2>5. c \in s
    BY <2>4
  <2>6. g[s] = f[c] + g[s \ {c}] /\ F[s] = f[c] + F[s \ {c}]
    BY <1>1, <2>3, <2>4 DEF IsSum, Adds
  <2> HIDE DEF c
  <2>7. s \ {c} \notin B
    BY <2>2, <2>5
  <2>8. g[s \ {c}] = F[s \ {c}]
    BY <2>3, <2>7 DEF B
  <2>9. QED
    BY <2>3, <2>6, <2>8
<1>3. QED
  BY <1>2 DEF F

(* Any member may be taken first.                                          *)
LEMMA SumRemove ==
  ASSUME NEW f, IsFiniteSet(DOMAIN f), \A x \in DOMAIN f : f[x] \in Nat
  PROVE  \A s \in SUBSET DOMAIN f : \A x \in s : SumOf(f)[s] = f[x] + SumOf(f)[s \ {x}]
<1> DEFINE F == SumOf(f)
           B == {t \in SUBSET DOMAIN f : \E y \in t : F[t] # f[y] + F[t \ {y}]}
<1>1. IsSum(F, f, DOMAIN f)
  BY SumIs
<1> HIDE DEF F
<1>2. B = {}
  <2> SUFFICES ASSUME B # {} PROVE FALSE
    OBVIOUS
  <2>1. B \subseteq SUBSET DOMAIN f /\ IsFiniteSet(DOMAIN f)
    OBVIOUS
  <2> HIDE DEF B
  <2>2. PICK s \in B : \A q \in B : q \subseteq s => q = s
    BY <2>1, MinimalSet
  <2>3. PICK y \in s : F[s] # f[y] + F[s \ {y}]
    BY <2>2 DEF B
  <2>a. s \in SUBSET DOMAIN f /\ s \subseteq DOMAIN f
    BY <2>1, <2>2
  <2> DEFINE c == CHOOSE z \in s : TRUE
  <2>4. c \in s
    BY <2>3
  <2>5. F[s] = f[c] + F[s \ {c}]
    BY <1>1, <2>a, <2>3 DEF IsSum, Adds
  <2> HIDE DEF c
  <2>6. c # y
    BY <2>3, <2>5
  <2>7. s \ {c} \notin B /\ s \ {y} \notin B
    BY <2>2, <2>3, <2>4
  <2>8. F[s \ {c}] = f[y] + F[(s \ {c}) \ {y}] /\ F[s \ {y}] = f[c] + F[(s \ {y}) \ {c}]
    BY <2>a, <2>3, <2>4, <2>6, <2>7 DEF B
  <2>b. (s \ {c}) \ {y} = (s \ {y}) \ {c}
    OBVIOUS
  <2>9. F[(s \ {c}) \ {y}] = F[(s \ {y}) \ {c}]
    BY <2>b
  <2>10. f[y] \in Nat /\ f[c] \in Nat /\ F[(s \ {y}) \ {c}] \in Nat
    BY <1>1, <2>a, <2>3, <2>4 DEF IsSum, Adds
  <2>11. QED
    BY <2>3, <2>5, <2>8, <2>9, <2>10
<1>3. \A s \in SUBSET DOMAIN f : \A x \in s : F[s] = f[x] + F[s \ {x}]
  BY <1>2
<1>4. QED
  BY <1>3 DEF F

LEMMA SumEmpty ==
  ASSUME NEW f, IsFiniteSet(DOMAIN f), \A x \in DOMAIN f : f[x] \in Nat
  PROVE  SumOf(f)[{}] = 0 /\ \A S \in SUBSET DOMAIN f : SumOf(f)[S] \in Nat
<1> DEFINE F == SumOf(f)
<1>1. IsSum(F, f, DOMAIN f)
  BY SumIs
<1> HIDE DEF F
<1>2. F[{}] = 0 /\ \A S \in SUBSET DOMAIN f : F[S] \in Nat
  BY <1>1 DEF IsSum, Adds
<1>3. QED
  BY <1>2 DEF F

(* What goes one to one into larger parts adds up to no more.              *)
LEMMA SumInto ==
  ASSUME NEW f, IsFiniteSet(DOMAIN f), \A x \in DOMAIN f : f[x] \in Nat,
         NEW g, IsFiniteSet(DOMAIN g), \A y \in DOMAIN g : g[y] \in Nat,
         NEW S, S \subseteq DOMAIN f, NEW T, T \subseteq DOMAIN g,
         NEW h, \A x \in S : h[x] \in T /\ f[x] <= g[h[x]],
         \A x, y \in S : h[x] = h[y] => x = y
  PROVE  SumOf(f)[S] <= SumOf(g)[T]
<1> DEFINE F == SumOf(f)
           G == SumOf(g)
           B == {s \in SUBSET S : \E t \in SUBSET T :
                   (\A x \in s : h[x] \in t) /\ ~(F[s] <= G[t])}
<1>1. F[{}] = 0 /\ \A s \in SUBSET S : F[s] \in Nat
  BY SumEmpty
<1>2. \A t \in SUBSET T : G[t] \in Nat
  BY SumEmpty
<1>3. \A s \in SUBSET DOMAIN f : \A x \in s : F[s] = f[x] + F[s \ {x}]
  BY SumRemove
<1>4. \A t \in SUBSET DOMAIN g : \A y \in t : G[t] = g[y] + G[t \ {y}]
  BY SumRemove
<1> HIDE DEF F, G
<1>5. B = {}
  <2> SUFFICES ASSUME B # {} PROVE FALSE
    OBVIOUS
  <2>1. B \subseteq SUBSET S /\ IsFiniteSet(S)
    BY FS_Subset
  <2> HIDE DEF B
  <2>2. PICK s \in B : \A q \in B : q \subseteq s => q = s
    BY <2>1, MinimalSet
  <2>3. s \in SUBSET S
    BY <2>1, <2>2
  <2>4. PICK t \in SUBSET T : (\A x \in s : h[x] \in t) /\ ~(F[s] <= G[t])
    BY <2>2 DEF B
  <2>5. s # {}
    BY <1>1, <1>2, <2>4
  <2>6. PICK x \in s : TRUE
    BY <2>5
  <2>7. s \ {x} \notin B /\ s \ {x} \in SUBSET S
    BY <2>2, <2>3, <2>6
  <2>8. t \ {h[x]} \in SUBSET T /\ \A y \in s \ {x} : h[y] \in t \ {h[x]}
    BY <2>3, <2>4
  <2>9. F[s \ {x}] <= G[t \ {h[x]}]
    BY <2>7, <2>8 DEF B
  <2>10. F[s] = f[x] + F[s \ {x}]
    BY <1>3, <2>3
  <2>11. G[t] = g[h[x]] + G[t \ {h[x]}]
    BY <1>4, <2>4
  <2>12. f[x] <= g[h[x]] /\ f[x] \in Nat /\ g[h[x]] \in Nat
    BY <2>3, <2>4
  <2>13. F[s \ {x}] \in Nat /\ G[t \ {h[x]}] \in Nat
    BY <1>1, <1>2, <2>7, <2>8
  <2>14. QED
    BY <2>4, <2>9, <2>10, <2>11, <2>12, <2>13
<1>6. \A x \in S : h[x] \in T
  OBVIOUS
<1>7. F[S] <= G[T]
  BY <1>5, <1>6
<1>8. QED
  BY <1>7 DEF F, G

(* A sum is positive when one of its parts is.                             *)
LEMMA SumPositive ==
  ASSUME NEW f, IsFiniteSet(DOMAIN f), \A x \in DOMAIN f : f[x] \in Nat,
         NEW S, S \subseteq DOMAIN f
  PROVE  SumOf(f)[S] > 0 <=> \E x \in S : f[x] > 0
<1> DEFINE F == SumOf(f)
           B == {s \in SUBSET S : (\A x \in s : f[x] = 0) /\ F[s] # 0}
<1>1. F[{}] = 0 /\ \A s \in SUBSET S : F[s] \in Nat
  BY SumEmpty
<1>2. \A s \in SUBSET DOMAIN f : \A x \in s : F[s] = f[x] + F[s \ {x}]
  BY SumRemove
<1> HIDE DEF F
<1>3. B = {}
  <2> SUFFICES ASSUME B # {} PROVE FALSE
    OBVIOUS
  <2>1. B \subseteq SUBSET S /\ IsFiniteSet(S)
    BY FS_Subset
  <2> HIDE DEF B
  <2>2. PICK s \in B : \A q \in B : q \subseteq s => q = s
    BY <2>1, MinimalSet
  <2>3. s \in SUBSET S /\ (\A x \in s : f[x] = 0) /\ F[s] # 0
    BY <2>2 DEF B
  <2>4. PICK x \in s : TRUE
    BY <1>1, <2>3
  <2>5. s \ {x} \notin B
    BY <2>2
  <2>6. F[s \ {x}] = 0
    BY <2>3, <2>5 DEF B
  <2>7. F[s] = f[x] + F[s \ {x}]
    BY <1>2, <2>3
  <2>8. QED
    BY <2>3, <2>6, <2>7
<1>4. ASSUME NEW x \in S, f[x] > 0 PROVE F[S] > 0
  <2>1. F[S] = f[x] + F[S \ {x}] /\ F[S \ {x}] \in Nat
    BY <1>1, <1>2
  <2>2. f[x] \in Nat
    OBVIOUS
  <2>3. QED
    BY <1>4, <2>1, <2>2
<1>5. ASSUME F[S] > 0 PROVE \E x \in S : f[x] > 0
  <2>1. F[S] # 0
    BY <1>5
  <2>2. PICK x \in S : f[x] # 0
    BY <1>3, <2>1
  <2>3. f[x] > 0
    BY <2>2
  <2>4. QED
    BY <2>3
<1>6. QED
  BY <1>4, <1>5 DEF F

(* The recursion of MapThenSumSet over a part of the domain.               *)
Taken(g, f, S) ==
  [t \in SUBSET S |-> IF t = {} THEN 0
                      ELSE f[CHOOSE x \in t : TRUE] + g[t \ {CHOOSE x \in t : TRUE}]]

(* MapThenSumSet's function exists, and any solution gives the sum.        *)
LEMMA SumTaken ==
  ASSUME NEW f, IsFiniteSet(DOMAIN f), \A x \in DOMAIN f : f[x] \in Nat,
         NEW S, S \subseteq DOMAIN f
  PROVE  /\ \E g : g = Taken(g, f, S)
         /\ \A g : g = Taken(g, f, S) => g[S] = SumOf(f)[S]
<1>1. IsFiniteSet(S)
  BY FS_Subset
<1>2. PICK h : IsSum(h, f, S)
  BY <1>1, SumExists
<1>3. h = Taken(h, f, S)
  <2>1. h = [t \in SUBSET S |-> h[t]]
    BY <1>2 DEF IsSum
  <2>2. \A t \in SUBSET S : h[t] = Taken(h, f, S)[t]
    BY <1>2 DEF IsSum, Adds, Taken
  <2>3. QED
    BY <2>1, <2>2 DEF Taken
<1>4. ASSUME NEW g, g = Taken(g, f, S) PROVE g[S] = SumOf(f)[S]
  <2>1. Adds(g, f, S)
    BY <1>4 DEF Adds, Taken
  <2>2. QED
    BY <2>1, SumSame
<1>5. QED
  BY <1>3, <1>4

LEMMA BucketsFinite == IsFiniteSet(Services) /\ IsFiniteSet(Services \X Seconds)
<1> DEFINE f == [r \in Rows |-> Service[r]]
<1>1. f \in Surjection(Rows, Services)
  BY DEF Surjection, Services
<1>2. IsFiniteSet(Services)
  BY <1>1, RowAssumption, FS_Surjection
<1>3. IsFiniteSet(Seconds)
  <2>1. 0 \in Int /\ End \in Int
    BY SpanAssumption
  <2>2. IsFiniteSet(0..End)
    BY <2>1, FS_Interval
  <2>3. QED
    BY <2>2 DEF Seconds
<1>4. QED
  BY <1>2, <1>3, FS_Product

(* The logs, and the errors, of each bucket as functions.                  *)
LogsOf   == [b \in Services \X Seconds |-> metrics[b].logs]
ErrorsOf == [b \in Services \X Seconds |-> metrics[b].errors]

(* The sums that the queries compute.                                      *)
LEMMA LogsSum ==
  ASSUME TypeOK, NEW S, S \subseteq Services \X Seconds
  PROVE  MapThenSumSet(LAMBDA b : metrics[b].logs, S) = SumOf(LogsOf)[S]
<1>1. PICK m : m = metrics
  OBVIOUS
<1>2. PICK f : f = LogsOf
  OBVIOUS
<1> DEFINE eq(g) == [t \in SUBSET S |-> IF t = {} THEN 0
                       ELSE m[CHOOSE x \in t : TRUE].logs + g[t \ {CHOOSE x \in t : TRUE}]]
           iter == CHOOSE g : g = eq(g)
<1>3. DOMAIN f = Services \X Seconds /\ \A b \in Services \X Seconds : f[b] = m[b].logs
  BY <1>1, <1>2 DEF LogsOf
<1>4. \A x \in DOMAIN f : f[x] \in Nat
  BY <1>1, <1>3 DEF TypeOK
<1>5. ASSUME NEW g PROVE eq(g) = Taken(g, f, S)
  <2>1. ASSUME NEW t \in SUBSET S, t # {}
        PROVE  m[CHOOSE x \in t : TRUE].logs = f[CHOOSE x \in t : TRUE]
    <3>1. (CHOOSE x \in t : TRUE) \in Services \X Seconds
      BY <2>1
    <3>2. QED
      BY <1>3, <3>1
  <2>2. QED
    BY <2>1 DEF Taken
<1>6. MapThenSumSet(LAMBDA b : metrics[b].logs, S) = iter[S]
  BY <1>1 DEF MapThenSumSet, MapThenFoldSet
<1> HIDE DEF eq
<1>7. iter = Taken(iter, f, S)
  BY <1>3, <1>4, <1>5, BucketsFinite, SumTaken
<1> HIDE DEF iter
<1>8. iter[S] = SumOf(f)[S]
  BY <1>3, <1>4, <1>7, BucketsFinite, SumTaken
<1>9. QED
  BY <1>2, <1>6, <1>8

LEMMA ErrorsSum ==
  ASSUME TypeOK, NEW S, S \subseteq Services \X Seconds
  PROVE  MapThenSumSet(LAMBDA b : metrics[b].errors, S) = SumOf(ErrorsOf)[S]
<1>1. PICK m : m = metrics
  OBVIOUS
<1>2. PICK f : f = ErrorsOf
  OBVIOUS
<1> DEFINE eq(g) == [t \in SUBSET S |-> IF t = {} THEN 0
                       ELSE m[CHOOSE x \in t : TRUE].errors + g[t \ {CHOOSE x \in t : TRUE}]]
           iter == CHOOSE g : g = eq(g)
<1>3. DOMAIN f = Services \X Seconds /\ \A b \in Services \X Seconds : f[b] = m[b].errors
  BY <1>1, <1>2 DEF ErrorsOf
<1>4. \A x \in DOMAIN f : f[x] \in Nat
  BY <1>1, <1>3 DEF TypeOK
<1>5. ASSUME NEW g PROVE eq(g) = Taken(g, f, S)
  <2>1. ASSUME NEW t \in SUBSET S, t # {}
        PROVE  m[CHOOSE x \in t : TRUE].errors = f[CHOOSE x \in t : TRUE]
    <3>1. (CHOOSE x \in t : TRUE) \in Services \X Seconds
      BY <2>1
    <3>2. QED
      BY <1>3, <3>1
  <2>2. QED
    BY <2>1 DEF Taken
<1>6. MapThenSumSet(LAMBDA b : metrics[b].errors, S) = iter[S]
  BY <1>1 DEF MapThenSumSet, MapThenFoldSet
<1> HIDE DEF eq
<1>7. iter = Taken(iter, f, S)
  BY <1>3, <1>4, <1>5, BucketsFinite, SumTaken
<1> HIDE DEF iter
<1>8. iter[S] = SumOf(f)[S]
  BY <1>3, <1>4, <1>7, BucketsFinite, SumTaken
<1>9. QED
  BY <1>2, <1>6, <1>8

LEMMA CountsSum ==
  ASSUME NEW rows, rows = GraphRows, IsFiniteSet(DOMAIN rows),
         \A i \in DOMAIN rows : rows[i].count \in Nat
  PROVE  MapThenSumSet(LAMBDA i : GraphRows[i].count, DOMAIN GraphRows)
           = SumOf([i \in DOMAIN rows |-> rows[i].count])[DOMAIN rows]
<1>2. PICK f : f = [i \in DOMAIN rows |-> rows[i].count]
  OBVIOUS
<1> DEFINE S == DOMAIN rows
           eq(g) == [t \in SUBSET S |-> IF t = {} THEN 0
                       ELSE rows[CHOOSE x \in t : TRUE].count + g[t \ {CHOOSE x \in t : TRUE}]]
           iter == CHOOSE g : g = eq(g)
<1>3. DOMAIN f = S /\ \A i \in S : f[i] = rows[i].count
  BY <1>2
<1>4. \A x \in DOMAIN f : f[x] \in Nat
  BY <1>3
<1>5. ASSUME NEW g PROVE eq(g) = Taken(g, f, S)
  <2>1. ASSUME NEW t \in SUBSET S, t # {}
        PROVE  rows[CHOOSE x \in t : TRUE].count = f[CHOOSE x \in t : TRUE]
    <3>1. (CHOOSE x \in t : TRUE) \in S
      BY <2>1
    <3>2. QED
      BY <1>3, <3>1
  <2>2. QED
    BY <2>1 DEF Taken
<1>6. MapThenSumSet(LAMBDA i : GraphRows[i].count, DOMAIN GraphRows) = iter[S]
  BY DEF MapThenSumSet, MapThenFoldSet
<1> HIDE DEF eq
<1>7. iter = Taken(iter, f, S)
  BY <1>3, <1>4, <1>5, SumTaken
<1> HIDE DEF iter
<1>8. iter[S] = SumOf(f)[S]
  BY <1>3, <1>4, <1>7, SumTaken
<1>9. QED
  BY <1>2, <1>6, <1>8

-----------------------------------------------------------------------------
(* Sequences                                                               *)

(* Induction over numbers is by a least counterexample.                    *)
LEMMA LeastElement ==
  ASSUME NEW T, T \subseteq Nat, T # {}
  PROVE  \E x \in T : \A y \in T : x <= y
<1>1. IsWellFoundedOn(OpToRel(<, Nat), Nat)
  BY NatLessThanWellFounded
<1>2. PICK x \in T : \A y \in T : ~(<<y, x>> \in OpToRel(<, Nat))
  BY <1>1, WFMin
<1>3. ASSUME NEW y \in T PROVE x <= y
  <2>1. x \in Nat /\ y \in Nat /\ ~(y < x)
    BY <1>2 DEF OpToRel
  <2>2. QED
    BY <2>1
<1>4. QED
  BY <1>3

(* The maximum of positions, which folds over sequences choose.            *)
LEMMA MaxIn ==
  ASSUME NEW n \in Nat, NEW s, s \subseteq 1..n, s # {}
  PROVE  Max(s) \in s /\ \A y \in s : Max(s) >= y
<1> DEFINE T == {n - x : x \in s}
<1>1. T \subseteq Nat /\ T # {}
  OBVIOUS
<1> HIDE DEF T
<1>2. PICK d \in T : \A y \in T : d <= y
  BY <1>1, LeastElement
<1> USE DEF T
<1>3. PICK m \in s : d = n - m
  BY <1>2
<1>4. ASSUME NEW y \in s PROVE m >= y
  <2>1. n - m <= n - y
    BY <1>2, <1>3
  <2>2. m \in Int /\ y \in Int
    OBVIOUS
  <2>3. QED
    BY <2>1, <2>2
<1>5. \E x \in s : \A y \in s : x >= y
  BY <1>4
<1>6. QED
  BY <1>5 DEF Max

LEMMA MaxPrefix ==
  ASSUME NEW k \in Nat \ {0}
  PROVE  Max(1..k) = k /\ (1..k) \ {k} = 1..(k - 1) /\ 1..k # {}
<1>1. 1..k # {}
  OBVIOUS
<1>2. Max(1..k) \in 1..k /\ \A y \in 1..k : Max(1..k) >= y
  BY <1>1, MaxIn
<1>3. Max(1..k) = k
  BY <1>2
<1>4. (1..k) \ {k} = 1..(k - 1)
  <2>1. \A x : x \in (1..k) \ {k} <=> x \in 1..(k - 1)
    OBVIOUS
  <2>2. QED
    BY <2>1
<1>5. QED
  BY <1>1, <1>3, <1>4

(* FoldLeft goes through the prefixes of the sequence.                     *)
FoldsLeft(g, n, base, step) ==
  \A t \in SUBSET (1..n) :
    g[t] = IF t = {} THEN base ELSE step[<<Max(t), g[t \ {Max(t)}]>>]

LEMMA FoldPrefixes ==
  ASSUME NEW n \in Nat, NEW V, NEW base \in V, NEW step,
         \A i \in 1..n, v \in V : step[<<i, v>>] \in V
  PROVE  \E g \in [SUBSET (1..n) -> V] : FoldsLeft(g, n, base, step)
<1> DEFINE U == 1..n
           ch == [t \in SUBSET U |-> Max(t)]
<1>1. \A t \in SUBSET U : t # {} => ch[t] \in t
  BY MaxIn
<1>2. IsFiniteSet(U)
  BY FS_Interval
<1>3. \A t \in SUBSET U : ch[t] = Max(t)
  OBVIOUS
<1> HIDE DEF ch
<1>4. PICK g \in [SUBSET U -> V] : Folds(g, U, ch, base, step)
  <2> HIDE DEF U
  <2>1. \A x \in U, v \in V : step[<<x, v>>] \in V
    BY DEF U
  <2>2. QED
    BY <1>1, <1>2, <2>1, FoldTyped
<1>5. FoldsLeft(g, n, base, step)
  BY <1>3, <1>4 DEF Folds, FoldsLeft
<1>6. QED
  BY <1>4, <1>5

(* R[k] joins the first k parts.                                           *)
Joins(R, parts, N) == R[0] = <<>> /\ \A k \in 1..N : R[k] = R[k - 1] \o parts[k]

(* FoldLeft with \o joins the parts one after the other.                   *)
LEMMA Joined ==
  ASSUME NEW N \in Nat, NEW V, NEW parts \in [1..N -> Seq(V)]
  PROVE  \E R \in [0..N -> Seq(V)] :
           Joins(R, parts, N) /\ FoldLeft(\o, <<>>, parts) = R[N]
<1> DEFINE step == [z \in (1..N) \X Seq(V) |-> z[2] \o parts[z[1]]]
           eq(g) == [t \in SUBSET (1..N) |-> IF t = {} THEN <<>>
                       ELSE g[t \ {Max(t)}] \o parts[Max(t)]]
<1>1. ASSUME NEW i \in 1..N, NEW v \in Seq(V)
      PROVE  step[<<i, v>>] = v \o parts[i] /\ step[<<i, v>>] \in Seq(V)
  <2>1. step[<<i, v>>] = v \o parts[i]
    OBVIOUS
  <2>2. v \o parts[i] \in Seq(V)
    BY ConcatProperties
  <2>3. QED
    BY <2>1, <2>2
<1> HIDE DEF step
<1>2. <<>> \in Seq(V)
  OBVIOUS
<1>3. PICK g \in [SUBSET (1..N) -> Seq(V)] :
        \A t \in SUBSET (1..N) :
          g[t] = IF t = {} THEN <<>> ELSE step[<<Max(t), g[t \ {Max(t)}]>>]
  <2> DEFINE W == Seq(V)
             none == <<>>
  <2>0. none \in W
    BY <1>2
  <2>1. \A i \in 1..N, v \in W : step[<<i, v>>] \in W
    BY <1>1
  <2> HIDE DEF W, none
  <2>2. N \in Nat
    BY N \in Nat
  <2>3. \E g \in [SUBSET (1..N) -> W] : FoldsLeft(g, N, none, step)
    BY <2>0, <2>1, <2>2, FoldPrefixes
  <2>4. QED
    BY <2>3 DEF W, none, FoldsLeft
<1>4. g = eq(g)
  <2>1. ASSUME NEW t \in SUBSET (1..N), t # {}
        PROVE  g[t] = g[t \ {Max(t)}] \o parts[Max(t)]
    <3>1. Max(t) \in 1..N /\ g[t \ {Max(t)}] \in Seq(V)
      BY <2>1, MaxIn
    <3>2. g[t] = step[<<Max(t), g[t \ {Max(t)}]>>]
      BY <1>3, <2>1
    <3>3. QED
      BY <1>1, <3>1, <3>2
  <2>2. g[{}] = <<>>
    BY <1>3
  <2>3. QED
    BY <2>1, <2>2
<1> DEFINE iter == CHOOSE h : h = eq(h)
<1>5. iter = eq(iter)
  BY <1>4
<1>6. FoldLeft(\o, <<>>, parts) = iter[1..N]
  BY DEF FoldLeft, MapThenFoldSet
<1> HIDE DEF iter
<1>7. iter[1..0] = <<>>
  BY <1>5
<1>8. ASSUME NEW k \in 1..N PROVE iter[1..k] = iter[1..(k - 1)] \o parts[k]
  <2>1. 1..k \in SUBSET (1..N) /\ k \in Nat \ {0}
    OBVIOUS
  <2>2. Max(1..k) = k /\ (1..k) \ {k} = 1..(k - 1) /\ 1..k # {}
    BY <2>1, MaxPrefix
  <2>3. iter[1..k] = iter[(1..k) \ {Max(1..k)}] \o parts[Max(1..k)]
    BY <1>5, <2>1, <2>2
  <2>4. QED
    BY <2>2, <2>3
<1> HIDE DEF eq
<1>9. \A k \in 0..N : iter[1..k] \in Seq(V)
  <2> DEFINE T == {k \in 0..N : iter[1..k] \notin Seq(V)}
  <2> SUFFICES ASSUME T # {} PROVE FALSE
    OBVIOUS
  <2>1. T \subseteq Nat
    OBVIOUS
  <2> HIDE DEF T
  <2>2. PICK k \in T : \A y \in T : k <= y
    BY <2>1, LeastElement
  <2> USE DEF T
  <2>3. k # 0
    BY <1>2, <1>7, <2>2
  <2>4. k - 1 \in 0..N /\ k \in 1..N /\ k - 1 \notin T
    BY <2>2, <2>3
  <2>5. iter[1..(k - 1)] \in Seq(V) /\ iter[1..k] = iter[1..(k - 1)] \o parts[k]
    BY <1>8, <2>4
  <2>6. iter[1..k] \in Seq(V)
    BY <2>4, <2>5, ConcatProperties
  <2>7. QED
    BY <2>2, <2>6
<1> DEFINE R == [k \in 0..N |-> iter[1..k]]
<1>10. R \in [0..N -> Seq(V)]
  BY <1>9
<1>11. R[0] = <<>> /\ R[N] = iter[1..N] /\ \A k \in 1..N : R[k] = R[k - 1] \o parts[k]
  <2>1. \A k \in 1..N : k \in 0..N /\ k - 1 \in 0..N
    OBVIOUS
  <2>2. 0 \in 0..N /\ N \in 0..N
    OBVIOUS
  <2>3. QED
    BY <1>7, <1>8, <2>1, <2>2
<1> HIDE DEF R
<1>12. QED
  BY <1>6, <1>10, <1>11 DEF Joins

(* R[k] has the rows of s among the first k.                               *)
Selects(R, rows, s) ==
  /\ R[0] = <<>>
  /\ \A k \in 1..Len(rows) :
       R[k] = IF rows[k].service = s THEN Append(R[k - 1], rows[k]) ELSE R[k - 1]

(* SeriesOf appends the rows of a service one after the other.             *)
LEMMA Selected ==
  ASSUME NEW V, NEW rows \in Seq(V), NEW s
  PROVE  \E R \in [0..Len(rows) -> Seq(V)] :
           Selects(R, rows, s) /\ SeriesOf(s, rows) = R[Len(rows)]
<1> DEFINE N == Len(rows)
           add(list, row) == IF row.service = s THEN Append(list, row) ELSE list
           step == [z \in (1..N) \X Seq(V) |-> add(z[2], rows[z[1]])]
           eq(g) == [t \in SUBSET (1..N) |-> IF t = {} THEN <<>>
                       ELSE add(g[t \ {Max(t)}], rows[Max(t)])]
<1>0. N \in Nat /\ DOMAIN rows = 1..N /\ \A i \in 1..N : rows[i] \in V
  OBVIOUS
<1>1. ASSUME NEW i \in 1..N, NEW v \in Seq(V)
      PROVE  step[<<i, v>>] = add(v, rows[i]) /\ step[<<i, v>>] \in Seq(V)
  <2>1. step[<<i, v>>] = add(v, rows[i])
    OBVIOUS
  <2>2. Append(v, rows[i]) \in Seq(V)
    BY <1>0, AppendProperties
  <2>3. QED
    BY <2>1, <2>2
<1> HIDE DEF step, N
<1>2. <<>> \in Seq(V)
  OBVIOUS
<1>3. PICK g \in [SUBSET (1..N) -> Seq(V)] :
        \A t \in SUBSET (1..N) :
          g[t] = IF t = {} THEN <<>> ELSE step[<<Max(t), g[t \ {Max(t)}]>>]
  <2> DEFINE W == Seq(V)
             none == <<>>
  <2>0. none \in W
    BY <1>2
  <2>1. \A i \in 1..N, v \in W : step[<<i, v>>] \in W
    BY <1>1
  <2> HIDE DEF W, none
  <2>2. N \in Nat
    BY <1>0
  <2>3. \E g \in [SUBSET (1..N) -> W] : FoldsLeft(g, N, none, step)
    BY <2>0, <2>1, <2>2, FoldPrefixes
  <2>4. QED
    BY <2>3 DEF W, none, FoldsLeft
<1>4. g = eq(g)
  <2>1. ASSUME NEW t \in SUBSET (1..N), t # {}
        PROVE  g[t] = add(g[t \ {Max(t)}], rows[Max(t)])
    <3>1. Max(t) \in 1..N /\ g[t \ {Max(t)}] \in Seq(V)
      BY <1>0, <2>1, MaxIn
    <3>2. g[t] = step[<<Max(t), g[t \ {Max(t)}]>>]
      BY <1>3, <2>1
    <3>3. QED
      BY <1>1, <3>1, <3>2
  <2>2. g[{}] = <<>>
    BY <1>3
  <2> HIDE DEF add
  <2>3. QED
    BY <2>1, <2>2
<1> DEFINE iter == CHOOSE h : h = eq(h)
<1>5. iter = eq(iter)
  BY <1>4
<1>6. SeriesOf(s, rows) = iter[1..N]
  BY <1>0 DEF SeriesOf, FoldLeft, MapThenFoldSet
<1> HIDE DEF iter, add
<1>7. iter[1..0] = <<>>
  BY <1>0, <1>5
<1>8. ASSUME NEW k \in 1..N PROVE iter[1..k] = add(iter[1..(k - 1)], rows[k])
  <2>1. 1..k \in SUBSET (1..N) /\ k \in Nat \ {0}
    BY <1>0
  <2>2. Max(1..k) = k /\ (1..k) \ {k} = 1..(k - 1) /\ 1..k # {}
    BY <2>1, MaxPrefix
  <2>3. iter[1..k] = add(iter[(1..k) \ {Max(1..k)}], rows[Max(1..k)])
    BY <1>5, <2>1, <2>2
  <2>4. QED
    BY <2>2, <2>3
<1> HIDE DEF eq
<1>9. \A k \in 0..N : iter[1..k] \in Seq(V)
  <2> DEFINE T == {k \in 0..N : iter[1..k] \notin Seq(V)}
  <2> SUFFICES ASSUME T # {} PROVE FALSE
    OBVIOUS
  <2>1. T \subseteq Nat
    BY <1>0
  <2> HIDE DEF T
  <2>2. PICK k \in T : \A y \in T : k <= y
    BY <2>1, LeastElement
  <2> USE DEF T
  <2>3. k # 0
    BY <1>0, <1>2, <1>7, <2>2
  <2>4. k - 1 \in 0..N /\ k \in 1..N /\ k - 1 \notin T
    BY <1>0, <2>2, <2>3
  <2>5. iter[1..(k - 1)] \in Seq(V) /\ iter[1..k] = add(iter[1..(k - 1)], rows[k])
    BY <1>0, <1>8, <2>4
  <2>6. Append(iter[1..(k - 1)], rows[k]) \in Seq(V)
    BY <1>0, <2>4, <2>5, AppendProperties
  <2>7. iter[1..k] \in Seq(V)
    BY <2>5, <2>6 DEF add
  <2>8. QED
    BY <2>2, <2>7
<1> DEFINE R == [k \in 0..N |-> iter[1..k]]
<1>10. R \in [0..N -> Seq(V)]
  BY <1>9
<1>11. R[0] = <<>> /\ R[N] = iter[1..N] /\ \A k \in 1..N : R[k] = add(R[k - 1], rows[k])
  <2>1. \A k \in 1..N : k \in 0..N /\ k - 1 \in 0..N
    BY <1>0
  <2>2. 0 \in 0..N /\ N \in 0..N
    BY <1>0
  <2>3. QED
    BY <1>7, <1>8, <2>1, <2>2
<1> HIDE DEF R
<1>12. QED
  BY <1>6, <1>10, <1>11 DEF N, add, Selects

(* The sequence Ordered chooses exists.                                    *)
LEMMA OrderedIs ==
  ASSUME NEW S, IsFiniteSet(S), NEW key, NEW high \in Int,
         \A x \in S : key[x] \in Int /\ key[x] <= high
  PROVE  /\ Ordered(S, key) \in [1..Cardinality(S) -> S]
         /\ \A i, j \in 1..Cardinality(S) : Ordered(S, key)[i] = Ordered(S, key)[j] => i = j
         /\ \A i, j \in 1..Cardinality(S) :
              i < j => key[Ordered(S, key)[i]] <= key[Ordered(S, key)[j]]
<1> DEFINE sorted(s) == \A i, j \in DOMAIN s : i < j => key[s[i]] <= key[s[j]]
           B == {T \in SUBSET S : ~\E s \in SetToSeqs(T) : sorted(s)}
<1>1. B = {}
  <2> SUFFICES ASSUME B # {} PROVE FALSE
    OBVIOUS
  <2>1. B \subseteq SUBSET S
    OBVIOUS
  <2> HIDE DEF B
  <2>2. PICK T \in B : \A q \in B : q \subseteq T => q = T
    BY <2>1, MinimalSet
  <2>3. T \in SUBSET S /\ IsFiniteSet(T)
    BY <2>1, <2>2, FS_Subset
  <2>4. T # {}
    <3> SUFFICES ASSUME T = {} PROVE FALSE
      OBVIOUS
    <3>1. Cardinality(T) = 0
      BY FS_EmptySet
    <3>2. <<>> \in [1..0 -> T] /\ DOMAIN <<>> = {}
      OBVIOUS
    <3>3. <<>> \in SetToSeqs(T)
      BY <3>1, <3>2 DEF SetToSeqs
    <3>4. sorted(<<>>)
      OBVIOUS
    <3>5. QED
      BY <2>2, <3>3, <3>4 DEF B
  <2>5. PICK x \in T : \A y \in T : key[y] <= key[x]
    <3> DEFINE D == {high - key[y] : y \in T}
    <3>1. D \subseteq Nat /\ D # {}
      BY <2>3, <2>4
    <3> HIDE DEF D
    <3>2. PICK d \in D : \A y \in D : d <= y
      BY <3>1, LeastElement
    <3> USE DEF D
    <3>3. PICK x \in T : d = high - key[x]
      BY <3>2
    <3>4. ASSUME NEW y \in T PROVE key[y] <= key[x]
      <4>1. high - key[x] <= high - key[y]
        BY <3>2, <3>3
      <4>2. key[x] \in Int /\ key[y] \in Int
        BY <2>3
      <4>3. QED
        BY <4>1, <4>2
    <3>5. QED
      BY <3>4
  <2> DEFINE U == T \ {x}
             n == Cardinality(U)
  <2>6. U \notin B /\ U \in SUBSET S /\ IsFiniteSet(U) /\ n \in Nat /\ Cardinality(T) = n + 1
    <3>1. U \notin B
      BY <2>2, <2>5
    <3>2. IsFiniteSet(U) /\ n = Cardinality(T) - 1 /\ Cardinality(T) \in Nat
      BY <2>3, <2>5, FS_RemoveElement, FS_CardinalityType
    <3>3. n \in Nat
      BY <3>2, FS_CardinalityType
    <3> HIDE DEF n
    <3>4. QED
      BY <2>3, <3>1, <3>2, <3>3
  <2>7. PICK s \in SetToSeqs(U) : sorted(s)
    BY <2>6 DEF B
  <2>8. s \in [1..n -> U] /\ \A i, j \in 1..n : i # j => s[i] # s[j]
    BY <2>7 DEF SetToSeqs
  <2> DEFINE e == [i \in 1..(n + 1) |-> IF i = n + 1 THEN x ELSE s[i]]
  <2>9. \A i \in 1..(n + 1) : i # n + 1 => i \in 1..n /\ e[i] = s[i] /\ e[i] \in U
    <3> HIDE DEF n, U
    <3>1. \A i \in 1..(n + 1) : i # n + 1 => i \in 1..n
      BY <2>6
    <3>2. \A i \in 1..(n + 1) : i # n + 1 => e[i] = s[i]
      OBVIOUS
    <3>3. \A i \in 1..n : s[i] \in U
      BY <2>8
    <3> HIDE DEF e
    <3>4. QED
      BY <3>1, <3>2, <3>3
  <2>10. n + 1 \in 1..(n + 1) /\ e[n + 1] = x
    BY <2>6
  <2> HIDE DEF n
  <2>11. e \in [1..(n + 1) -> T]
    BY <2>6, <2>8
  <2>12. \A i, j \in 1..(n + 1) : i # j => e[i] # e[j]
    <3> HIDE DEF e
    <3> QED
      BY <2>8, <2>9, <2>10
  <2>13. e \in SetToSeqs(T)
    <3> HIDE DEF e
    <3>1. Cardinality(T) = n + 1
      BY <2>6
    <3>2. QED
      BY <2>11, <2>12, <3>1 DEF SetToSeqs
  <2>14. DOMAIN e = 1..(n + 1) /\ DOMAIN s = 1..n
    BY <2>8
  <2>15. sorted(e)
    <3> SUFFICES ASSUME NEW i \in 1..(n + 1), NEW j \in 1..(n + 1), i < j
                 PROVE  key[e[i]] <= key[e[j]]
      BY <2>14
    <3>1. i # n + 1
      BY <2>6
    <3> HIDE DEF e
    <3>2. CASE j = n + 1
      BY <2>5, <2>9, <2>10, <3>1, <3>2
    <3>3. CASE j # n + 1
      <4>1. e[i] = s[i] /\ e[j] = s[j] /\ i \in 1..n /\ j \in 1..n
        BY <2>9, <3>1, <3>3
      <4>2. QED
        BY <2>7, <2>14, <4>1
    <3>4. QED
      BY <3>2, <3>3
  <2>16. QED
    BY <2>2, <2>13, <2>15 DEF B
<1>2. \E s \in SetToSeqs(S) : sorted(s)
  BY <1>1
<1>3. Ordered(S, key) \in SetToSeqs(S) /\ sorted(Ordered(S, key))
  BY <1>2 DEF Ordered
<1> DEFINE o == Ordered(S, key)
<1>4. o \in [1..Cardinality(S) -> S] /\ \A i, j \in 1..Cardinality(S) : i # j => o[i] # o[j]
  BY <1>3 DEF SetToSeqs
<1>5. DOMAIN o = 1..Cardinality(S)
  BY <1>4
<1>6. \A i, j \in 1..Cardinality(S) : i < j => key[o[i]] <= key[o[j]]
  BY <1>3, <1>5
<1> HIDE DEF o
<1>7. QED
  BY <1>4, <1>6 DEF o

-----------------------------------------------------------------------------
(* The rows of the graph                                                   *)

(* Where the k-th of the blocks of G rows begins.                          *)
Place(k, G) == (k - 1) * G

LEMMA Places ==
  ASSUME NEW G \in Nat
  PROVE  /\ Place(1, G) = 0
         /\ \A k \in Nat : Place(k + 1, G) = Place(k, G) + G
         /\ \A k \in Nat \ {0} : Place(k, G) \in Nat
<1>1. Place(1, G) = 0
  BY DEF Place
<1>2. ASSUME NEW k \in Nat PROVE Place(k + 1, G) = Place(k, G) + G
  BY DEF Place
<1>3. ASSUME NEW k \in Nat \ {0} PROVE Place(k, G) \in Nat
  <2>1. k - 1 \in Nat
    OBVIOUS
  <2>2. (k - 1) * G \in Nat
    BY <2>1
  <2>3. QED
    BY <2>2 DEF Place
<1>4. QED
  BY <1>1, <1>2, <1>3

(* Parts of length G that follow each other make up all.                   *)
InParts(all, parts, N, G) ==
  /\ Len(all) = Place(N + 1, G)
  /\ \A k \in 1..N, j \in 1..G :
       Place(k, G) + j \in 1..Len(all) /\ all[Place(k, G) + j] = parts[k][j]
  /\ \A i \in 1..Len(all) : \E k \in 1..N, j \in 1..G : i = Place(k, G) + j

LEMMA Blocks ==
  ASSUME NEW N \in Nat, NEW G \in Nat, NEW V, NEW parts \in [1..N -> Seq(V)],
         \A k \in 1..N : Len(parts[k]) = G,
         NEW R \in [0..N -> Seq(V)], Joins(R, parts, N),
         NEW all, all = R[N]
  PROVE  all \in Seq(V) /\ InParts(all, parts, N, G)
<1> DEFINE off(k) == Place(k, G)
<1>1. off(1) = 0 /\ (\A k \in Nat : off(k + 1) = off(k) + G) /\ \A k \in Nat \ {0} : off(k) \in Nat
  BY Places
<1>2. R[0] = <<>> /\ \A k \in 1..N : R[k] = R[k - 1] \o parts[k]
  BY DEF Joins
<1> DEFINE good(m) ==
             /\ Len(R[m]) = off(m + 1)
             /\ \A k \in 1..m, j \in 1..G :
                  off(k) + j \in 1..Len(R[m]) /\ R[m][off(k) + j] = parts[k][j]
             /\ \A i \in 1..Len(R[m]) : \E k \in 1..m, j \in 1..G : i = off(k) + j
           T == {m \in 0..N : ~good(m)}
<1> HIDE DEF off
<1>3. good(0)
  <2>1. R[0] = <<>> /\ Len(R[0]) = 0
    BY <1>2
  <2>2. off(0 + 1) = 0
    BY <1>1
  <2>3. 1..0 = {}
    OBVIOUS
  <2>4. QED
    BY <2>1, <2>2, <2>3
<1>4. ASSUME NEW m \in 1..N, good(m - 1) PROVE good(m)
  <2>1. m - 1 \in 0..N /\ m \in 0..N /\ m \in Nat \ {0} /\ m - 1 + 1 = m /\ m - 1 \in Nat
    OBVIOUS
  <2> DEFINE p == R[m - 1]
             q == parts[m]
  <2>2. p \in Seq(V) /\ q \in Seq(V) /\ R[m] = p \o q /\ Len(q) = G
    BY <1>2, <2>1
  <2>3. Len(p) = off(m) /\ off(m) \in Nat /\ off(m + 1) = off(m) + G
    BY <1>1, <1>4, <2>1
  <2> HIDE DEF p, q
  <2>4. /\ Len(p \o q) = Len(p) + Len(q)
        /\ \A i \in 1..Len(p) + Len(q) :
             (p \o q)[i] = IF i <= Len(p) THEN p[i] ELSE q[i - Len(p)]
    BY <2>2, ConcatProperties
  <2>5. Len(R[m]) = off(m + 1)
    BY <2>2, <2>3, <2>4
  <2>6. ASSUME NEW k \in 1..m, NEW j \in 1..G
        PROVE  off(k) + j \in 1..Len(R[m]) /\ R[m][off(k) + j] = parts[k][j]
    <3>1. CASE k = m
      <4>0. off(k) = off(m)
        BY <3>1
      <4>1. off(k) + j \in 1..(off(m) + G) /\ ~(off(k) + j <= off(m)) /\ (off(k) + j) - off(m) = j
        BY <2>3, <4>0
      <4>a. off(k) + j \in 1..Len(p) + Len(q) /\ ~(off(k) + j <= Len(p)) /\ (off(k) + j) - Len(p) = j
        BY <2>2, <2>3, <4>1
      <4>2. (p \o q)[off(k) + j] = q[j]
        <5> DEFINE x == off(k) + j
        <5>1. x \in 1..Len(p) + Len(q) /\ ~(x <= Len(p)) /\ x - Len(p) = j
          BY <4>a
        <5> HIDE DEF x
        <5>2. (p \o q)[x] = IF x <= Len(p) THEN p[x] ELSE q[x - Len(p)]
          BY <2>4, <5>1
        <5>3. (p \o q)[x] = q[j]
          BY <5>1, <5>2
        <5>4. QED
          BY <5>3 DEF x
      <4>3. QED
        BY <2>2, <2>3, <2>5, <3>1, <4>1, <4>2 DEF q
    <3>2. CASE k # m
      <4>1. k \in 1..(m - 1)
        BY <3>2
      <4>2. off(k) + j \in 1..Len(p) /\ p[off(k) + j] = parts[k][j]
        BY <1>4, <4>1 DEF p
      <4>3. off(k) + j \in 1..(off(m) + G) /\ off(k) + j <= off(m)
        BY <2>3, <4>2
      <4>4. (p \o q)[off(k) + j] = p[off(k) + j]
        BY <2>2, <2>3, <2>4, <4>3
      <4>5. QED
        BY <2>2, <2>3, <2>5, <4>2, <4>3, <4>4
    <3>3. QED
      BY <3>1, <3>2
  <2>7. ASSUME NEW i \in 1..Len(R[m]) PROVE \E k \in 1..m, j \in 1..G : i = off(k) + j
    <3>1. CASE i <= Len(p)
      <4>1. i \in 1..Len(p)
        BY <2>3, <2>5, <3>1
      <4>2. PICK k \in 1..(m - 1), j \in 1..G : i = off(k) + j
        BY <1>4, <4>1 DEF p
      <4>3. k \in 1..m
        OBVIOUS
      <4>4. QED
        BY <4>2, <4>3
    <3>2. CASE ~(i <= Len(p))
      <4>0. i \in 1..(off(m) + G) /\ ~(i <= off(m))
        BY <2>3, <2>5, <3>2
      <4>a. i \in Int /\ i <= off(m) + G /\ i > off(m)
        BY <2>3, <4>0
      <4>1. i - off(m) \in 1..G /\ i = off(m) + (i - off(m))
        BY <2>3, <4>a
      <4>b. m \in 1..m
        OBVIOUS
      <4>2. QED
        BY <4>1, <4>b
    <3>3. QED
      BY <3>1, <3>2
  <2>8. QED
    BY <2>5, <2>6, <2>7
<1> HIDE DEF good
<1>5. T = {}
  <2> SUFFICES ASSUME T # {} PROVE FALSE
    OBVIOUS
  <2>1. T \subseteq Nat
    OBVIOUS
  <2> HIDE DEF T
  <2>2. PICK m \in T : \A y \in T : m <= y
    BY <2>1, LeastElement
  <2> USE DEF T
  <2>3. m # 0
    BY <1>3, <2>2
  <2>4. m \in 1..N /\ m - 1 \in 0..N /\ m - 1 \notin T
    BY <2>2, <2>3
  <2>5. QED
    BY <1>4, <2>2, <2>4
<1>6. good(N)
  <2>1. N \in 0..N
    OBVIOUS
  <2>2. QED
    BY <1>5, <2>1
<1>7. all \in Seq(V) /\ all = R[N]
  BY <1>2
<1>8. QED
  BY <1>6, <1>7 DEF good, off, InParts

(* The rows of one service, when they stand together.                      *)
Together(rows, s, lo, G) ==
  /\ lo + G <= Len(rows)
  /\ \A n \in 1..Len(rows) : rows[n].service = s <=> n \in (lo + 1)..(lo + G)

(* The rows of one service are selected.                                   *)
SelectsIn(R, rows, s, V) ==
  rows \in Seq(V) /\ R \in [0..Len(rows) -> Seq(V)] /\ Selects(R, rows, s)
IsBlock(list, rows, lo, G) == Len(list) = G /\ \A j \in 1..G : list[j] = rows[lo + j]

(* When they stand together, they are selected in their order.             *)
LEMMA SelectedBlock ==
  ASSUME NEW V, NEW rows, NEW s, NEW lo \in Nat, NEW G \in Nat,
         Together(rows, s, lo, G), NEW R, SelectsIn(R, rows, s, V)
  PROVE  IsBlock(R[Len(rows)], rows, lo, G)
<1> DEFINE N == Len(rows)
           list == R[N]
<1>0. N \in Nat
  BY DEF SelectsIn
<1>1. /\ R \in [0..N -> Seq(V)] /\ R[0] = <<>> /\ list = R[N]
      /\ \A k \in 1..N :
           R[k] = IF rows[k].service = s THEN Append(R[k - 1], rows[k]) ELSE R[k - 1]
  BY DEF Selects, SelectsIn
<1> HIDE DEF list
<1> DEFINE size(k) == IF k <= lo THEN 0 ELSE IF k <= lo + G THEN k - lo ELSE G
           good(k) == Len(R[k]) = size(k) /\ \A j \in 1..size(k) : R[k][j] = rows[lo + j]
           T == {k \in 0..N : ~good(k)}
<1>a. \A k \in 1..N : rows[k].service = s <=> k \in (lo + 1)..(lo + G)
  BY DEF Together
<1>b. lo + G <= N
  BY DEF Together
<1>c. \A k \in 1..N : rows[k] \in V
  BY DEF SelectsIn
<1> HIDE DEF N
<1>2. good(0)
  <2>1. size(0) = 0 /\ Len(R[0]) = 0 /\ 1..0 = {}
    BY <1>1
  <2>2. QED
    BY <2>1
<1>3. ASSUME NEW k \in 1..N, good(k - 1) PROVE good(k)
  <2>1. k \in 0..N /\ k - 1 \in 0..N /\ k \in Nat
    BY <1>0
  <2>2. R[k - 1] \in Seq(V)
    BY <1>1, <2>1
  <2>3. CASE k \in (lo + 1)..(lo + G)
    <3>1. R[k] = Append(R[k - 1], rows[k])
      BY <1>1, <1>a, <2>3
    <3>2. size(k) = size(k - 1) + 1 /\ size(k - 1) = k - 1 - lo /\ size(k) = k - lo /\ size(k - 1) \in Nat
      BY <2>1, <2>3
    <3> HIDE DEF size
    <3>3. Len(R[k - 1]) = size(k - 1) /\ \A j \in 1..size(k - 1) : R[k - 1][j] = rows[lo + j]
      BY <1>3
    <3>4. /\ Len(R[k]) = Len(R[k - 1]) + 1 /\ R[k][Len(R[k - 1]) + 1] = rows[k]
          /\ \A j \in 1..Len(R[k - 1]) : R[k][j] = R[k - 1][j]
      BY <1>c, <2>2, <3>1, AppendProperties
    <3>5. ASSUME NEW j \in 1..size(k) PROVE R[k][j] = rows[lo + j]
      <4>1. CASE j = size(k)
        <5>1. lo + j = k
          BY <3>2, <4>1
        <5>2. QED
          BY <3>2, <3>3, <3>4, <4>1, <5>1
      <4>2. CASE j # size(k)
        <5>1. j \in 1..size(k - 1)
          BY <3>2, <4>2
        <5>2. QED
          BY <3>3, <3>4, <5>1
      <4>3. QED
        BY <4>1, <4>2
    <3>6. QED
      BY <3>2, <3>3, <3>4, <3>5
  <2>4. CASE k \notin (lo + 1)..(lo + G)
    <3>1. R[k] = R[k - 1]
      BY <1>1, <1>a, <2>4
    <3>2. size(k) = size(k - 1)
      BY <2>1, <2>4
    <3>3. QED
      BY <1>3, <3>1, <3>2
  <2>5. QED
    BY <2>3, <2>4
<1> HIDE DEF good
<1>4. T = {}
  <2> SUFFICES ASSUME T # {} PROVE FALSE
    OBVIOUS
  <2>1. T \subseteq Nat
    BY <1>0
  <2> HIDE DEF T
  <2>2. PICK m \in T : \A y \in T : m <= y
    BY <2>1, LeastElement
  <2> USE DEF T
  <2>3. m # 0
    BY <1>2, <2>2
  <2>4. m \in 1..N /\ m - 1 \in 0..N /\ m - 1 \notin T
    BY <1>0, <2>2, <2>3
  <2>5. QED
    BY <1>3, <2>2, <2>4
<1>5. good(N)
  BY <1>0, <1>4
<1>6. size(N) = G
  BY <1>0, <1>b
<1> HIDE DEF size
<1>7. IsBlock(list, rows, lo, G)
  BY <1>1, <1>5, <1>6 DEF good, IsBlock
<1>8. QED
  BY <1>7 DEF list, N

(* The axis of the graph, the services on it, and the rows of each.        *)
Span   == (now - Graph)..(now - 1)
Axis   == Ordered(Span, [t \in Span |-> t])
Having(s) == {t \in Seconds : InGraph(t) /\ metrics[<<s, t>>].logs > 0}
Named  == {s \in Services : Having(s) # {}}
RowsOf(s) == [i \in 1..Graph |->
               [second |-> Axis[i], service |-> s, count |-> metrics[<<s, Axis[i]>>].logs]]
RowSet == [second : Int, service : Nat, count : Nat]
Parts  == [k \in 1..Cardinality(Named) |-> RowsOf(SetToSeq(Named)[k])]

(* The axis has the seconds of the span, each once.                        *)
LEMMA AxisIs ==
  ASSUME TypeOK
  PROVE  /\ Graph \in Nat \ {0} /\ now \in Nat /\ Span \subseteq Seconds
         /\ Axis \in [1..Graph -> Span]
         /\ \A i, j \in 1..Graph : Axis[i] = Axis[j] => i = j
<1>1. /\ Graph \in Nat \ {0} /\ Begin \in Nat /\ End \in Nat
      /\ Graph <= Begin /\ now \in Begin..End
  BY SpanAssumption DEF TypeOK
<1>2. now \in Nat /\ now - Graph \in Int /\ now - 1 \in Int /\ ~(now - Graph > now - 1)
  BY <1>1
<1>3. Span \subseteq Seconds
  BY <1>1 DEF Span, Seconds
<1>4. IsFiniteSet(Span) /\ Cardinality(Span) = (now - 1) - (now - Graph) + 1
  BY <1>2, FS_Interval DEF Span
<1>5. Cardinality(Span) = Graph
  BY <1>1, <1>2, <1>4
<1> DEFINE key == [t \in Span |-> t]
<1>6. \A t \in Span : key[t] \in Int /\ key[t] <= now - 1
  BY <1>2 DEF Span
<1>7. Axis = Ordered(Span, key)
  BY DEF Axis
<1> HIDE DEF key
<1>8. /\ Axis \in [1..Cardinality(Span) -> Span]
      /\ \A i, j \in 1..Cardinality(Span) : Axis[i] = Axis[j] => i = j
  BY <1>2, <1>4, <1>6, <1>7, OrderedIs
<1>9. QED
  BY <1>1, <1>2, <1>3, <1>5, <1>8

(* SetToSeq has each element once.                                         *)
LEMMA NamesInOrder ==
  ASSUME NEW S, IsFiniteSet(S)
  PROVE  /\ Cardinality(S) \in Nat /\ (S # {} => Cardinality(S) # 0)
         /\ SetToSeq(S) \in [1..Cardinality(S) -> S]
         /\ \A i, j \in 1..Cardinality(S) : SetToSeq(S)[i] = SetToSeq(S)[j] => i = j
<1>1. Cardinality(S) \in Nat /\ ExistsBijection(1..Cardinality(S), S)
  BY FS_CardinalityType
<1>2. \E f \in [1..Cardinality(S) -> S] : IsInjective(f)
  BY <1>1 DEF ExistsBijection, Bijection, Injection, IsInjective
<1>3. SetToSeq(S) \in [1..Cardinality(S) -> S] /\ IsInjective(SetToSeq(S))
  BY <1>2 DEF SetToSeq
<1>4. S # {} => Cardinality(S) # 0
  BY FS_EmptySet
<1>5. QED
  BY <1>1, <1>3, <1>4 DEF IsInjective

(* GraphRows in these terms: no service has a second beyond the axis.      *)
LEMMA GraphRowsAre ==
  ASSUME TypeOK
  PROVE  /\ Named = {} => GraphRows =
              [i \in 1..Graph |-> [second |-> now - Graph + i - 1, service |-> NoService, count |-> 0]]
         /\ Named # {} => GraphRows = FoldLeft(\o, <<>>, Parts)
<1> DEFINE filled(s) == Ordered(Span \cup Having(s), [t \in Span \cup Having(s) |-> t])
           rowsOf(s) == [i \in DOMAIN filled(s) |->
                           [second |-> filled(s)[i], service |-> s,
                            count |-> metrics[<<s, filled(s)[i]>>].logs]]
           parts == [k \in 1..Cardinality(Named) |-> rowsOf(SetToSeq(Named)[k])]
<1>1. GraphRows = IF Named = {}
        THEN [i \in 1..Graph |-> [second |-> now - Graph + i - 1, service |-> NoService, count |-> 0]]
        ELSE FoldLeft(\o, <<>>, parts)
  BY DEF GraphRows, Named, Having, Span
<1>2. ASSUME NEW s PROVE rowsOf(s) = RowsOf(s)
  <2>1. now \in Int /\ Graph \in Int
    BY AxisIs
  <2>2. Having(s) \subseteq Span
    BY <2>1 DEF Having, Span, InGraph, Seconds
  <2>3. Span \cup Having(s) = Span
    BY <2>2
  <2>4. filled(s) = Axis
    BY <2>3 DEF Axis
  <2>5. DOMAIN Axis = 1..Graph
    BY AxisIs
  <2> HIDE DEF filled
  <2>6. QED
    BY <2>4, <2>5 DEF RowsOf
<1>3. parts = Parts
  BY <1>2 DEF Parts
<1> HIDE DEF parts
<1>4. QED
  BY <1>1, <1>3

(* Graph rows for every service, one after the other.                      *)
InBlocks(rows, e) ==
  LET N == Cardinality(Named)
  IN  /\ Len(rows) = Place(N + 1, Graph)
      /\ \A k \in 1..N, j \in 1..Graph :
           Place(k, Graph) + j \in 1..Len(rows) /\ rows[Place(k, Graph) + j] = RowsOf(e[k])[j]
      /\ \A i \in 1..Len(rows) : \E k \in 1..N, j \in 1..Graph : i = Place(k, Graph) + j

(* The rows of the graph are blocks, or the axis without a service.        *)
LEMMA GraphFacts ==
  ASSUME TypeOK
  PROVE  /\ GraphRows \in Seq(RowSet) /\ Graph <= Len(GraphRows)
         /\ Named = {} => \A i \in 1..Len(GraphRows) :
              GraphRows[i].service = NoService /\ GraphRows[i].count = 0
         /\ Named # {} => InBlocks(GraphRows, SetToSeq(Named))
<1>1. /\ Graph \in Nat \ {0} /\ now \in Nat /\ Span \subseteq Seconds
      /\ Axis \in [1..Graph -> Span]
  BY AxisIs
<1>2. CASE Named = {}
  <2> DEFINE rows == [i \in 1..Graph |->
                       [second |-> now - Graph + i - 1, service |-> NoService, count |-> 0]]
  <2>1. GraphRows = rows
    BY <1>2, GraphRowsAre
  <2>2. \A i \in 1..Graph : /\ rows[i].service = NoService /\ rows[i].count = 0
                            /\ rows[i] \in RowSet
    BY <1>1 DEF RowSet, NoService
  <2>3. DOMAIN rows = 1..Graph /\ rows = [i \in 1..Graph |-> rows[i]]
    OBVIOUS
  <2> HIDE DEF rows
  <2>4. rows \in [1..Graph -> RowSet]
    BY <2>2, <2>3
  <2>5. rows \in Seq(RowSet) /\ Len(rows) = Graph
    BY <1>1, <2>4
  <2>6. QED
    BY <1>1, <1>2, <2>1, <2>2, <2>5
<1>3. CASE Named # {}
  <2> DEFINE N == Cardinality(Named)
             e == SetToSeq(Named)
  <2>1. Named \subseteq Services /\ IsFiniteSet(Named)
    BY BucketsFinite, FS_Subset DEF Named
  <2>2. N \in Nat /\ N # 0 /\ e \in [1..N -> Named]
    BY <1>3, <2>1, NamesInOrder
  <2> HIDE DEF N, e
  <2>3. ASSUME NEW k \in 1..N PROVE RowsOf(e[k]) \in Seq(RowSet) /\ Len(RowsOf(e[k])) = Graph
    <3>1. e[k] \in Services /\ e[k] \in Nat
      BY <2>1, <2>2, RowAssumption DEF Services
    <3>2. ASSUME NEW i \in 1..Graph
          PROVE  [second |-> Axis[i], service |-> e[k],
                  count |-> metrics[<<e[k], Axis[i]>>].logs] \in RowSet
      <4>1. Axis[i] \in Seconds
        BY <1>1
      <4>2. Axis[i] \in Int
        BY <4>1 DEF Seconds
      <4>3. metrics[<<e[k], Axis[i]>>].logs \in Nat
        BY <3>1, <4>1 DEF TypeOK
      <4>4. QED
        BY <3>1, <4>2, <4>3 DEF RowSet
    <3>3. RowsOf(e[k]) \in [1..Graph -> RowSet]
      BY <3>2 DEF RowsOf
    <3>4. QED
      BY <1>1, <3>3
  <2>4. Parts = [k \in 1..N |-> RowsOf(e[k])]
    BY DEF Parts, N, e
  <2>5. PICK parts : parts = Parts
    OBVIOUS
  <2>6. parts \in [1..N -> Seq(RowSet)] /\ \A k \in 1..N : Len(parts[k]) = Graph /\ parts[k] = RowsOf(e[k])
    BY <2>3, <2>4, <2>5
  <2>7. PICK R \in [0..N -> Seq(RowSet)] :
          Joins(R, parts, N) /\ FoldLeft(\o, <<>>, parts) = R[N]
    <3>1. N \in Nat
      BY <2>2
    <3>2. parts \in [1..N -> Seq(RowSet)]
      BY <2>6
    <3>3. QED
      BY <3>1, <3>2, Joined
  <2>8. GraphRows = R[N]
    BY <1>3, <2>5, <2>7, GraphRowsAre
  <2>9. Joins(R, parts, N)
    BY <2>7
  <2>10. PICK rows : rows = R[N]
    OBVIOUS
  <2>11. rows \in Seq(RowSet) /\ InParts(rows, parts, N, Graph)
    <3>1. N \in Nat /\ Graph \in Nat
      BY <1>1, <2>2
    <3>2. parts \in [1..N -> Seq(RowSet)]
      BY <2>6
    <3>3. \A k \in 1..N : Len(parts[k]) = Graph
      BY <2>6
    <3>4. QED
      BY <3>1, <3>2, <3>3, <2>9, <2>10, Blocks
  <2>12. Graph <= Len(rows)
    <3>1. 1 \in 1..N /\ Graph \in 1..Graph
      BY <1>1, <2>2
    <3>2. Place(1, Graph) + Graph \in 1..Len(rows) /\ Len(rows) \in Nat
      BY <2>11, <3>1 DEF InParts
    <3>3. Place(1, Graph) = 0
      BY <1>1, Places
    <3>4. QED
      BY <1>1, <3>2, <3>3
  <2>13. InBlocks(rows, e)
    BY <2>6, <2>11 DEF InBlocks, InParts, N
  <2>14. QED
    BY <1>3, <2>8, <2>10, <2>11, <2>12, <2>13 DEF e
<1>4. QED
  BY <1>2, <1>3

(* No two rows of the graph are for the same service and second.           *)
LEMMA RowsDiffer ==
  ASSUME TypeOK, NEW rows, NEW e, InBlocks(rows, e), e = SetToSeq(Named)
  PROVE  /\ \A i \in 1..Len(rows) :
              /\ rows[i].service \in Named /\ rows[i].second \in Span
              /\ rows[i].count = metrics[<<rows[i].service, rows[i].second>>].logs
         /\ \A i, l \in 1..Len(rows) :
              rows[i].service = rows[l].service /\ rows[i].second = rows[l].second => i = l
<1> DEFINE N == Cardinality(Named)
           off(k) == Place(k, Graph)
<1>1. /\ Axis \in [1..Graph -> Span]
      /\ \A i, j \in 1..Graph : Axis[i] = Axis[j] => i = j
  BY AxisIs
<1>2. IsFiniteSet(Named)
  BY BucketsFinite, FS_Subset DEF Named
<1>3. /\ N \in Nat /\ e \in [1..N -> Named]
      /\ \A i, j \in 1..N : e[i] = e[j] => i = j
  BY <1>2, NamesInOrder
<1>4. /\ \A k \in 1..N, j \in 1..Graph : rows[off(k) + j] = RowsOf(e[k])[j]
      /\ \A i \in 1..Len(rows) : \E k \in 1..N, j \in 1..Graph : i = off(k) + j
  BY DEF InBlocks
<1> HIDE DEF off, N
<1>5. ASSUME NEW i \in 1..Len(rows)
      PROVE  \E k \in 1..N, j \in 1..Graph :
               /\ i = off(k) + j /\ rows[i].service = e[k] /\ rows[i].second = Axis[j]
               /\ rows[i].count = metrics[<<e[k], Axis[j]>>].logs
  <2>1. PICK k \in 1..N, j \in 1..Graph : i = off(k) + j
    BY <1>4
  <2>2. rows[i] = RowsOf(e[k])[j]
    BY <1>4, <2>1
  <2>3. rows[i] = [second |-> Axis[j], service |-> e[k], count |-> metrics[<<e[k], Axis[j]>>].logs]
    BY <2>2 DEF RowsOf
  <2>4. QED
    BY <2>1, <2>3
<1>6. ASSUME NEW i \in 1..Len(rows)
      PROVE  /\ rows[i].service \in Named /\ rows[i].second \in Span
             /\ rows[i].count = metrics[<<rows[i].service, rows[i].second>>].logs
  BY <1>1, <1>3, <1>5
<1>7. ASSUME NEW i \in 1..Len(rows), NEW l \in 1..Len(rows),
             rows[i].service = rows[l].service, rows[i].second = rows[l].second
      PROVE  i = l
  <2>1. PICK k \in 1..N, j \in 1..Graph :
          i = off(k) + j /\ rows[i].service = e[k] /\ rows[i].second = Axis[j]
    BY <1>5
  <2>2. PICK p \in 1..N, q \in 1..Graph :
          l = off(p) + q /\ rows[l].service = e[p] /\ rows[l].second = Axis[q]
    BY <1>5
  <2>3. k = p /\ j = q
    BY <1>1, <1>3, <1>7, <2>1, <2>2
  <2>4. QED
    BY <2>1, <2>2, <2>3
<1>8. QED
  BY <1>6, <1>7

-----------------------------------------------------------------------------
(* The charts agree                                                        *)

(* The registry knows the service of every log that the views counted.     *)
MetricsInv == \A b \in Services \X Seconds : metrics[b].logs > 0 => b[1] \in registry

(* Every series has a point for every second of the axis.                  *)
LEMMA SeriesComplete ==
  ASSUME TypeOK
  PROVE  LET graph == GetIngestionGraphMetrics(GraphRows)
         IN  /\ Len(graph.timestamps) = Graph
             /\ \A s \in DOMAIN graph.metrics :
                  /\ Len(graph.metrics[s]) = Graph
                  /\ \A i \in 1..Graph : graph.metrics[s][i].second = graph.timestamps[i]
                  /\ s \in Named
<1> DEFINE graph == GetIngestionGraphMetrics(GraphRows)
<1>1. PICK rows : rows = GraphRows
  OBVIOUS
<1>2. /\ rows \in Seq(RowSet) /\ Graph <= Len(rows)
      /\ Named = {} => \A i \in 1..Len(rows) :
           rows[i].service = NoService /\ rows[i].count = 0
      /\ Named # {} => InBlocks(rows, SetToSeq(Named))
  BY <1>1, GraphFacts
<1>3. /\ Graph \in Nat \ {0} /\ Axis \in [1..Graph -> Span]
  BY AxisIs
<1>4. DOMAIN rows = 1..Len(rows) /\ Len(rows) \in Nat /\ rows # <<>>
  BY <1>2, <1>3
<1>5. graph = [timestamps |-> [i \in 1..Graph |-> rows[i].second],
               metrics    |-> NewIngestionMetricsMap(rows)]
  BY <1>1, <1>4 DEF GetIngestionGraphMetrics, NewIngestionGraphMetrics
<1>6. graph.timestamps = [i \in 1..Graph |-> rows[i].second]
  BY <1>5
<1>7. graph.metrics = NewIngestionMetricsMap(rows)
  BY <1>5
<1> HIDE DEF graph
<1>8. DOMAIN graph.metrics = {rows[i].service : i \in DOMAIN rows} \ {NoService}
  BY <1>7 DEF NewIngestionMetricsMap
<1>9. ASSUME NEW s \in DOMAIN graph.metrics
      PROVE  /\ Len(graph.metrics[s]) = Graph
             /\ \A i \in 1..Graph : graph.metrics[s][i].second = graph.timestamps[i]
             /\ s \in Named
  <2>1. PICK n \in 1..Len(rows) : s = rows[n].service /\ s # NoService
    BY <1>4, <1>8
  <2>2. Named # {}
    BY <1>2, <2>1
  <2>3. PICK e : e = SetToSeq(Named)
    OBVIOUS
  <2>4. InBlocks(rows, e)
    BY <1>2, <2>2, <2>3
  <2> DEFINE N == Cardinality(Named)
             off(k) == Place(k, Graph)
  <2>5. /\ \A k \in 1..N, j \in 1..Graph :
              off(k) + j \in 1..Len(rows) /\ rows[off(k) + j] = RowsOf(e[k])[j]
        /\ \A i \in 1..Len(rows) : \E k \in 1..N, j \in 1..Graph : i = off(k) + j
    BY <2>4 DEF InBlocks
  <2>6. IsFiniteSet(Named)
    BY BucketsFinite, FS_Subset DEF Named
  <2>7. /\ N \in Nat /\ e \in [1..N -> Named]
        /\ \A i, j \in 1..N : e[i] = e[j] => i = j
    BY <2>3, <2>6, NamesInOrder
  <2>8. off(1) = 0 /\ \A k \in 1..N : off(k) \in Nat
    BY <1>3, <2>7, Places
  <2> HIDE DEF N, off
  <2>9. ASSUME NEW k \in 1..N, NEW j \in 1..Graph
        PROVE  rows[off(k) + j].service = e[k] /\ rows[off(k) + j].second = Axis[j]
    <3>1. rows[off(k) + j] = RowsOf(e[k])[j]
      BY <2>5
    <3>2. RowsOf(e[k])[j] = [second |-> Axis[j], service |-> e[k],
                             count |-> metrics[<<e[k], Axis[j]>>].logs]
      BY DEF RowsOf
    <3>3. QED
      BY <3>1, <3>2
  <2>10. PICK k \in 1..N, l \in 1..Graph : n = off(k) + l
    BY <2>5
  <2>11. s = e[k] /\ s \in Named
    BY <2>1, <2>7, <2>9, <2>10
  <2> DEFINE lo == off(k)
  <2>12. lo \in Nat
    BY <2>8
  <2>13. lo + Graph <= Len(rows)
    <3>1. Graph \in 1..Graph
      BY <1>3
    <3>2. lo + Graph \in 1..Len(rows)
      BY <2>5, <3>1
    <3>3. QED
      BY <1>4, <3>2
  <2>14. ASSUME NEW i \in 1..Len(rows)
         PROVE  rows[i].service = s <=> i \in (lo + 1)..(lo + Graph)
    <3>1. ASSUME rows[i].service = s PROVE i \in (lo + 1)..(lo + Graph)
      <4>1. PICK p \in 1..N, q \in 1..Graph : i = off(p) + q
        BY <2>5
      <4>2. e[p] = s
        BY <2>9, <3>1, <4>1
      <4>3. p = k
        BY <2>7, <2>11, <4>2
      <4>4. i = lo + q
        BY <4>1, <4>3
      <4> HIDE DEF lo
      <4>5. QED
        BY <1>3, <2>12, <4>4
    <3>2. ASSUME i \in (lo + 1)..(lo + Graph) PROVE rows[i].service = s
      <4> DEFINE q == i - lo
      <4>1. q \in 1..Graph /\ i = lo + q
        <5> HIDE DEF lo
        <5>1. QED
          BY <1>3, <2>12, <3>2
      <4> HIDE DEF q
      <4>2. rows[lo + q].service = e[k]
        BY <2>9, <4>1
      <4>3. QED
        BY <2>11, <4>1, <4>2
    <3>3. QED
      BY <3>1, <3>2
  <2> HIDE DEF lo
  <2>15. PICK R \in [0..Len(rows) -> Seq(RowSet)] :
           Selects(R, rows, s) /\ SeriesOf(s, rows) = R[Len(rows)]
    <3>1. rows \in Seq(RowSet)
      BY <1>2
    <3>2. QED
      BY <3>1, Selected
  <2>16. graph.metrics[s] = R[Len(rows)]
    BY <1>7, <1>8, <2>15 DEF NewIngestionMetricsMap
  <2>17. PICK list : list = R[Len(rows)]
    OBVIOUS
  <2>18. Selects(R, rows, s)
    BY <2>15
  <2>19. Len(list) = Graph /\ \A j \in 1..Graph : list[j] = rows[lo + j]
    <3>1. rows \in Seq(RowSet) /\ Graph \in Nat
      BY <1>2, <1>3
    <3>2. Together(rows, s, lo, Graph)
      BY <2>13, <2>14 DEF Together
    <3>3. SelectsIn(R, rows, s, RowSet)
      BY <3>1, <2>15 DEF SelectsIn
    <3>4. IsBlock(R[Len(rows)], rows, lo, Graph)
      BY <3>1, <3>2, <3>3, <2>12, SelectedBlock
    <3>5. QED
      BY <3>4, <2>17 DEF IsBlock
  <2>20. ASSUME NEW i \in 1..Graph PROVE graph.metrics[s][i].second = graph.timestamps[i]
    <3>1. graph.metrics[s][i] = rows[lo + i]
      BY <2>16, <2>17, <2>19
    <3>2. rows[lo + i].second = Axis[i]
      BY <2>9 DEF lo
    <3>3. 1 \in 1..N
      BY <2>7
    <3>4. rows[off(1) + i].second = Axis[i]
      BY <2>9, <3>3
    <3>5. off(1) + i = i
      BY <2>8
    <3>6. graph.timestamps[i] = rows[i].second
      BY <1>6
    <3>7. QED
      BY <3>1, <3>2, <3>4, <3>5, <3>6
  <2>21. QED
    BY <2>11, <2>16, <2>17, <2>19, <2>20
<1>10. Len(graph.timestamps) = Graph
  BY <1>3, <1>6
<1>11. QED
  BY <1>9, <1>10 DEF graph

(* The buckets that SumSince adds up, and their sums.                      *)
Buckets(start, names) == {b \in names \X Seconds : b[2] >= start}

LEMMA LogsOfIs ==
  ASSUME TypeOK
  PROVE  /\ IsFiniteSet(DOMAIN LogsOf) /\ DOMAIN LogsOf = Services \X Seconds
         /\ \A b \in Services \X Seconds : LogsOf[b] = metrics[b].logs /\ LogsOf[b] \in Nat
<1>1. DOMAIN LogsOf = Services \X Seconds
  BY DEF LogsOf
<1>2. \A b \in Services \X Seconds : LogsOf[b] = metrics[b].logs /\ LogsOf[b] \in Nat
  BY DEF LogsOf, TypeOK
<1>3. QED
  BY <1>1, <1>2, BucketsFinite

LEMMA ErrorsOfIs ==
  ASSUME TypeOK
  PROVE  /\ IsFiniteSet(DOMAIN ErrorsOf) /\ DOMAIN ErrorsOf = Services \X Seconds
         /\ \A b \in Services \X Seconds :
              ErrorsOf[b] = metrics[b].errors /\ ErrorsOf[b] \in Nat
<1>1. DOMAIN ErrorsOf = Services \X Seconds
  BY DEF ErrorsOf
<1>2. \A b \in Services \X Seconds : ErrorsOf[b] = metrics[b].errors /\ ErrorsOf[b] \in Nat
  BY DEF ErrorsOf, TypeOK
<1>3. QED
  BY <1>1, <1>2, BucketsFinite

LEMMA SumOverIs ==
  ASSUME TypeOK, NEW S, S \subseteq Services \X Seconds
  PROVE  /\ SumOver(S).logs = SumOf(LogsOf)[S] /\ SumOver(S).errors = SumOf(ErrorsOf)[S]
         /\ SumOver(S).logs \in Nat /\ SumOver(S).errors \in Nat
<1> DEFINE sum == SumOver(S)
<1>2. sum = [logs   |-> MapThenSumSet(LAMBDA b : metrics[b].logs, S),
             errors |-> MapThenSumSet(LAMBDA b : metrics[b].errors, S)]
  BY DEF SumOver
<1>3. MapThenSumSet(LAMBDA b : metrics[b].logs, S) = SumOf(LogsOf)[S]
  BY LogsSum
<1>4. MapThenSumSet(LAMBDA b : metrics[b].errors, S) = SumOf(ErrorsOf)[S]
  BY ErrorsSum
<1>5. sum.logs = SumOf(LogsOf)[S] /\ sum.errors = SumOf(ErrorsOf)[S]
  BY <1>2, <1>3, <1>4
<1>6. PICK f : f = LogsOf
  OBVIOUS
<1>7. PICK g : g = ErrorsOf
  OBVIOUS
<1>8. /\ IsFiniteSet(DOMAIN f) /\ DOMAIN f = Services \X Seconds
      /\ \A b \in DOMAIN f : f[b] \in Nat
  BY <1>6, LogsOfIs
<1>9. /\ IsFiniteSet(DOMAIN g) /\ DOMAIN g = Services \X Seconds
      /\ \A b \in DOMAIN g : g[b] \in Nat
  BY <1>7, ErrorsOfIs
<1> HIDE DEF sum
<1>10. SumOf(f)[S] \in Nat
  BY <1>8, SumEmpty
<1>11. SumOf(g)[S] \in Nat
  BY <1>9, SumEmpty
<1>12. QED
  BY <1>5, <1>6, <1>7, <1>10, <1>11 DEF sum

LEMMA SumSinceIs ==
  ASSUME TypeOK, NEW start, NEW names, names \subseteq Services
  PROVE  /\ Buckets(start, names) \subseteq Services \X Seconds
         /\ SumSince(start, names).logs = SumOf(LogsOf)[Buckets(start, names)]
<1>1. Buckets(start, names) \subseteq Services \X Seconds
  BY DEF Buckets
<1>2. SumSince(start, names) = SumOver(Buckets(start, names))
  BY DEF SumSince, Buckets
<1>3. QED
  BY <1>1, <1>2, SumOverIs

(* The current rate counts buckets that the average counts, too.           *)
LEMMA CurrentWithinAverage ==
  ASSUME TypeOK
  PROVE  GetLogRateStatistics.current <= GetLogRateStatistics.average
<1> DEFINE S == Buckets(now - Current, Services)
           T == Buckets(now - Graph, Services)
           h == [b \in S |-> b]
<1>1. PICK f : f = LogsOf
  OBVIOUS
<1>2. /\ IsFiniteSet(DOMAIN f) /\ DOMAIN f = Services \X Seconds
      /\ \A b \in DOMAIN f : f[b] \in Nat
  BY <1>1, LogsOfIs
<1>3. S \subseteq DOMAIN f /\ T \subseteq DOMAIN f
  BY <1>2 DEF Buckets
<1>4. S \subseteq T
  <2>1. now \in Int /\ Current \in Int /\ Graph \in Int /\ Current <= Graph
    BY SpanAssumption DEF TypeOK
  <2>2. \A b \in Services \X Seconds : b[2] \in Int
    BY SpanAssumption DEF Seconds
  <2>3. \A t \in Int : t >= now - Current => t >= now - Graph
    BY <2>1
  <2>4. QED
    BY <2>2, <2>3 DEF Buckets
<1>5. \A x \in S : h[x] = x
  OBVIOUS
<1>6. GetLogRateStatistics.current = SumOf(f)[S] /\ GetLogRateStatistics.average = SumOf(f)[T]
  BY <1>1, SumSinceIs DEF GetLogRateStatistics
<1> HIDE DEF S, T, h
<1>7. \A x \in S : h[x] \in T /\ f[x] <= f[h[x]]
  BY <1>2, <1>3, <1>4, <1>5
<1>8. \A x, y \in S : h[x] = h[y] => x = y
  BY <1>5
<1>9. SumOf(f)[S] <= SumOf(f)[T]
  BY <1>2, <1>3, <1>7, <1>8, SumInto
<1>10. QED
  BY <1>6, <1>9

(* Each row of the graph shows a bucket of its own.                        *)
LEMMA ShownWithinAverage ==
  ASSUME TypeOK
  PROVE  MapThenSumSet(LAMBDA i : GraphRows[i].count, DOMAIN GraphRows)
           <= GetLogRateStatistics.average
<1>1. PICK rows : rows = GraphRows
  OBVIOUS
<1>2. PICK f : f = [i \in DOMAIN rows |-> rows[i].count]
  OBVIOUS
<1>3. PICK g : g = LogsOf
  OBVIOUS
<1> DEFINE T == Buckets(now - Graph, Services)
<1>4. /\ rows \in Seq(RowSet)
      /\ Named = {} => \A i \in 1..Len(rows) :
           rows[i].service = NoService /\ rows[i].count = 0
      /\ Named # {} => InBlocks(rows, SetToSeq(Named))
  BY <1>1, GraphFacts
<1>5. DOMAIN rows = 1..Len(rows) /\ Len(rows) \in Nat
  BY <1>4
<1>6. \A i \in DOMAIN rows : rows[i].count \in Nat
  <2>1. \A i \in DOMAIN rows : rows[i] \in RowSet
    BY <1>4, <1>5
  <2>2. QED
    BY <2>1 DEF RowSet
<1>7. IsFiniteSet(DOMAIN rows)
  BY <1>5, FS_Interval
<1>8. MapThenSumSet(LAMBDA i : GraphRows[i].count, DOMAIN GraphRows) = SumOf(f)[DOMAIN rows]
  BY <1>1, <1>2, <1>6, <1>7, CountsSum
<1>9. DOMAIN f = DOMAIN rows /\ \A i \in DOMAIN f : f[i] = rows[i].count /\ f[i] \in Nat
  BY <1>2, <1>6
<1>10. /\ IsFiniteSet(DOMAIN g) /\ DOMAIN g = Services \X Seconds
       /\ \A b \in DOMAIN g : g[b] = metrics[b].logs /\ g[b] \in Nat
  BY <1>3, LogsOfIs
<1>11. T \subseteq DOMAIN g
  BY <1>10 DEF Buckets
<1>12. GetLogRateStatistics.average = SumOf(g)[T]
  BY <1>3, SumSinceIs DEF GetLogRateStatistics
<1> HIDE DEF T
<1>13. SumOf(f)[DOMAIN rows] <= SumOf(g)[T]
  <2>1. CASE Named = {}
    <3>1. \A i \in DOMAIN f : ~(f[i] > 0)
      BY <1>4, <1>5, <1>9, <2>1
    <3>2. ~(SumOf(f)[DOMAIN f] > 0)
      BY <1>7, <1>9, <3>1, SumPositive
    <3>3. SumOf(f)[DOMAIN f] \in Nat
      BY <1>7, <1>9, SumEmpty
    <3>4. SumOf(g)[T] \in Nat
      BY <1>10, <1>11, SumEmpty
    <3>5. QED
      BY <1>9, <3>2, <3>3, <3>4
  <2>2. CASE Named # {}
    <3> DEFINE h == [i \in DOMAIN rows |-> <<rows[i].service, rows[i].second>>]
    <3>1. PICK e : e = SetToSeq(Named)
      OBVIOUS
    <3>2. /\ \A i \in 1..Len(rows) :
               /\ rows[i].service \in Named /\ rows[i].second \in Span
               /\ rows[i].count = metrics[<<rows[i].service, rows[i].second>>].logs
          /\ \A i, l \in 1..Len(rows) :
               rows[i].service = rows[l].service /\ rows[i].second = rows[l].second => i = l
      BY <1>4, <2>2, <3>1, RowsDiffer
    <3>3. ASSUME NEW i \in DOMAIN rows PROVE h[i] \in T /\ f[i] <= g[h[i]]
      <4>1. rows[i].service \in Services
        BY <1>5, <3>2 DEF Named
      <4>a. rows[i].second \in Span /\ Span \subseteq Seconds
        BY <1>5, <3>2, AxisIs
      <4>2. rows[i].second \in Seconds /\ rows[i].second >= now - Graph
        BY <4>a DEF Span
      <4>3. h[i] \in T
        BY <4>1, <4>2 DEF T, Buckets
      <4>4. g[h[i]] = f[i] /\ f[i] \in Nat
        BY <1>5, <1>9, <1>10, <3>2, <4>1, <4>2
      <4> HIDE DEF h
      <4>5. QED
        BY <4>3, <4>4
    <3>4. \A i, l \in DOMAIN rows : h[i] = h[l] => i = l
      BY <1>5, <3>2
    <3> HIDE DEF h
    <3>5. QED
      BY <1>7, <1>9, <1>10, <1>11, <3>3, <3>4, SumInto
  <2>3. QED
    BY <2>1, <2>2
<1>14. QED
  BY <1>8, <1>12, <1>13

(* A second is within a minute of the start of its minute.                 *)
LEMMA MinuteStarts ==
  ASSUME NEW t \in Seconds
  PROVE  toStartOfMinute(t) \in Int /\ toStartOfMinute(t) > t - Minute
<1>1. Minute \in Nat \ {0} /\ t \in Nat
  BY SpanAssumption DEF Seconds
<1>2. (t % Minute) \in 0..(Minute - 1)
  BY <1>1
<1>3. PICK m \in 0..(Minute - 1) : m = (t % Minute)
  BY <1>2
<1>4. QED
  BY <1>1, <1>3 DEF toStartOfMinute

(* An error rate that is not 0 has buckets with logs.                      *)
LEMMA RateIs ==
  ASSUME TypeOK, NEW S, S \subseteq Services \X Seconds
  PROVE  /\ Percent(SumOver(S)) \in Nat
         /\ Percent(SumOver(S)) > 0 => SumOver(S).logs > 0
<1>1. PICK x : x = SumOver(S)
  OBVIOUS
<1>2. x.logs \in Nat /\ x.errors \in Nat
  BY <1>1, SumOverIs
<1>3. CASE x.logs = 0
  BY <1>1, <1>3 DEF Percent
<1>4. CASE x.logs # 0
  <2>1. Percent(x) = (100 * x.errors) \div x.logs
    BY <1>4 DEF Percent
  <2>2. x.logs > 0 /\ 100 * x.errors \in Nat
    BY <1>2, <1>4
  <2>3. (100 * x.errors) \div x.logs \in Nat
    BY <1>2, <2>2
  <2>4. QED
    BY <1>1, <2>1, <2>2, <2>3
<1>5. QED
  BY <1>3, <1>4

(* A service with logs and errors within the short span is listed: its     *)
(* minute began within the long one.                                       *)
LEMMA TopErrorsListed ==
  ASSUME TypeOK, GetErrorRateMetrics > 0
  PROVE  GetTopServiceErrorsStats # <<>>
<1> DEFINE Recent == Buckets(now - ErrorSpan, Services)
           Minutes(s) == {b \in {s} \X Seconds : toStartOfMinute(b[2]) >= now - TopSpan}
           sum(s) == SumMinutesSince(now - TopSpan, {s})
           found == {s \in Services : sum(s).logs > 0}
           key == [s \in found |-> -Percent(sum(s))]
           list == Ordered(found, key)
<1>1. /\ Recent \subseteq Services \X Seconds
      /\ \A s \in Services : Minutes(s) \subseteq Services \X Seconds
      /\ \A s : sum(s) = SumOver(Minutes(s))
  BY DEF Buckets, SumMinutesSince
<1>2. found # {}
  <2>1. PICK f : f = LogsOf
    OBVIOUS
  <2>2. /\ IsFiniteSet(DOMAIN f) /\ DOMAIN f = Services \X Seconds
        /\ \A b \in DOMAIN f : f[b] \in Nat
    BY <2>1, LogsOfIs
  <2>3. SumOver(Recent).logs > 0
    <3>1. GetErrorRateMetrics = Percent(SumOver(Recent))
      BY DEF GetErrorRateMetrics, SumSince, Buckets
    <3>2. QED
      BY <1>1, <3>1, RateIs
  <2>4. SumOf(f)[Recent] > 0
    BY <1>1, <2>1, <2>3, SumOverIs
  <2>5. PICK b \in Recent : f[b] > 0
    <3> HIDE DEF Recent
    <3>1. QED
      BY <1>1, <2>2, <2>4, SumPositive
  <2>6. PICK s \in Services : b \in {s} \X Seconds
    BY <2>5 DEF Buckets
  <2>7. b \in Minutes(s)
    <3>1. b[2] \in Seconds /\ b[2] >= now - ErrorSpan
      BY <2>5, <2>6 DEF Buckets
    <3>2. /\ now \in Int /\ ErrorSpan \in Nat /\ TopSpan \in Nat /\ Minute \in Nat
          /\ ErrorSpan + Minute <= TopSpan + 1
      BY SpanAssumption DEF TypeOK
    <3>3. /\ toStartOfMinute(b[2]) \in Int /\ b[2] \in Int
          /\ toStartOfMinute(b[2]) > b[2] - Minute
      BY <3>1, MinuteStarts DEF Seconds
    <3>4. toStartOfMinute(b[2]) >= now - TopSpan
      BY <3>1, <3>2, <3>3
    <3>5. QED
      BY <2>6, <3>4
  <2>8. PICK T : T = Minutes(s)
    OBVIOUS
  <2>9. b \in T /\ T \subseteq DOMAIN f
    BY <1>1, <2>2, <2>7, <2>8
  <2>10. SumOf(f)[T] > 0
    BY <2>2, <2>5, <2>9, SumPositive
  <2>11. sum(s).logs > 0
    <3>1. SumOver(T).logs = SumOf(LogsOf)[T]
      BY <2>2, <2>9, SumOverIs
    <3>2. QED
      BY <1>1, <2>1, <2>8, <2>10, <3>1
  <2>12. QED
    BY <2>11
<1>3. IsFiniteSet(found)
  BY BucketsFinite, FS_Subset
<1>4. \A s \in found : key[s] \in Int /\ key[s] <= 0
  <2> SUFFICES ASSUME NEW s \in found PROVE key[s] \in Int /\ key[s] <= 0
    OBVIOUS
  <2>1. Minutes(s) \subseteq Services \X Seconds
    BY <1>1
  <2>2. Percent(sum(s)) \in Nat
    BY <1>1, <2>1, RateIs
  <2>3. key[s] = -Percent(sum(s))
    OBVIOUS
  <2> HIDE DEF key, sum
  <2>4. QED
    BY <2>2, <2>3
<1>5. GetTopServiceErrorsStats = SubSeq(list, 1, IF Len(list) < 5 THEN Len(list) ELSE 5)
  BY DEF GetTopServiceErrorsStats
<1> HIDE DEF key, found
<1>6. list \in [1..Cardinality(found) -> found]
  BY <1>3, <1>4, OrderedIs
<1>7. Cardinality(found) \in Nat /\ Cardinality(found) # 0
  BY <1>2, <1>3, FS_CardinalityType, FS_EmptySet
<1> HIDE DEF list
<1>8. list \in Seq(found) /\ Len(list) = Cardinality(found)
  BY <1>6, <1>7
<1> DEFINE n == IF Len(list) < 5 THEN Len(list) ELSE 5
<1>9. n \in 1..Len(list)
  BY <1>7, <1>8
<1> HIDE DEF n
<1>10. Len(SubSeq(list, 1, n)) = n /\ n \in Nat \ {0}
  <2>1. \A i \in 1..n : list[i] \in found
    BY <1>6, <1>7, <1>8, <1>9
  <2>2. Len(SubSeq(list, 1, n)) = IF 1 <= n THEN n - 1 + 1 ELSE 0
    BY <1>7, <1>8, <1>9, <2>1, SubSeqProperties
  <2>3. QED
    BY <1>7, <1>8, <1>9, <2>2
<1>11. SubSeq(list, 1, n) # <<>>
  <2>1. Len(<<>>) = 0
    OBVIOUS
  <2>2. QED
    BY <1>10, <2>1
<1>12. QED
  BY <1>5, <1>11 DEF n

(* The services on the graph are registered.                               *)
LEMMA NamedRegistered == MetricsInv => Named \subseteq registry
<1> SUFFICES ASSUME MetricsInv, NEW s \in Services, Having(s) # {} PROVE s \in registry
  BY DEF Named
<1>1. PICK t \in Seconds : metrics[<<s, t>>].logs > 0
  BY DEF Having
<1>2. <<s, t>> \in Services \X Seconds /\ <<s, t>>[1] = s
  OBVIOUS
<1>3. QED
  BY <1>1, <1>2 DEF MetricsInv

LEMMA InitMetrics == Init => MetricsInv
<1> SUFFICES ASSUME Init, NEW b \in Services \X Seconds PROVE ~(metrics[b].logs > 0)
  BY DEF MetricsInv
<1>1. metrics[b].logs = 0
  BY DEF Init
<1>2. QED
  BY <1>1

LEMMA NextMetrics == Inv /\ MetricsInv /\ [Next]_vars => MetricsInv'
<1> SUFFICES ASSUME Inv, MetricsInv, [Next]_vars PROVE MetricsInv'
  OBVIOUS
<1>1. ASSUME UNCHANGED <<metrics, registry>> PROVE MetricsInv'
  BY <1>1 DEF MetricsInv
<1>2. ASSUME NEW r \in Rows, WriteViews(r) PROVE MetricsInv'
  <2> SUFFICES ASSUME NEW b \in Services \X Seconds, metrics'[b].logs > 0
               PROVE  b[1] \in registry'
    BY DEF MetricsInv
  <2>1. registry' = registry \cup {Service[r]}
    BY <1>2 DEF WriteViews
  <2>2. CASE b = <<Service[r], Time[r]>>
    BY <2>1, <2>2
  <2>3. CASE b # <<Service[r], Time[r]>>
    <3>1. metrics \in [Services \X Seconds -> [logs : Nat, errors : Nat]]
      BY DEF Inv, Types, TypeOK
    <3>2. metrics'[b] = metrics[b]
      BY <1>2, <2>3, <3>1 DEF WriteViews
    <3>3. QED
      BY <2>1, <3>2 DEF MetricsInv
  <2>4. QED
    BY <2>2, <2>3
<1>3. ASSUME NEW r \in Rows, Insert(r) \/ Expire(r) PROVE MetricsInv'
  BY <1>1, <1>3 DEF Insert, Inserted, Expire
<1>4. ASSUME NEW k \in DOMAIN Seeds, Commit(k) PROVE MetricsInv'
  BY <1>1, <1>4 DEF Commit, Inserted
<1>5. CASE Tick \/ Start \/ CountRows \/ Seeded \/ SeedFails \/ Stop
  BY <1>1, <1>5 DEF Tick, Start, CountRows, Seeded, SeedFails, Stop, database
<1>6. ASSUME NEW q \in Searches, Ask(q) \/ Browse(q) PROVE MetricsInv'
  BY <1>1, <1>6 DEF Ask, Browse, database
<1>7. CASE Fail \/ Search \/ Count \/ AskPage \/ Reply
  BY <1>1, <1>7 DEF Fail, Search, Count, AskPage, Reply, database
<1>8. CASE Ended \/ UNCHANGED vars
  BY <1>1, <1>8 DEF Ended, vars
<1>9. QED
  BY <1>2, <1>3, <1>4, <1>5, <1>6, <1>7, <1>8 DEF Next

(* The queries of the charts: series as long as their axis, no more on the *)
(* graph than the average rate counts, and every service that is needed.   *)
THEOREM ChartsAgreement == Spec => []ChartsAgree
<1>1. Init => Inv /\ MetricsInv
  BY InitInv, InitMetrics
<1>2. Inv /\ MetricsInv /\ [Next]_vars => Inv' /\ MetricsInv'
  BY NextInv, NextMetrics
<1>3. Inv /\ MetricsInv => ChartsAgree
  <2> SUFFICES ASSUME Inv, MetricsInv PROVE ChartsAgree
    OBVIOUS
  <2>1. TypeOK /\ RowsInv
    BY DEF Inv, Types
  <2> DEFINE graph == GetIngestionGraphMetrics(GraphRows)
             shown == MapThenSumSet(LAMBDA i : GraphRows[i].count, DOMAIN GraphRows)
             complete == /\ Len(graph.timestamps) = Graph
                         /\ \A s \in DOMAIN graph.metrics :
                              /\ Len(graph.metrics[s]) = Graph
                              /\ \A i \in 1..Graph :
                                   graph.metrics[s][i].second = graph.timestamps[i]
  <2>2. complete /\ DOMAIN graph.metrics \subseteq Named
    BY <2>1, SeriesComplete
  <2>3. shown <= GetLogRateStatistics.average
    BY <2>1, ShownWithinAverage
  <2>4. GetLogRateStatistics.current <= GetLogRateStatistics.average
    BY <2>1, CurrentWithinAverage
  <2> HIDE DEF graph, shown
  <2>5. {Service[r] : r \in logs \ behind} \cup DOMAIN graph.metrics \subseteq GetDistinctServices
    <3>1. DOMAIN graph.metrics \subseteq registry
      BY <2>2, NamedRegistered
    <3>2. {Service[r] : r \in logs \ behind} \subseteq registry
      BY <2>1 DEF RowsInv, TypeOK
    <3>3. QED
      BY <3>1, <3>2 DEF GetDistinctServices
  <2>6. GetErrorRateMetrics > 0 => GetTopServiceErrorsStats # <<>>
    BY <2>1, TopErrorsListed
  <2>7. QED
    BY <2>2, <2>3, <2>4, <2>5, <2>6 DEF ChartsAgree, graph, shown
<1>4. QED
  BY <1>1, <1>2, <1>3, PTL DEF Spec

-----------------------------------------------------------------------------
(* The storage outlook                                                     *)

(* The bytes of all days are a sum in this sense.                          *)
LEMMA TotalIs ==
  ASSUME NEW parts \in Seq(Nat)
  PROVE  Total(parts) = SumOf(parts)[DOMAIN parts]
<1> DEFINE S == DOMAIN parts
           eq(g) == [t \in SUBSET S |-> IF t = {} THEN 0
                       ELSE parts[CHOOSE x \in t : TRUE] + g[t \ {CHOOSE x \in t : TRUE}]]
           iter == CHOOSE g : g = eq(g)
<1>1. IsFiniteSet(S) /\ \A x \in S : parts[x] \in Nat
  BY FS_Interval
<1>2. ASSUME NEW g PROVE eq(g) = Taken(g, parts, S)
  BY DEF Taken
<1>3. Total(parts) = iter[S]
  BY DEF Total, FoldSeq, FoldFunction, FoldFunctionOnSet, MapThenFoldSet
<1> HIDE DEF eq
<1>4. iter = Taken(iter, parts, S)
  BY <1>1, <1>2, SumTaken
<1> HIDE DEF iter
<1>5. QED
  BY <1>1, <1>3, <1>4, SumTaken

(* A sum lies between so many times the least and the greatest part.       *)
LEMMA SumBounds ==
  ASSUME NEW f, IsFiniteSet(DOMAIN f), \A x \in DOMAIN f : f[x] \in Nat,
         NEW low \in Nat, NEW high \in Nat, \A x \in DOMAIN f : low <= f[x] /\ f[x] <= high
  PROVE  \A S \in SUBSET DOMAIN f :
           low * Cardinality(S) <= SumOf(f)[S] /\ SumOf(f)[S] <= high * Cardinality(S)
<1> DEFINE F == SumOf(f)
           within(S) == low * Cardinality(S) <= F[S] /\ F[S] <= high * Cardinality(S)
           B == {S \in SUBSET DOMAIN f : ~within(S)}
<1>1. F[{}] = 0 /\ \A S \in SUBSET DOMAIN f : F[S] \in Nat
  BY SumEmpty
<1>2. \A S \in SUBSET DOMAIN f : \A x \in S : F[S] = f[x] + F[S \ {x}]
  BY SumRemove
<1> HIDE DEF F
<1>3. B = {}
  <2> SUFFICES ASSUME B # {} PROVE FALSE
    OBVIOUS
  <2>1. B \subseteq SUBSET DOMAIN f
    OBVIOUS
  <2> HIDE DEF B
  <2>2. PICK S \in B : \A q \in B : q \subseteq S => q = S
    BY <2>1, MinimalSet
  <2>3. S \in SUBSET DOMAIN f /\ IsFiniteSet(S)
    BY <2>1, <2>2, FS_Subset
  <2>4. S # {}
    <3> SUFFICES ASSUME S = {} PROVE FALSE
      OBVIOUS
    <3>1. Cardinality(S) = 0
      BY FS_EmptySet
    <3>2. F[S] = 0
      BY <1>1
    <3>3. within(S)
      BY <3>1, <3>2
    <3>4. QED
      BY <2>2, <3>3 DEF B
  <2>5. PICK x \in S : TRUE
    BY <2>4
  <2> DEFINE T == S \ {x}
             c == Cardinality(T)
  <2>6. T \in SUBSET DOMAIN f /\ T \notin B
    BY <2>2, <2>3, <2>5
  <2>7. low * c <= F[T] /\ F[T] <= high * c
    BY <2>6 DEF B
  <2>8. Cardinality(S) = c + 1 /\ c \in Nat
    BY <2>3, <2>5, FS_RemoveElement, FS_CardinalityType, FS_Subset
  <2>9. F[S] = f[x] + F[T] /\ F[T] \in Nat
    BY <1>1, <1>2, <2>3, <2>6
  <2>10. f[x] \in Nat /\ low <= f[x] /\ f[x] <= high
    BY <2>3
  <2>11. ~within(S)
    BY <2>2 DEF B
  <2> HIDE DEF c, T
  <2>12. low * (c + 1) = low * c + low /\ high * (c + 1) = high * c + high
    BY <2>8
  <2>13. low * c \in Nat /\ high * c \in Nat
    BY <2>8
  <2>14. within(S)
    BY <2>7, <2>8, <2>9, <2>10, <2>12, <2>13
  <2>15. QED
    BY <2>11, <2>14
<1>4. \A S \in SUBSET DOMAIN f : within(S)
  BY <1>3
<1>5. QED
  BY <1>4 DEF F

LEMMA TotalBounds ==
  ASSUME NEW parts \in Seq(Nat), NEW low \in Nat, NEW high \in Nat,
         \A i \in DOMAIN parts : low <= parts[i] /\ parts[i] <= high
  PROVE  /\ Total(parts) \in Nat
         /\ low * Len(parts) <= Total(parts) /\ Total(parts) <= high * Len(parts)
<1>1. DOMAIN parts = 1..Len(parts) /\ Len(parts) \in Nat /\ \A i \in DOMAIN parts : parts[i] \in Nat
  OBVIOUS
<1>2. IsFiniteSet(DOMAIN parts) /\ Cardinality(DOMAIN parts) = Len(parts)
  BY <1>1, FS_Interval
<1>3. Total(parts) = SumOf(parts)[DOMAIN parts]
  BY TotalIs
<1>4. SumOf(parts)[DOMAIN parts] \in Nat
  BY <1>1, <1>2, SumEmpty
<1>5. /\ low * Cardinality(DOMAIN parts) <= SumOf(parts)[DOMAIN parts]
      /\ SumOf(parts)[DOMAIN parts] <= high * Cardinality(DOMAIN parts)
  BY <1>1, <1>2, SumBounds
<1>6. QED
  BY <1>2, <1>3, <1>4, <1>5

(* The average, rounded down, of numbers between two bounds is.            *)
LEMMA AverageBounds ==
  ASSUME NEW t \in Nat, NEW n \in Nat \ {0}, NEW low \in Nat, NEW high \in Nat,
         low * n <= t, t <= high * n
  PROVE  t \div n \in Nat /\ low <= t \div n /\ t \div n <= high
<1>1. PICK q : q = t \div n
  OBVIOUS
<1>2. PICK r : r = t % n
  OBVIOUS
<1>3. q \in Nat /\ r \in Nat /\ r < n /\ t = n * q + r
  BY <1>1, <1>2
<1>4. q <= high
  <2> SUFFICES ASSUME q >= high + 1 PROVE FALSE
    BY <1>3
  <2>1. PICK d \in Nat : q = high + 1 + d
    BY <1>3
  <2>2. n * q = high * n + n + n * d /\ n * d \in Nat
    BY <2>1
  <2>3. high * n \in Nat /\ n * q \in Nat
    BY <1>3
  <2>4. QED
    BY <1>3, <2>2, <2>3
<1>5. low <= q
  <2> SUFFICES ASSUME low >= q + 1 PROVE FALSE
    BY <1>3
  <2>1. PICK d \in Nat : low = q + 1 + d
    BY <1>3
  <2>2. low * n = n * q + n + n * d /\ n * d \in Nat
    BY <1>3, <2>1
  <2>3. n * q \in Nat
    BY <1>3
  <2>4. QED
    BY <1>3, <2>2, <2>3
<1>6. QED
  BY <1>1, <1>3, <1>4, <1>5

(* Outlook of GetStorageOutlook: the projected bytes lie between thirty    *)
(* emptiest and as many fullest days, for any history; once the TTL        *)
(* removes days, all that there are count.                                 *)
THEOREM OutlookBounds ==
  ASSUME NEW parts \in Seq(Nat), parts # <<>>, NEW low \in Nat, NEW high \in Nat,
         \A i \in DOMAIN parts : low <= parts[i] /\ parts[i] <= high
  PROVE  LET days == IF Len(parts) > LOGS_TTL_DAYS THEN Len(parts) ELSE LOGS_TTL_DAYS
         IN  /\ low * LOGS_TTL_DAYS <= ProjectedSteadyStateBytes(parts)
             /\ ProjectedSteadyStateBytes(parts) <= high * days
<1>1. Len(parts) \in Nat \ {0} /\ DOMAIN parts = 1..Len(parts)
  BY EmptySeq
<1>2. CASE Len(parts) >= LOGS_TTL_DAYS
  <2> DEFINE n == Len(parts)
  <2>1. n \in Nat /\ n >= 30
    BY <1>1, <1>2 DEF LOGS_TTL_DAYS
  <2>2. Total(parts) \in Nat /\ low * n <= Total(parts) /\ Total(parts) <= high * n
    BY TotalBounds
  <2>3. ProjectedSteadyStateBytes(parts) = Total(parts)
    BY <1>2 DEF ProjectedSteadyStateBytes
  <2> HIDE DEF n
  <2>4. low * 30 <= low * n
    <3>1. PICK d \in Nat : n = 30 + d
      BY <2>1
    <3>2. low * n = low * 30 + low * d /\ low * d \in Nat
      BY <3>1
    <3>3. QED
      BY <3>2
  <2>5. (IF n > 30 THEN n ELSE 30) = n
    BY <2>1
  <2>6. low * n \in Nat
    BY <2>1
  <2>7. low * 30 <= Total(parts)
    BY <2>2, <2>4, <2>6
  <2>8. QED
    BY <2>2, <2>3, <2>5, <2>7 DEF LOGS_TTL_DAYS, n
<1>3. CASE ~(Len(parts) >= LOGS_TTL_DAYS)
  <2> DEFINE used == Usable(parts)
  <2>1. /\ used \in Seq(Nat) /\ Len(used) \in Nat \ {0}
        /\ \A i \in DOMAIN used : low <= used[i] /\ used[i] <= high
    <3>1. CASE ~(Len(parts) > 1)
      BY <1>1, <3>1 DEF Usable
    <3>2. CASE Len(parts) > 1
      <4> DEFINE m == Len(parts) - 1
      <4>1. m \in Nat \ {0} /\ \A i \in 1..m : i \in DOMAIN parts /\ parts[i] \in Nat
        BY <1>1, <3>2
      <4>2. used = SubSeq(parts, 1, m)
        BY <3>2 DEF Usable, Front
      <4> HIDE DEF m, used
      <4>3. /\ SubSeq(parts, 1, m) \in Seq(Nat)
            /\ Len(SubSeq(parts, 1, m)) = IF 1 <= m THEN m - 1 + 1 ELSE 0
            /\ \A i \in 1..(m - 1 + 1) : SubSeq(parts, 1, m)[i] = parts[1 + i - 1]
        BY <4>1, SubSeqProperties
      <4>4. /\ used \in Seq(Nat) /\ Len(used) = m /\ DOMAIN used = 1..m
            /\ \A i \in 1..m : used[i] = parts[i]
        BY <4>1, <4>2, <4>3
      <4>5. QED
        BY <4>1, <4>4
    <3>3. QED
      BY <3>1, <3>2
  <2>2. ProjectedSteadyStateBytes(parts) = (Total(used) \div Len(used)) * 30
    BY <1>3 DEF ProjectedSteadyStateBytes, LOGS_TTL_DAYS
  <2> HIDE DEF used
  <2>3. /\ Total(used) \in Nat
        /\ low * Len(used) <= Total(used) /\ Total(used) <= high * Len(used)
    BY <2>1, TotalBounds
  <2> DEFINE average == Total(used) \div Len(used)
  <2>4. average \in Nat /\ low <= average /\ average <= high
    BY <2>1, <2>3, AverageBounds
  <2>5. ~(Len(parts) > 30)
    BY <1>1, <1>3 DEF LOGS_TTL_DAYS
  <2>6. ProjectedSteadyStateBytes(parts) = average * 30
    BY <2>2
  <2> HIDE DEF average
  <2>7. low * 30 <= average * 30 /\ average * 30 <= high * 30
    BY <2>4
  <2>8. QED
    BY <2>5, <2>6, <2>7 DEF LOGS_TTL_DAYS
<1>4. QED
  BY <1>2, <1>3
=============================================================================

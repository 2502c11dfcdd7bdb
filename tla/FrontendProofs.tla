---------------------------- MODULE FrontendProofs ----------------------------
(***************************************************************************)
(* Proofs about the browser tab, for any number of sockets, messages under *)
(* way and visits of the pages.                                            *)
(***************************************************************************)
EXTENDS Frontend, TLAPS, SequenceTheorems

Statuses == {"connecting", "live", "error"}

Inv == ConnectionsAccounted /\ TailInv /\ FetchesAccounted

-----------------------------------------------------------------------------
(* The messages to the page *)

(* Posting one status.                                                     *)
LEMMA Post ==
  ASSUME NEW q \in Seq(Statuses), NEW x \in Statuses
  PROVE  /\ q \o <<x>> \in Seq(Statuses)
         /\ Len(q \o <<x>>) = Len(q) + 1
         /\ \A i \in DOMAIN (q \o <<x>>) :
              \/ i = Len(q) + 1 /\ (q \o <<x>>)[i] = x
              \/ i \in DOMAIN q /\ (q \o <<x>>)[i] = q[i]
<1>1. <<x>> \in Seq(Statuses) /\ Len(<<x>>) = 1 /\ <<x>>[1] = x
  OBVIOUS
<1>2. q \o <<x>> \in Seq(Statuses) /\ Len(q \o <<x>>) = Len(q) + 1
  BY <1>1, ConcatProperties
<1>3. Len(q) \in Nat /\ DOMAIN q = 1..Len(q) /\ DOMAIN (q \o <<x>>) = 1..(Len(q) + 1)
  BY <1>2, LenProperties
<1>4. \A i \in 1..(Len(q) + 1) :
        (q \o <<x>>)[i] = IF i <= Len(q) THEN q[i] ELSE <<x>>[i - Len(q)]
  BY <1>1, ConcatProperties
<1>5. QED
  BY <1>1, <1>2, <1>3, <1>4

(* Taking the first one.                                                   *)
LEMMA TakeStatus ==
  ASSUME NEW S, NEW q \in Seq(S), q # <<>>
  PROVE  /\ Len(q) \in Nat \ {0} /\ DOMAIN q = 1..Len(q)
         /\ Head(q) \in S /\ Head(q) = q[1]
         /\ Tail(q) \in Seq(S) /\ Len(Tail(q)) = Len(q) - 1
         /\ DOMAIN Tail(q) = 1..(Len(q) - 1)
         /\ \A i \in 1..(Len(q) - 1) : Tail(q)[i] = q[i + 1]
<1>1. Len(q) \in Nat \ {0} /\ DOMAIN q = 1..Len(q) /\ Head(q) = q[1] /\ Head(q) \in S
  BY EmptySeq, LenProperties, HeadTailProperties
<1>2. Tail(q) \in Seq(S) /\ Len(Tail(q)) = Len(q) - 1
  BY HeadTailProperties
<1>3. DOMAIN Tail(q) = 1..(Len(q) - 1)
  BY <1>2, LenProperties
<1>4. QED
  BY <1>1, <1>2, <1>3, HeadTailProperties

-----------------------------------------------------------------------------
(* The live tail *)

TailGood == TailTypeOK /\ OneConnection /\ TailInv /\ (~tail => ws = NoSocket)

LEMMA TailInitGood == TailInit => TailGood
<1> SUFFICES ASSUME TailInit PROVE TailGood
  OBVIOUS
<1>1. tail \in BOOLEAN /\ reconnectTimer \in BOOLEAN
  BY DEF TailInit
<1>2. /\ toPage = <<>> /\ toWorker = <<>> /\ Len(toPage) <= MaxPosts
      /\ toPage \in Seq(Statuses) /\ toWorker \in Seq({"RECONNECT"})
  BY BoundsAssumption, EmptySeq DEF TailInit
<1>3. /\ readyState \in [Sockets -> {"none", "connecting", "open"}]
      /\ reconnectAttempts \in 0..maxAttempts
  BY DEF TailInit, maxAttempts
<1>4. connectionStatus \in Statuses /\ ws = NoSocket
  BY DEF TailInit, Statuses
<1>5. TailTypeOK
  BY <1>1, <1>2, <1>3, <1>4 DEF TailTypeOK, Statuses
<1>6. OneConnection /\ TailInv
  BY <1>2 DEF TailInit, OneConnection, TailInv, Idle
<1>7. QED
  BY <1>4, <1>5, <1>6 DEF TailGood

(* Connect without an open socket: one new socket, and the page is told.   *)
LEMMA ConnectWhenIdle ==
  ASSUME TailTypeOK, OneConnection, ws = NoSocket, Connect
  PROVE  /\ ws' \in Sockets
         /\ readyState' = [readyState EXCEPT ![ws'] = "connecting"]
         /\ toPage' = toPage \o <<"connecting">>
  BY DEF Connect, updateStatus, NoSocket

LEMMA MountGood ==
  ASSUME TailGood, MountTail
  PROVE  TailGood' /\ tail'
<1>1. /\ ~tail /\ tail' = TRUE /\ connectionStatus' = "connecting" /\ Connect
      /\ UNCHANGED <<toWorker, reconnectAttempts, reconnectTimer>>
  BY DEF MountTail
<1>2. toPage = <<>> /\ ws = NoSocket /\ ~reconnectTimer /\ toWorker = <<>>
  BY <1>1 DEF TailGood, TailInv, Idle
<1>3. /\ ws' \in Sockets
      /\ readyState' = [readyState EXCEPT ![ws'] = "connecting"]
      /\ toPage' = toPage \o <<"connecting">>
  BY <1>1, <1>2, ConnectWhenIdle DEF TailGood
<1>4. /\ toPage' \in Seq(Statuses) /\ Len(toPage') = 1
      /\ \A i \in DOMAIN toPage' : toPage'[i] = "connecting"
  BY <1>2, <1>3, Post, EmptySeq DEF Statuses
<1>5. TailTypeOK'
  BY <1>1, <1>3, <1>4, BoundsAssumption DEF TailGood, TailTypeOK, Statuses
<1>6. OneConnection'
  BY <1>1, <1>2, <1>3 DEF TailGood, OneConnection, TailTypeOK, NoSocket, Sockets
<1>7. TailInv'
  BY <1>1, <1>2, <1>4 DEF TailInv
<1>8. QED
  BY <1>1, <1>5, <1>6, <1>7 DEF TailGood

LEMMA UnmountGood ==
  ASSUME TailGood, UnmountTail
  PROVE  TailGood' /\ ~tail'
<1>1. /\ tail' = FALSE /\ connectionStatus' = "connecting"
      /\ toWorker' = <<>> /\ toPage' = <<>>
      /\ ws' = NoSocket /\ readyState' = [s \in Sockets |-> "none"]
      /\ reconnectAttempts' = 0 /\ reconnectTimer' = FALSE
  BY DEF UnmountTail
<1>2. TailTypeOK'
  <2>1. tail' \in BOOLEAN /\ reconnectTimer' \in BOOLEAN
    BY <1>1
  <2>2. /\ toPage' \in Seq(Statuses) /\ toWorker' \in Seq({"RECONNECT"})
        /\ Len(toPage') <= MaxPosts
    BY <1>1, BoundsAssumption, EmptySeq
  <2>3. /\ readyState' \in [Sockets -> {"none", "connecting", "open"}]
        /\ reconnectAttempts' \in 0..maxAttempts
    BY <1>1 DEF maxAttempts
  <2>4. QED
    BY <1>1, <2>1, <2>2, <2>3 DEF TailTypeOK, Statuses
<1>3. OneConnection' /\ TailInv'
  BY <1>1 DEF OneConnection, TailInv, Idle, NoSocket
<1>4. QED
  BY <1>1, <1>2, <1>3 DEF TailGood

LEMMA StepGood ==
  ASSUME TailGood, TailStep
  PROVE  TailGood' /\ tail' = tail
<1> USE DEF worker
<1>0. /\ toPage \in Seq(Statuses) /\ Len(toPage) <= MaxPosts /\ Len(toPage) \in Nat
      /\ toWorker \in Seq({"RECONNECT"}) /\ ws \in Sockets \cup {NoSocket}
      /\ readyState \in [Sockets -> {"none", "connecting", "open"}]
      /\ reconnectAttempts \in 0..maxAttempts /\ reconnectTimer \in BOOLEAN
      /\ DOMAIN toPage = 1..Len(toPage)
  BY LenProperties DEF TailGood, TailTypeOK, Statuses
<1>b. tail \in BOOLEAN /\ connectionStatus \in Statuses /\ MaxPosts \in Nat
  BY BoundsAssumption DEF TailGood, TailTypeOK, Statuses
<1>1. CASE \E s \in Sockets : OnOpen(s) \/ OnClose(s)
  <2>1. PICK s \in Sockets : OnOpen(s) \/ OnClose(s)
    BY <1>1
  <2>2. /\ Room /\ readyState[s] # "none" /\ ws = s /\ ~reconnectTimer
        /\ UNCHANGED <<tail, connectionStatus, toWorker>>
    BY <2>1 DEF OnOpen, OnClose, TailGood, OneConnection, NoSocket, Sockets
  <2>3. /\ ~Idle /\ toWorker = <<>> /\ connectionStatus # "error" /\ tail
        /\ \A i \in DOMAIN toPage : toPage[i] # "error"
    BY <2>2 DEF TailGood, TailInv, Idle, NoSocket, Sockets
  <2>4. CASE OnOpen(s)
    <3>1. /\ readyState' = [readyState EXCEPT ![s] = "open"] /\ reconnectAttempts' = 0
          /\ toPage' = toPage \o <<"live">> /\ UNCHANGED <<ws, reconnectTimer>>
      BY <2>4 DEF OnOpen, updateStatus
    <3>2. /\ toPage' \in Seq(Statuses) /\ Len(toPage') = Len(toPage) + 1
          /\ \A i \in DOMAIN toPage' : toPage'[i] # "error"
      BY <1>0, <2>3, <3>1, Post DEF Statuses
    <3>3. TailTypeOK'
      BY <1>0, <1>b, <2>2, <3>1, <3>2 DEF TailTypeOK, Statuses, Room, maxAttempts
    <3>4. OneConnection'
      BY <1>0, <2>2, <2>3, <3>1 DEF TailGood, OneConnection
    <3>5. TailInv'
      BY <2>2, <2>3, <3>2 DEF TailInv
    <3>6. QED
      BY <2>2, <2>3, <3>3, <3>4, <3>5 DEF TailGood
  <2>5. CASE OnClose(s)
    <3>1. /\ readyState' = [readyState EXCEPT ![s] = "none"] /\ ws' = NoSocket
          /\ IF GivesUp THEN GiveUp ELSE ScheduleReconnect
      BY <2>5 DEF OnClose
    <3>2. OneConnection'
      BY <1>0, <2>2, <2>3, <3>1 DEF TailGood, OneConnection
    <3>3. CASE GivesUp
      <4>1. toPage' = toPage \o <<"error">> /\ UNCHANGED <<reconnectAttempts, reconnectTimer>>
        BY <3>1, <3>3 DEF GiveUp, updateStatus
      <4>2. /\ toPage' \in Seq(Statuses) /\ Len(toPage') = Len(toPage) + 1
            /\ \A i \in DOMAIN toPage' : toPage'[i] = "error" => i = Len(toPage')
        BY <1>0, <2>3, <4>1, Post DEF Statuses
      <4>3. TailTypeOK'
        BY <1>0, <1>b, <2>2, <3>1, <4>1, <4>2 DEF TailTypeOK, Statuses, Room, maxAttempts
      <4>4. TailInv'
        BY <2>2, <2>3, <3>1, <4>1, <4>2 DEF TailInv, Idle
      <4>5. QED
        BY <2>2, <2>3, <3>2, <4>3, <4>4 DEF TailGood
    <3>4. CASE ~GivesUp
      <4>1. /\ toPage' = toPage \o <<"connecting">>
            /\ reconnectAttempts' = reconnectAttempts + 1 /\ reconnectTimer' = TRUE
        BY <3>1, <3>4 DEF ScheduleReconnect, updateStatus
      <4>2. /\ toPage' \in Seq(Statuses) /\ Len(toPage') = Len(toPage) + 1
            /\ \A i \in DOMAIN toPage' : toPage'[i] # "error"
        BY <1>0, <2>3, <4>1, Post DEF Statuses
      <4>3. reconnectAttempts' \in 0..maxAttempts
        BY <1>0, <3>4, <4>1 DEF GivesUp, maxAttempts
      <4>4. TailTypeOK'
        BY <1>0, <1>b, <2>2, <3>1, <4>1, <4>2, <4>3 DEF TailTypeOK, Statuses, Room
      <4>5. TailInv'
        BY <2>2, <2>3, <4>2 DEF TailInv
      <4>6. QED
        BY <2>2, <2>3, <3>2, <4>4, <4>5 DEF TailGood
    <3>5. QED
      BY <3>3, <3>4
  <2>6. QED
    BY <2>1, <2>4, <2>5
<1>2. CASE TimerFires \/ OnReconnect
  <2>1. /\ Room /\ Connect /\ reconnectTimer' = FALSE
        /\ reconnectAttempts' \in {0, reconnectAttempts}
        /\ UNCHANGED <<tail, connectionStatus>>
        /\ toWorker' \in {toWorker, Tail(toWorker)}
    BY <1>2 DEF TimerFires, OnReconnect
  <2>2. /\ ws = NoSocket /\ tail /\ connectionStatus # "error"
        /\ \A i \in DOMAIN toPage : toPage[i] # "error"
        /\ toWorker' = <<>>
    <3>1. CASE TimerFires
      BY <3>1 DEF TimerFires, TailGood, TailInv, OneConnection, Idle
    <3>2. CASE OnReconnect
      <4>1. toWorker # <<>> /\ toWorker' = Tail(toWorker)
        BY <3>2 DEF OnReconnect
      <4>2. Len(toWorker) = 1 /\ Idle /\ toPage = <<>> /\ connectionStatus # "error" /\ tail
        BY <4>1 DEF TailGood, TailInv, OneConnection
      <4>3. Tail(toWorker) \in Seq({"RECONNECT"}) /\ Len(Tail(toWorker)) = 0
        BY <1>0, <4>1, <4>2, TakeStatus
      <4>4. Tail(toWorker) = <<>>
        BY <4>3, EmptySeq
      <4>5. QED
        BY <4>1, <4>2, <4>4 DEF Idle
    <3>3. QED
      BY <1>2, <3>1, <3>2
  <2>3. /\ ws' \in Sockets
        /\ readyState' = [readyState EXCEPT ![ws'] = "connecting"]
        /\ toPage' = toPage \o <<"connecting">>
    BY <2>1, <2>2, ConnectWhenIdle DEF TailGood
  <2>4. /\ toPage' \in Seq(Statuses) /\ Len(toPage') = Len(toPage) + 1
        /\ \A i \in DOMAIN toPage' : toPage'[i] # "error"
    BY <1>0, <2>2, <2>3, Post DEF Statuses
  <2>5. TailTypeOK'
    <3>1. reconnectTimer' \in BOOLEAN /\ tail' \in BOOLEAN
      BY <1>b, <2>1
    <3>2. toWorker' \in Seq({"RECONNECT"}) /\ Len(toPage') <= MaxPosts
      BY <1>0, <1>b, <2>1, <2>2, <2>4, EmptySeq DEF Room
    <3>3. readyState' \in [Sockets -> {"none", "connecting", "open"}]
      BY <1>0, <2>3
    <3>4. reconnectAttempts' \in 0..maxAttempts
      BY <1>0, <2>1 DEF maxAttempts
    <3>5. QED
      BY <1>b, <2>1, <2>3, <2>4, <3>1, <3>2, <3>3, <3>4 DEF TailTypeOK, Statuses
  <2>6. OneConnection'
    BY <1>0, <2>1, <2>2, <2>3 DEF TailGood, OneConnection, NoSocket, Sockets
  <2>7. TailInv'
    BY <2>1, <2>2, <2>4 DEF TailInv
  <2>8. QED
    BY <2>1, <2>2, <2>5, <2>6, <2>7 DEF TailGood
<1>3. CASE OnStatus
  <2>1. /\ toPage # <<>> /\ connectionStatus' = Head(toPage) /\ toPage' = Tail(toPage)
        /\ UNCHANGED <<tail, toWorker, ws, readyState, reconnectAttempts, reconnectTimer>>
    BY <1>3 DEF OnStatus
  <2>2. /\ toWorker = <<>> /\ connectionStatus # "error" /\ tail
    BY <2>1 DEF TailGood, TailInv
  <2>3. /\ Len(toPage) \in Nat \ {0} /\ Head(toPage) = toPage[1] /\ Head(toPage) \in Statuses
        /\ toPage' \in Seq(Statuses) /\ Len(toPage') = Len(toPage) - 1
        /\ DOMAIN toPage' = 1..(Len(toPage) - 1)
        /\ \A i \in 1..(Len(toPage) - 1) : toPage'[i] = toPage[i + 1]
    BY <1>0, <2>1, TakeStatus
  <2>4. TailTypeOK' /\ OneConnection'
    BY <1>0, <1>b, <2>1, <2>3 DEF TailGood, TailTypeOK, OneConnection, Statuses
  <2>5. \A i \in DOMAIN toPage : toPage[i] = "error" => Idle /\ i = Len(toPage)
    BY DEF TailGood, TailInv
  <2>6. connectionStatus' = "error" => Idle' /\ toPage' = <<>>
    <3>1. ASSUME toPage[1] = "error" PROVE Idle /\ Len(toPage') = 0
      BY <1>0, <2>3, <2>5, <3>1
    <3>2. QED
      BY <2>1, <2>3, <3>1, EmptySeq DEF Idle
  <2>7. \A i \in DOMAIN toPage' : toPage'[i] = "error" => Idle' /\ i = Len(toPage')
    BY <1>0, <2>1, <2>3, <2>5 DEF Idle
  <2>8. \A i \in DOMAIN toPage' : toPage'[i] = "error" => connectionStatus' # "error"
    BY <2>6
  <2>9. TailInv'
    BY <2>1, <2>2, <2>6, <2>7, <2>8 DEF TailInv
  <2>10. QED
    BY <2>1, <2>2, <2>4, <2>9 DEF TailGood
<1>4. CASE handleReconnect
  <2>1. /\ tail /\ connectionStatus = "error" /\ connectionStatus' = "connecting"
        /\ toWorker' = Append(toWorker, "RECONNECT")
        /\ UNCHANGED <<tail, toPage, ws, readyState, reconnectAttempts, reconnectTimer>>
    BY <1>4 DEF handleReconnect
  <2>2. Idle /\ toPage = <<>> /\ toWorker = <<>>
    BY <2>1 DEF TailGood, TailInv
  <2>3. toWorker' \in Seq({"RECONNECT"}) /\ Len(toWorker') = 1
    BY <2>1, <2>2
  <2>4. TailTypeOK'
    BY <1>0, <1>b, <2>1, <2>3 DEF TailTypeOK, Statuses
  <2>5. OneConnection' /\ TailInv'
    BY <2>1, <2>2, <2>3 DEF TailGood, OneConnection, TailInv, Idle
  <2>6. QED
    BY <2>1, <2>4, <2>5 DEF TailGood
<1>5. QED
  BY <1>1, <1>2, <1>3, <1>4 DEF TailStep

-----------------------------------------------------------------------------
(* The dashboard *)

HookGood == HookTypeOK /\ StreamsAccounted /\ FetchesAccounted

LEMMA HookInitGood == HookInit => HookGood
<1> SUFFICES ASSUME HookInit PROVE HookGood
  OBVIOUS
<1>1. isError \in BOOLEAN /\ quiet \in BOOLEAN
  BY DEF HookInit
<1>2. /\ mounts \in 0..MaxMounts /\ shown \in {NoMount, mounts} /\ abandoned \subseteq Mounts
      /\ fetching \in [Mounts -> BOOLEAN]
      /\ source \in [Mounts -> {"none", "connecting", "open", "closed"}]
  BY MountsAssumption DEF HookInit
<1>3. HookTypeOK
  BY <1>1, <1>2 DEF HookTypeOK
<1>4. StreamsAccounted /\ FetchesAccounted
  BY DEF HookInit, StreamsAccounted, FetchesAccounted
<1>5. QED
  BY <1>3, <1>4 DEF HookGood

LEMMA MountDashboardGood ==
  ASSUME HookGood, MountDashboard
  PROVE  HookGood'
<1> USE DEF connect
<1>1. /\ mounts \in 0..MaxMounts /\ shown = NoMount /\ mounts < MaxMounts
      /\ MaxMounts \in Nat
  BY MountsAssumption DEF MountDashboard, HookGood, HookTypeOK
<1>2. HookTypeOK'
  <2>1. isError' \in BOOLEAN /\ quiet' \in BOOLEAN
    BY DEF MountDashboard
  <2>2. mounts' \in 0..MaxMounts /\ shown' = mounts'
    BY <1>1 DEF MountDashboard
  <2>3. fetching' \in [Mounts -> BOOLEAN]
    BY DEF MountDashboard, HookGood, HookTypeOK
  <2>4. QED
    BY <2>1, <2>2, <2>3 DEF MountDashboard, HookGood, HookTypeOK
<1>3. \A k \in Mounts : k # NoMount
  BY DEF Mounts, NoMount
<1>4. StreamsAccounted' /\ FetchesAccounted'
  BY <1>1, <1>3 DEF MountDashboard, HookGood, HookTypeOK, StreamsAccounted, FetchesAccounted
<1>5. QED
  BY <1>2, <1>4 DEF HookGood

LEMMA UnmountDashboardGood ==
  ASSUME HookGood, UnmountDashboard
  PROVE  HookGood' /\ shown' = NoMount
<1>1. shown \in Mounts /\ shown' = NoMount
  BY MountsAssumption DEF UnmountDashboard, HookGood, HookTypeOK, Mounts, NoMount
<1>2. HookTypeOK'
  BY <1>1 DEF UnmountDashboard, CloseSource, HookGood, HookTypeOK
<1>3. StreamsAccounted' /\ FetchesAccounted'
  BY <1>1 DEF UnmountDashboard, CloseSource, HookGood, HookTypeOK, StreamsAccounted,
              FetchesAccounted
<1>4. QED
  BY <1>1, <1>2, <1>3 DEF HookGood

LEMMA HookStepGood ==
  ASSUME HookGood, HookStep
  PROVE  HookGood' /\ shown' = shown
<1> USE DEF Shows, OnError, connect, HookGood
<1>0. isError \in BOOLEAN /\ quiet \in BOOLEAN
  BY DEF HookTypeOK
<1>1. CASE \E k \in Mounts : Fetched(k) \/ SourceOpens(k) \/ SourceFails(k)
  <2>1. PICK k \in Mounts : Fetched(k) \/ SourceOpens(k) \/ SourceFails(k)
    BY <1>1
  <2>2. UNCHANGED <<mounts, shown, abandoned>>
    BY <2>1 DEF Fetched, SourceOpens, SourceFails
  <2>3. isError' \in BOOLEAN /\ quiet' \in BOOLEAN
    BY <1>0, <2>1 DEF Fetched, SourceOpens, SourceFails
  <2>4. /\ fetching' \in [Mounts -> BOOLEAN]
        /\ source' \in [Mounts -> {"none", "connecting", "open", "closed"}]
    BY <2>1 DEF Fetched, SourceOpens, SourceFails, HookTypeOK
  <2>5. HookTypeOK'
    BY <2>2, <2>3, <2>4 DEF HookTypeOK
  <2>6. StreamsAccounted' /\ FetchesAccounted'
    BY <2>1, <2>2 DEF Fetched, SourceOpens, SourceFails, HookTypeOK, StreamsAccounted,
                      FetchesAccounted
  <2>7. QED
    BY <2>2, <2>5, <2>6
<1>2. CASE Retry
  <2>1. shown \in Mounts
    BY <1>2, MountsAssumption DEF Retry, HookTypeOK, Mounts, NoMount
  <2>2. QED
    BY <1>2, <2>1 DEF Retry, HookTypeOK, StreamsAccounted, FetchesAccounted
<1>3. CASE Message \/ Silence \/ Watchdog
  <2>1. UNCHANGED <<mounts, shown, fetching, source, abandoned>>
    BY <1>3 DEF Message, Silence, Watchdog
  <2>2. isError' \in BOOLEAN /\ quiet' \in BOOLEAN
    BY <1>0, <1>3 DEF Message, Silence, Watchdog
  <2>3. QED
    BY <2>1, <2>2 DEF HookTypeOK, StreamsAccounted, FetchesAccounted
<1>4. QED
  BY <1>1, <1>2, <1>3 DEF HookStep

-----------------------------------------------------------------------------
(* The tab *)

OnePage == ~(tail /\ shown # NoMount)

LEMMA InvParts == Inv <=> TailGood /\ HookGood /\ OnePage
  BY DEF Inv, ConnectionsAccounted, TailGood, HookGood, OnePage

LEMMA InvPartsNext == Inv' <=> TailGood' /\ HookGood' /\ OnePage'
  BY DEF Inv, ConnectionsAccounted, TailGood, HookGood, OnePage

LEMMA TailSame == TailGood /\ UNCHANGED tailVars => TailGood' /\ tail' = tail
  BY DEF TailGood, tailVars, TailTypeOK, OneConnection, TailInv, Idle

LEMMA HookSame == HookGood /\ UNCHANGED hookVars => HookGood' /\ shown' = shown
  BY DEF HookGood, hookVars, HookTypeOK, StreamsAccounted, FetchesAccounted

LEMMA NavigateGood ==
  ASSUME TailGood, HookGood, OnePage, Navigate
  PROVE  TailGood' /\ HookGood' /\ OnePage'
<1>1. CASE ~tail /\ MountDashboard /\ UNCHANGED tailVars
  BY <1>1, MountDashboardGood, TailSame DEF OnePage
<1>2. CASE UnmountDashboard /\ UNCHANGED tailVars
  BY <1>2, UnmountDashboardGood, TailSame DEF OnePage
<1>3. CASE UnmountDashboard /\ MountTail
  BY <1>3, UnmountDashboardGood, MountGood DEF OnePage
<1>4. CASE shown = NoMount /\ MountTail /\ UNCHANGED hookVars
  BY <1>4, MountGood, HookSame DEF OnePage
<1>5. CASE UnmountTail /\ UNCHANGED hookVars
  BY <1>5, UnmountGood, HookSame DEF OnePage
<1>6. CASE UnmountTail /\ MountDashboard
  BY <1>6, UnmountGood, MountDashboardGood DEF OnePage
<1>7. QED
  BY <1>1, <1>2, <1>3, <1>4, <1>5, <1>6 DEF Navigate

LEMMA InitInv == Init => Inv
<1>1. Init => OnePage
  BY DEF Init, TailInit, OnePage
<1>2. QED
  BY <1>1, TailInitGood, HookInitGood, InvParts DEF Init

LEMMA NextInv == Inv /\ [Next]_vars => Inv'
<1> SUFFICES ASSUME TailGood, HookGood, OnePage, [Next]_vars
             PROVE  TailGood' /\ HookGood' /\ OnePage'
  BY InvParts, InvPartsNext
<1>1. CASE Navigate
  BY <1>1, NavigateGood
<1>2. CASE TailStep /\ UNCHANGED hookVars
  BY <1>2, StepGood, HookSame DEF OnePage
<1>3. CASE HookStep /\ UNCHANGED tailVars
  BY <1>3, HookStepGood, TailSame DEF OnePage
<1>4. CASE UNCHANGED vars
  <2>1. UNCHANGED tailVars /\ UNCHANGED hookVars
    BY <1>4 DEF vars, tailVars, hookVars
  <2>2. QED
    BY <2>1, TailSame, HookSame DEF OnePage
<1>5. QED
  BY <1>1, <1>2, <1>3, <1>4 DEF Next

(* The inductive invariant holds in every reachable state. *)
THEOREM Invariance == Spec => []Inv
  BY InitInv, NextInv, PTL DEF Spec

(* LiveTailLogs, logWorker and useDashboard: a tab shows one page, and no  *)
(* page opens its connection twice or leaves one behind, except the        *)
(* dashboard that was left while connect was fetching.                     *)
THEOREM OneConnectionPerPage == Spec => []ConnectionsAccounted
<1>1. Inv => ConnectionsAccounted
  BY DEF Inv
<1>2. QED
  BY <1>1, Invariance, PTL
=============================================================================

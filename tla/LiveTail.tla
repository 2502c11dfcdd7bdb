------------------------------- MODULE LiveTail -------------------------------
(***************************************************************************)
(* One live tail connection of the dashboard: the subscription that        *)
(* TailLiveLogs (transport/nats.go) pipes into a channel used as a ring    *)
(* buffer, and the handler handleLiveTail (dashboard/websocket.go) that    *)
(* forwards it to a WebSocket.                                             *)
(*                                                                         *)
(* Four goroutines run: the client library's callback of the subscription, *)
(* the handler, the reader that waits for the client to disconnect, and    *)
(* the watcher that cleans up when the context is done; a fifth publishes  *)
(* presence heartbeats.  Logs are numbered in the order of their publish.  *)
(***************************************************************************)
EXTENDS Integers, Sequences

CONSTANTS Capacity,  \* LIVE_TAIL_MAX_BATCH, the capacity of the channel
          MaxLogs    \* bound: logs published

ASSUME CapacityAssumption == Capacity \in Nat \ {0}
ASSUME LogsAssumption     == MaxLogs \in Nat

VARIABLES
  \* core NATS and the subscription
  published,  \* logs published so far
  pending,    \* logs the client library holds for the callback
  valid,      \* sub.IsValid()
  cb,         \* where the callback is
  msg,        \* the log it holds
  \* shared
  logCh,      \* the channel
  closed,     \* is it closed?
  once,       \* sync.Once of the cleanup: free, held or done
  cancelled,  \* is the context cancelled?
  \* the goroutines of the connection
  at,         \* where the handler and the watcher are
  reader,     \* is the reader running?
  presence,   \* is the presence publisher running?
  batch,      \* payloads accumulated between ticks
  \* the WebSocket and its client
  conn,       \* open, gone (client disconnected) or closed (by the handler)
  received    \* what the client got

subVars  == <<published, pending, valid>>
cbVars   == <<cb, msg>>
chanVars == <<logCh, closed>>
sideVars == <<reader, presence>>
wsVars   == <<conn, received>>
vars == <<published, pending, valid, cb, msg, logCh, closed, once, cancelled,
          at, reader, presence, batch, conn, received>>

Logs      == 1..MaxLogs
Actors    == {"handler", "watcher"}
Positions == {"none", "start", "select", "write", "wait", "cleanup", "unsub",
              "close", "cancel", "ws", "done"}

Init ==
  /\ published = 0
  /\ pending = <<>>
  /\ valid = FALSE
  /\ cb = "idle"
  /\ msg = 0
  /\ logCh = <<>>
  /\ closed = FALSE
  /\ once = "free"
  /\ cancelled = FALSE
  /\ at = [handler |-> "start", watcher |-> "none"]
  /\ reader = TRUE
  /\ presence = FALSE
  /\ batch = <<>>
  /\ conn = "open"
  /\ received = <<>>

Move(a, p) == at' = [at EXCEPT ![a] = p]

-----------------------------------------------------------------------------
(* Core NATS: at most once, in order, only while subscribed. *)

Publish ==
  /\ published < MaxLogs
  /\ published' = published + 1
  /\ pending' \in {pending} \cup (IF valid THEN {Append(pending, published + 1)} ELSE {})
  /\ UNCHANGED <<valid, cbVars, chanVars, once, cancelled, at, sideVars,
                 batch, wsVars>>

-----------------------------------------------------------------------------
(* The subscription's callback.  The library calls it for one message at a *)
(* time; a call that has started is not interrupted by Unsubscribe.        *)

Dispatch ==
  /\ cb = "idle"
  /\ valid
  /\ pending # <<>>
  /\ cb' = "check"
  /\ msg' = Head(pending)
  /\ pending' = Tail(pending)
  /\ UNCHANGED <<published, valid, chanVars, once, cancelled, at, sideVars,
                 batch, wsVars>>

Check ==
  /\ cb = "check"
  /\ cb' = IF cancelled THEN "idle" ELSE "try"
  /\ UNCHANGED <<subVars, msg, chanVars, once, cancelled, at, sideVars,
                 batch, wsVars>>

TrySend ==
  /\ cb = "try"
  /\ ~closed
  /\ IF Len(logCh) < Capacity THEN cb' = "idle" /\ logCh' = Append(logCh, msg)
                              ELSE cb' = "drop" /\ UNCHANGED logCh
  /\ UNCHANGED <<subVars, msg, closed, once, cancelled, at, sideVars, batch, wsVars>>

(* Slip: nothing is dropped before the blocking send. *)
DropNothing ==
  /\ cb = "drop"
  /\ cb' = "send"
  /\ UNCHANGED <<subVars, msg, chanVars, once, cancelled, at, sideVars,
                 batch, wsVars>>

DropOldest ==
  /\ cb = "drop"
  /\ cb' = "send"
  /\ logCh' = IF logCh = <<>> THEN <<>> ELSE Tail(logCh)
  /\ UNCHANGED <<subVars, msg, closed, once, cancelled, at, sideVars,
                 batch, wsVars>>

Send ==
  /\ cb = "send"
  /\ ~closed
  /\ Len(logCh) < Capacity
  /\ cb' = "idle"
  /\ logCh' = Append(logCh, msg)
  /\ UNCHANGED <<subVars, msg, closed, once, cancelled, at, sideVars, batch, wsVars>>

(* A send on a closed channel panics, in a goroutine that nobody guards:   *)
(* the process ends and with it every goroutine and subscription.          *)
SendOnClosed ==
  /\ cb \in {"try", "send"}
  /\ closed
  /\ cb' = "panicked"
  /\ valid' = FALSE
  /\ pending' = <<>>
  /\ at' = [a \in Actors |-> "none"]
  /\ reader' = FALSE
  /\ presence' = FALSE
  /\ UNCHANGED <<published, msg, chanVars, once, cancelled, batch, wsVars>>

-----------------------------------------------------------------------------
(* cleanup: run once, by the handler's defer or by the watcher; a second   *)
(* caller waits for the first.                                             *)

After(a) == IF a = "handler" THEN "cancel" ELSE "done"

(* Slip: no sync.Once. *)
EnterCleanupAlways(a) ==
  /\ at[a] = "cleanup"
  /\ once' = "held"
  /\ Move(a, "unsub")
  /\ UNCHANGED <<subVars, cbVars, chanVars, cancelled, sideVars, batch, wsVars>>

EnterCleanup(a) ==
  /\ at[a] = "cleanup"
  /\ once # "held"
  /\ IF once = "free" THEN once' = "held" /\ Move(a, "unsub")
                      ELSE Move(a, After(a)) /\ UNCHANGED once
  /\ UNCHANGED <<subVars, cbVars, chanVars, cancelled, sideVars, batch, wsVars>>

Unsubscribe(a) ==
  /\ at[a] = "unsub"
  /\ valid' = FALSE
  /\ pending' = <<>>
  /\ Move(a, "close")
  /\ UNCHANGED <<published, cbVars, chanVars, once, cancelled, sideVars,
                 batch, wsVars>>

CloseLogs(a) ==
  /\ at[a] = "close"
  /\ closed' = TRUE
  /\ once' = "done"
  /\ Move(a, After(a))
  /\ UNCHANGED <<subVars, cbVars, logCh, cancelled, sideVars, batch, wsVars>>

(* "in case context dies before caller cleans up" *)
Watch ==
  /\ at["watcher"] = "wait"
  /\ cancelled
  /\ Move("watcher", IF valid THEN "cleanup" ELSE "done")
  /\ UNCHANGED <<subVars, cbVars, chanVars, once, cancelled, sideVars,
                 batch, wsVars>>

-----------------------------------------------------------------------------
(* The handler *)

Subscribe ==
  /\ at["handler"] = "start"
  /\ valid' = TRUE
  /\ at' = [handler |-> "select", watcher |-> "wait"]
  /\ presence' = TRUE
  /\ UNCHANGED <<published, pending, cbVars, chanVars, once, cancelled,
                 reader, batch, wsVars>>

SubscribeFails ==
  /\ at["handler"] = "start"
  /\ Move("handler", "cancel")
  /\ UNCHANGED <<subVars, cbVars, chanVars, once, cancelled, sideVars,
                 batch, wsVars>>

(* The select statement picks any ready case. *)
SeeDone ==
  /\ at["handler"] = "select"
  /\ cancelled
  /\ Move("handler", "cleanup")
  /\ UNCHANGED <<subVars, cbVars, chanVars, once, cancelled, sideVars,
                 batch, wsVars>>

SeePayload ==
  /\ at["handler"] = "select"
  /\ logCh # <<>>
  /\ batch' = Append(batch, Head(logCh))
  /\ logCh' = Tail(logCh)
  /\ UNCHANGED <<subVars, cbVars, closed, once, cancelled, at, sideVars, wsVars>>

(* Slip: the second result of the receive is ignored. *)
SeeClosedUnchecked ==
  /\ at["handler"] = "select"
  /\ closed
  /\ logCh = <<>>
  /\ batch' = Append(batch, 0)
  /\ UNCHANGED <<subVars, cbVars, chanVars, once, cancelled, at, sideVars, wsVars>>

SeeClosed ==
  /\ at["handler"] = "select"
  /\ closed
  /\ logCh = <<>>
  /\ Move("handler", "cleanup")
  /\ UNCHANGED <<subVars, cbVars, chanVars, once, cancelled, sideVars,
                 batch, wsVars>>

Tick ==
  /\ at["handler"] = "select"
  /\ batch # <<>>
  /\ Move("handler", "write")
  /\ UNCHANGED <<subVars, cbVars, chanVars, once, cancelled, sideVars,
                 batch, wsVars>>

(* Slip: the batch is not emptied. *)
WriteAndKeep ==
  /\ at["handler"] = "write"
  /\ conn = "open"
  /\ received' = received \o batch
  /\ Move("handler", "select")
  /\ UNCHANGED <<subVars, cbVars, chanVars, once, cancelled, sideVars,
                 batch, conn>>

(* The write has no deadline: a slow client keeps the handler here. *)
Write ==
  /\ at["handler"] = "write"
  /\ conn = "open"
  /\ received' = received \o batch
  /\ batch' = <<>>
  /\ Move("handler", "select")
  /\ UNCHANGED <<subVars, cbVars, chanVars, once, cancelled, sideVars, conn>>

WriteFails ==
  /\ at["handler"] = "write"
  /\ conn = "gone"
  /\ Move("handler", "cleanup")
  /\ UNCHANGED <<subVars, cbVars, chanVars, once, cancelled, sideVars,
                 batch, wsVars>>

(* The deferred cancel and ws.Close run after the deferred cleanup. *)
CancelContext ==
  /\ at["handler"] = "cancel"
  /\ cancelled' = TRUE
  /\ Move("handler", "ws")
  /\ UNCHANGED <<subVars, cbVars, chanVars, once, sideVars, batch, wsVars>>

CloseWebSocket ==
  /\ at["handler"] = "ws"
  /\ conn' = "closed"
  /\ Move("handler", "done")
  /\ UNCHANGED <<subVars, cbVars, chanVars, once, cancelled, sideVars,
                 batch, received>>

-----------------------------------------------------------------------------
(* The other goroutines of the connection, and the client *)

(* Slip: the reader ends without cancelling the context. *)
ReaderLeaves ==
  /\ reader
  /\ conn # "open"
  /\ reader' = FALSE
  /\ UNCHANGED <<subVars, cbVars, chanVars, once, cancelled, at, presence,
                 batch, wsVars>>

ReaderCancels ==
  /\ reader
  /\ conn # "open"
  /\ reader' = FALSE
  /\ cancelled' = TRUE
  /\ UNCHANGED <<subVars, cbVars, chanVars, once, at, presence, batch, wsVars>>

StopPresence ==
  /\ presence
  /\ cancelled
  /\ presence' = FALSE
  /\ UNCHANGED <<subVars, cbVars, chanVars, once, cancelled, at, reader,
                 batch, wsVars>>

Disconnect ==
  /\ conn = "open"
  /\ conn' = "gone"
  /\ UNCHANGED <<subVars, cbVars, chanVars, once, cancelled, at, sideVars,
                 batch, received>>

-----------------------------------------------------------------------------
Callback == Dispatch \/ Check \/ TrySend \/ DropOldest \/ Send \/ SendOnClosed
Cleanup(a) == EnterCleanup(a) \/ Unsubscribe(a) \/ CloseLogs(a)
Start   == Subscribe \/ SubscribeFails
Leave   == SeeDone \/ SeeClosed \/ WriteFails \/ CancelContext \/ CloseWebSocket
Forward == SeePayload \/ Tick \/ Write

Next ==
  \/ Publish \/ Callback \/ (\E a \in Actors : Cleanup(a)) \/ Watch
  \/ Start \/ Leave \/ Forward
  \/ ReaderCancels \/ StopPresence \/ Disconnect

(* The goroutines are scheduled.  A select with several ready cases picks  *)
(* at random, so the done case is not passed over for ever.  Nothing       *)
(* obliges the client to read what is written or to disconnect.            *)
Fairness ==
  /\ WF_vars(Callback)
  /\ \A a \in Actors : WF_vars(Cleanup(a))
  /\ WF_vars(Watch)
  /\ WF_vars(Start)
  /\ SF_vars(Leave)
  /\ WF_vars(ReaderCancels)
  /\ WF_vars(StopPresence)

Spec == Init /\ [][Next]_vars /\ Fairness

-----------------------------------------------------------------------------
(* Properties *)

(* Type invariant; the channel never exceeds its capacity, and only logs,  *)
(* never the zero value of a closed channel, reach the batch.              *)
TypeOK ==
  /\ published \in 0..MaxLogs
  /\ pending \in Seq(Logs)
  /\ valid \in BOOLEAN
  /\ cb \in {"idle", "check", "try", "drop", "send", "panicked"}
  /\ msg \in {0} \cup Logs
  /\ cb \in {"check", "try", "drop", "send"} => msg \in Logs
  /\ logCh \in Seq(Logs) /\ Len(logCh) <= Capacity
  /\ closed \in BOOLEAN
  /\ once \in {"free", "held", "done"}
  /\ cancelled \in BOOLEAN
  /\ at \in [Actors -> Positions]
  /\ reader \in BOOLEAN /\ presence \in BOOLEAN
  /\ batch \in Seq(Logs)
  /\ conn \in {"open", "gone", "closed"}
  /\ received \in Seq(Logs)

(* "To protect the NATS connection from slow consumers ... the returned    *)
(* channel acts as a ring buffer": however slow the handler is, the        *)
(* callback's last, blocking send always finds room, because nobody else   *)
(* sends.                                                                  *)
CallbackNeverBlocks == cb = "send" => closed \/ Len(logCh) < Capacity

(* The client gets the logs in order and none twice, and what is dropped   *)
(* is older than everything still queued: from the client back to the      *)
(* library's queue the log numbers increase.                               *)
InHand == IF cb \in {"idle", "panicked"} THEN <<>> ELSE <<msg>>
Increasing(s) == \A i, j \in DOMAIN s : i < j => s[i] < s[j]
InOrder == Increasing(received \o batch \o logCh \o InHand \o pending)

(* The channel is closed once only (a second close panics), although the   *)
(* handler and the watcher both clean up, and never before the             *)
(* subscription has ended.                                                 *)
ClosedOnce ==
  /\ \A a \in Actors : at[a] = "close" => ~closed
  /\ closed => ~valid

(* The strengthening that makes the safety invariants inductive: who is in *)
(* the cleanup holds the once, the channel is closed only when the once is *)
(* done, and before the subscription neither has happened.                 *)
InCleanup(a) == at[a] \in {"unsub", "close"}
CleanupInv ==
  /\ \A a \in Actors : InCleanup(a) => once = "held"
  /\ ~(InCleanup("handler") /\ InCleanup("watcher"))
  /\ \A a \in Actors : at[a] = "close" => ~valid
  /\ once = "done" => ~valid
  /\ closed => once = "done"
  /\ at["handler"] = "start" => once = "free" /\ at["watcher"] = "none"

Inv == TypeOK /\ CallbackNeverBlocks /\ CleanupInv

(* A connection leaves nothing behind: when the client is gone, the        *)
(* handler returns, the subscription ends, the channel is closed and       *)
(* reader, watcher and presence publisher stop.  (Or the process panicked, *)
(* see SafeClose.)                                                         *)
Released ==
  /\ at["handler"] = "done"
  /\ at["watcher"] \in {"none", "done"}
  /\ at["watcher"] = "done" => closed
  /\ ~valid /\ ~reader /\ ~presence
ClientGoneReleases == conn = "gone" ~> (Released \/ cb = "panicked")

(* The comment above TailLiveLogs: executing the cleanup closure or        *)
(* cancelling the context will "safely close the channel".                 *)
SafeClose == cb # "panicked"

(* The documentation of LIVE_TAIL_MAX_BATCH: "Max number of log lines sent *)
(* per live tail batch".                                                   *)
BatchWithinMax == at["handler"] = "write" => Len(batch) <= Capacity
=============================================================================

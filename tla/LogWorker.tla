------------------------------ MODULE LogWorker ------------------------------
(***************************************************************************)
(* The live tail page (components/LiveTailLogs.tsx) and its web worker     *)
(* (workers/logWorker.ts): the worker keeps a WebSocket to the dashboard   *)
(* and reconnects with growing delays; page and worker post messages to    *)
(* each other.  Logs, pausing and rendering are left out.                  *)
(***************************************************************************)
EXTENDS Integers, Sequences, FiniteSets

CONSTANTS MaxSockets, \* bound: sockets that exist at a time
          MaxPosts    \* bound: status messages under way

ASSUME BoundsAssumption == MaxSockets \in Nat \ {0} /\ MaxPosts \in Nat \ {0}

NoSocket == 0
Sockets  == 1..MaxSockets
maxAttempts == 5

VARIABLES
  tail,              \* is the page shown, with its worker?
  connectionStatus,  \* what the page displays
  toWorker, toPage,  \* messages under way
  ws,                \* the socket that the worker knows of
  readyState,        \* of each socket; "none" when it is closed or not made
  reconnectAttempts,
  reconnectTimer     \* is it running?

worker   == <<ws, readyState, reconnectAttempts, reconnectTimer>>
tailVars == <<tail, connectionStatus, toWorker, toPage, ws, readyState,
              reconnectAttempts, reconnectTimer>>

TailInit ==
  /\ tail = FALSE /\ connectionStatus = "connecting"
  /\ toWorker = <<>> /\ toPage = <<>>
  /\ ws = NoSocket /\ readyState = [s \in Sockets |-> "none"]
  /\ reconnectAttempts = 0 /\ reconnectTimer = FALSE

(* Room for the messages of a step. *)
Room == Len(toPage) + 2 <= MaxPosts

updateStatus(statuses) == toPage' = toPage \o statuses

-----------------------------------------------------------------------------
(* connect: nothing to do when the socket is open; a socket that is not    *)
(* open yet is forgotten.                                                  *)
Connect ==
  IF ws # NoSocket /\ readyState[ws] = "open"
  THEN UNCHANGED <<ws, readyState, toPage>>
  ELSE \E s \in Sockets :
         /\ readyState[s] = "none"
         /\ ws' = s
         /\ readyState' = [readyState EXCEPT ![s] = "connecting"]
         /\ updateStatus(<<"connecting">>)

(* The page appears and starts its worker, which connects. *)
MountTail ==
  /\ ~tail /\ tail' = TRUE
  /\ connectionStatus' = "connecting"
  /\ Connect
  /\ UNCHANGED <<toWorker, reconnectAttempts, reconnectTimer>>

(* The page posts CLEANUP and terminates the worker.  Whether the worker   *)
(* still handles the message or not, its sockets and its timer are gone.   *)
UnmountTail ==
  /\ tail /\ tail' = FALSE
  /\ connectionStatus' = "connecting"
  /\ toWorker' = <<>> /\ toPage' = <<>>
  /\ ws' = NoSocket /\ readyState' = [s \in Sockets |-> "none"]
  /\ reconnectAttempts' = 0 /\ reconnectTimer' = FALSE

OnOpen(s) ==
  /\ Room
  /\ readyState[s] = "connecting"
  /\ readyState' = [readyState EXCEPT ![s] = "open"]
  /\ reconnectAttempts' = 0
  /\ updateStatus(<<"live">>)
  /\ UNCHANGED <<tail, connectionStatus, toWorker, ws, reconnectTimer>>

GivesUp == reconnectAttempts >= maxAttempts

(* Slip: the delay is scheduled although the attempts are used up.         *)
RetryAnyway ==
  /\ updateStatus(<<"error", "connecting">>)
  /\ reconnectTimer' = TRUE
  /\ UNCHANGED reconnectAttempts

(* Slip: the page is not told. *)
GiveUpSilently == UNCHANGED <<toPage, reconnectAttempts, reconnectTimer>>

GiveUp ==
  /\ updateStatus(<<"error">>)
  /\ UNCHANGED <<reconnectAttempts, reconnectTimer>>

ScheduleReconnect ==
  /\ updateStatus(<<"connecting">>)
  /\ reconnectAttempts' = reconnectAttempts + 1
  /\ reconnectTimer' = TRUE

(* The server closes the connection or cannot be reached; only CLEANUP     *)
(* closes it normally.                                                     *)
OnClose(s) ==
  /\ Room
  /\ readyState[s] # "none"
  /\ readyState' = [readyState EXCEPT ![s] = "none"]
  /\ ws' = NoSocket
  /\ IF GivesUp THEN GiveUp ELSE ScheduleReconnect
  /\ UNCHANGED <<tail, connectionStatus, toWorker>>

(* After 1, 2, 4, 8, 16 seconds. *)
TimerFires ==
  /\ Room
  /\ reconnectTimer
  /\ reconnectTimer' = FALSE
  /\ Connect
  /\ UNCHANGED <<tail, connectionStatus, toWorker, reconnectAttempts>>

OnReconnect ==
  /\ Room
  /\ toWorker # <<>>
  /\ toWorker' = Tail(toWorker)
  /\ reconnectAttempts' = 0
  /\ reconnectTimer' = FALSE
  /\ Connect
  /\ UNCHANGED <<tail, connectionStatus>>

-----------------------------------------------------------------------------
(* The page *)

OnStatus ==
  /\ toPage # <<>>
  /\ connectionStatus' = Head(toPage)
  /\ toPage' = Tail(toPage)
  /\ UNCHANGED <<tail, toWorker, worker>>

(* The Retry button is there while the status is error. *)
handleReconnect ==
  /\ tail /\ connectionStatus = "error"
  /\ connectionStatus' = "connecting"
  /\ toWorker' = Append(toWorker, "RECONNECT")
  /\ UNCHANGED <<tail, toPage, worker>>

-----------------------------------------------------------------------------
TailStep ==
  \/ \E s \in Sockets : OnOpen(s) \/ OnClose(s)
  \/ TimerFires \/ OnReconnect \/ OnStatus \/ handleReconnect

(* Messages arrive, timers fire, and an attempt to connect ends.           *)
TailFairness ==
  /\ WF_tailVars(OnStatus) /\ WF_tailVars(OnReconnect) /\ WF_tailVars(TimerFires)
  /\ WF_tailVars(\E s \in Sockets :
                   readyState[s] = "connecting" /\ (OnOpen(s) \/ OnClose(s)))

-----------------------------------------------------------------------------
(* Properties *)

TailTypeOK ==
  /\ tail \in BOOLEAN /\ connectionStatus \in {"connecting", "live", "error"}
  /\ toWorker \in Seq({"RECONNECT"}) /\ toPage \in Seq({"connecting", "live", "error"})
  /\ Len(toPage) <= MaxPosts
  /\ ws \in Sockets \cup {NoSocket}
  /\ readyState \in [Sockets -> {"none", "connecting", "open"}]
  /\ reconnectAttempts \in 0..maxAttempts /\ reconnectTimer \in BOOLEAN

(* However often the connection breaks and the user retries, the worker    *)
(* has one socket, the one it knows of, or else it waits for one timer, or *)
(* it has given up; so each log is shown once.  The guard in connect does  *)
(* not see to that, since it lets a connecting socket be forgotten; what   *)
(* does is that the Retry button appears only after the worker gave up.    *)
OneConnection ==
  /\ \A s \in Sockets : readyState[s] # "none" => ws = s
  /\ ~(reconnectTimer /\ ws # NoSocket)
  /\ toWorker # <<>> => ws = NoSocket /\ ~reconnectTimer /\ Len(toWorker) = 1

(* The strengthening that makes it inductive: an error is the last thing   *)
(* the worker says before it is idle, and it stays idle until the page has *)
(* heard of it, offered the retry and posted it; without the page there is *)
(* nothing.                                                                *)
Idle == ws = NoSocket /\ ~reconnectTimer

TailInv ==
  /\ \A i \in DOMAIN toPage : toPage[i] = "error" =>
       Idle /\ toWorker = <<>> /\ connectionStatus # "error" /\ i = Len(toPage)
  /\ connectionStatus = "error" \/ toWorker # <<>> => Idle /\ toPage = <<>>
  /\ connectionStatus = "error" => toWorker = <<>>
  /\ ~tail => /\ Idle /\ toWorker = <<>> /\ toPage = <<>> /\ connectionStatus = "connecting"
              /\ reconnectAttempts = 0

(* The page does not show "connecting" for ever: it becomes live, reports  *)
(* the error, or is left.                                                  *)
TailSettles == (tail /\ connectionStatus = "connecting") ~> (connectionStatus # "connecting" \/ ~tail)
=============================================================================

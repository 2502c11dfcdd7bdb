------------------------------- MODULE Frontend -------------------------------
(***************************************************************************)
(* A browser tab: the router shows the dashboard page, the live tail page, *)
(* or another one, and mounts and unmounts their components.               *)
(***************************************************************************)
EXTENDS LogWorker, DashboardHook

vars == <<tail, connectionStatus, toWorker, toPage, ws, readyState, reconnectAttempts,
          reconnectTimer, mounts, shown, fetching, source, isError, quiet, abandoned>>

Init == TailInit /\ HookInit

(* The user follows a link of the drawer. *)
Navigate ==
  \/ ~tail /\ MountDashboard /\ UNCHANGED tailVars
  \/ UnmountDashboard /\ UNCHANGED tailVars
  \/ UnmountDashboard /\ MountTail
  \/ shown = NoMount /\ MountTail /\ UNCHANGED hookVars
  \/ UnmountTail /\ UNCHANGED hookVars
  \/ UnmountTail /\ MountDashboard

Next ==
  \/ Navigate
  \/ TailStep /\ UNCHANGED hookVars
  \/ HookStep /\ UNCHANGED tailVars

Spec == Init /\ [][Next]_vars /\ TailFairness /\ HookFairness

-----------------------------------------------------------------------------
(* One page at a time; no connection of any page is opened twice or left   *)
(* behind, except by a dashboard that was left while it was connecting.    *)
ConnectionsAccounted ==
  /\ TailTypeOK /\ HookTypeOK
  /\ ~(tail /\ shown # NoMount)
  /\ ~tail => ws = NoSocket
  /\ OneConnection
  /\ StreamsAccounted

(* What a page says about its connection becomes true, or it says          *)
(* something else.                                                         *)
StatusSettles == TailSettles /\ LiveMeansStream
=============================================================================

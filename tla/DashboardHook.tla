---------------------------- MODULE DashboardHook ----------------------------
(***************************************************************************)
(* The hook useDashboard (hooks/useMetrics.ts) behind the dashboard page:  *)
(* connect fetches all metrics and then opens an event stream; a watchdog  *)
(* reports a stream that has gone quiet; the page offers a retry.  Every   *)
(* mount of the page is an instance of the hook with its own reference.    *)
(***************************************************************************)
EXTENDS Integers, FiniteSets

CONSTANT MaxMounts   \* bound: times that the page is shown

ASSUME MountsAssumption == MaxMounts \in Nat

Mounts  == 1..MaxMounts
NoMount == 0

VARIABLES
  mounts,      \* times it was shown so far
  shown,       \* the instance that is shown
  fetching,    \* has an instance a connect under way?
  source,      \* state of the stream in eventSourceRef
  isError,     \* of the instance shown
  quiet,       \* has it had no message for more than 15 seconds?
  abandoned    \* instances that were left with a connect under way

hookVars == <<mounts, shown, fetching, source, isError, quiet, abandoned>>

HookInit ==
  /\ mounts = 0 /\ shown = NoMount
  /\ fetching = [k \in Mounts |-> FALSE]
  /\ source = [k \in Mounts |-> "none"]
  /\ isError = FALSE /\ quiet = FALSE
  /\ abandoned = {}

connect(k) == fetching' = [fetching EXCEPT ![k] = TRUE]

MountDashboard ==
  /\ shown = NoMount /\ mounts < MaxMounts
  /\ mounts' = mounts + 1
  /\ shown' = mounts + 1
  /\ isError' = FALSE /\ quiet' = FALSE
  /\ connect(mounts + 1)
  /\ UNCHANGED <<source, abandoned>>

CloseSource == source' = [source EXCEPT ![shown] =
                                 IF @ = "none" THEN "none" ELSE "closed"]

UnmountDashboard ==
  /\ shown # NoMount
  /\ shown' = NoMount
  /\ CloseSource
  /\ abandoned' = IF fetching[shown] THEN abandoned \cup {shown} ELSE abandoned
  /\ isError' = FALSE /\ quiet' = FALSE
  /\ UNCHANGED <<mounts, fetching>>

(* The states of an instance that is not shown are not seen by anyone.     *)
Shows(k, error, silent) ==
  IF k = shown THEN isError' = error /\ quiet' = silent ELSE UNCHANGED <<isError, quiet>>

(* All requests are answered, or one fails; the stream is opened either    *)
(* way, in place of an earlier one, and the watchdog's clock is reset.     *)
Fetched(k) ==
  /\ fetching[k]
  /\ fetching' = [fetching EXCEPT ![k] = FALSE]
  /\ source' = [source EXCEPT ![k] = "connecting"]
  /\ \E failed \in BOOLEAN : Shows(k, failed, FALSE)
  /\ UNCHANGED <<mounts, shown, abandoned>>

Retry ==
  /\ shown # NoMount /\ isError /\ ~fetching[shown]
  /\ connect(shown)
  /\ UNCHANGED <<mounts, shown, source, isError, quiet, abandoned>>

SourceOpens(k) ==
  /\ source[k] = "connecting"
  /\ source' = [source EXCEPT ![k] = "open"]
  /\ Shows(k, FALSE, FALSE)
  /\ UNCHANGED <<mounts, shown, fetching, abandoned>>

OnError(k) == Shows(k, TRUE, quiet)

(* The browser connects again, or gives up when the answer is an error.    *)
SourceFails(k) ==
  /\ source[k] \in {"connecting", "open"}
  /\ \E next \in {"connecting", "closed"} : source' = [source EXCEPT ![k] = next]
  /\ OnError(k)
  /\ UNCHANGED <<mounts, shown, fetching, abandoned>>

Message ==
  /\ shown # NoMount /\ source[shown] = "open"
  /\ Shows(shown, FALSE, FALSE)
  /\ UNCHANGED <<mounts, shown, fetching, source, abandoned>>

(* 15 seconds without a message. *)
Silence ==
  /\ shown # NoMount /\ ~quiet
  /\ quiet' = TRUE
  /\ UNCHANGED <<mounts, shown, fetching, source, isError, abandoned>>

(* The watchdog looks every 5 seconds. *)
Watchdog ==
  /\ shown # NoMount /\ quiet
  /\ isError' = TRUE
  /\ UNCHANGED <<mounts, shown, fetching, source, quiet, abandoned>>

HookStep ==
  \/ \E k \in Mounts : Fetched(k) \/ SourceOpens(k) \/ SourceFails(k)
  \/ Retry \/ Message \/ Silence \/ Watchdog

(* Time passes and the watchdog's interval runs. *)
HookFairness == WF_hookVars(Silence) /\ WF_hookVars(Watchdog)

-----------------------------------------------------------------------------
(* Properties *)

HookTypeOK ==
  /\ mounts \in 0..MaxMounts /\ shown \in {NoMount, mounts}
  /\ fetching \in [Mounts -> BOOLEAN]
  /\ source \in [Mounts -> {"none", "connecting", "open", "closed"}]
  /\ isError \in BOOLEAN /\ quiet \in BOOLEAN
  /\ abandoned \subseteq Mounts

getStatus == IF fetching[shown] THEN "connecting" ELSE IF isError THEN "error" ELSE "live"

(* A stream that is not closed belongs to the page that is shown, or the   *)
(* page was left while connect was fetching: that connect opens a stream   *)
(* that nobody will close.                                                 *)
StreamsAccounted ==
  \A k \in Mounts : source[k] \in {"connecting", "open"} => k = shown \/ k \in abandoned

(* The strengthening: a connect under way is the shown page's or was left. *)
FetchesAccounted == \A k \in Mounts : fetching[k] => k = shown \/ k \in abandoned

(* The page does not call itself live for ever without a stream: the       *)
(* stream comes, or the status changes, or the page is left.               *)
LiveMeansStream ==
  (shown # NoMount /\ getStatus = "live" /\ source[shown] # "open")
    ~> (shown = NoMount \/ getStatus # "live" \/ source[shown] = "open")
=============================================================================

----------------------------- MODULE AtLeastOnce -----------------------------
(***************************************************************************)
(* What the log pipeline promises for one durable consumer, without any of *)
(* the machinery (buffers, batches, acknowledgements in flight): the       *)
(* broker keeps a message until somebody has accounted for it.  A message  *)
(* is accounted for when it was stored, dead-lettered, or dropped with an  *)
(* error in the log.  The broker may also give a message up: after         *)
(* MaxDeliver attempts, or because the stream reached its limits.          *)
(***************************************************************************)
EXTENDS Naturals

CONSTANTS Msgs,         \* the published log payloads
          MaxDeliver,   \* delivery attempts per message (NATS_MAX_DELIVER)
          Undecodable,  \* payloads that never decompress or decode
          Panics        \* payloads on which the worker's job panics

VARIABLES broker,    \* what the broker knows of each message
          attempts,  \* delivery attempts made for each message
          stored,    \* messages with at least one row in the database
          dead,      \* messages in the dead-letter stream
          dropped    \* messages dropped with an error in the log

vars == <<broker, attempts, stored, dead, dropped>>

BrokerStates == {"absent", "held", "acked", "exhausted", "discarded"}

TypeOK ==
  /\ broker \in [Msgs -> BrokerStates]
  /\ attempts \in [Msgs -> 0..MaxDeliver]
  /\ stored \subseteq Msgs
  /\ dead \subseteq Msgs
  /\ dropped \subseteq Msgs

Init ==
  /\ broker = [m \in Msgs |-> "absent"]
  /\ attempts = [m \in Msgs |-> 0]
  /\ stored = {}
  /\ dead = {}
  /\ dropped = {}

Accounted(m) == m \in stored \cup dead \cup dropped

Move(m, from, to) ==
  /\ broker[m] = from
  /\ broker' = [broker EXCEPT ![m] = to]

Accept(m) ==
  /\ Move(m, "absent", "held")
  /\ UNCHANGED <<attempts, stored, dead, dropped>>

Attempt(m) ==
  /\ broker[m] = "held"
  /\ attempts[m] < MaxDeliver
  /\ attempts' = [attempts EXCEPT ![m] = @ + 1]
  /\ UNCHANGED <<broker, stored, dead, dropped>>

(* One insert stores the messages S and drops the messages D.  A message   *)
(* that can be decoded is dropped only in the company of one that panics.  *)
Process(S, D) ==
  /\ \A m \in S \cup D : attempts[m] > 0
  /\ S \cap Undecodable = {}
  /\ D \subseteq Undecodable \/ (S \cup D) \cap Panics # {}
  /\ stored' = stored \cup S
  /\ dropped' = dropped \cup D
  /\ UNCHANGED <<broker, attempts, dead>>

(* The last attempt failed: the message is dead-lettered, or the dead-     *)
(* letter publish reported an error ("message will be lost") which may     *)
(* itself be wrong, or both.                                               *)
GiveUp(m, inDlq, inLog) ==
  /\ attempts[m] = MaxDeliver
  /\ inDlq \/ inLog
  /\ dead' = IF inDlq THEN dead \cup {m} ELSE dead
  /\ dropped' = IF inLog THEN dropped \cup {m} ELSE dropped
  /\ UNCHANGED <<broker, attempts, stored>>

Acknowledge(m) ==
  /\ Accounted(m)
  /\ Move(m, "held", "acked")
  /\ UNCHANGED <<attempts, stored, dead, dropped>>

Exhaust(m) ==
  /\ attempts[m] = MaxDeliver
  /\ Move(m, "held", "exhausted")
  /\ UNCHANGED <<attempts, stored, dead, dropped>>

Discard(m) ==
  /\ Move(m, "held", "discarded")
  /\ UNCHANGED <<attempts, stored, dead, dropped>>

Next ==
  \/ \E m \in Msgs :
       \/ Accept(m) \/ Attempt(m) \/ Acknowledge(m) \/ Exhaust(m) \/ Discard(m)
       \/ \E inDlq, inLog \in BOOLEAN : GiveUp(m, inDlq, inLog)
  \/ \E S, D \in SUBSET Msgs : Process(S, D)

Spec == Init /\ [][Next]_vars
=============================================================================

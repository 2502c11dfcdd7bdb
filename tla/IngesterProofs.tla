---------------------------- MODULE IngesterProofs ----------------------------
(***************************************************************************)
(* Proofs about the ingester, for any requests and headers, any number of  *)
(* buffers and any bounds on the calls of the clients.                     *)
(***************************************************************************)
EXTENDS Ingester, TLAPS

(* From the read to the publish a handler's buffer holds its own request,  *)
(* which the middlewares have let in.                                      *)
InHand ==
  \A c \in Calls : at[c] \in Running =>
    /\ ~Refused(c[1])
    /\ at[c] = "publish" => holds[buf[c]] = c[1]

(* What was published is intact and labelled as its request is.            *)
Published ==
  \A m \in wire \cup stored :
    /\ m.bytes = m.call[1]
    /\ m.call[1] \in Http => ~Refused(m.call[1])
                             /\ m.type = Type[m.call[1]] /\ m.encoding = Encoding[m.call[1]]
    /\ m.call[1] \in Grpc => m.type = "proto"
                             /\ m.encoding = detectCompression(Body[m.call[1]])

(* A handler that is about to answer with a success has seen its message   *)
(* stored.                                                                 *)
AckSeen == \A c \in Calls : at[c] = "accept" => \E m \in stored : m.call = c

Inv == TypeOK /\ OneOwner /\ InHand /\ Published /\ AckSeen /\ AcceptedIsStored

-----------------------------------------------------------------------------
LEMMA CallParts ==
  ASSUME NEW c \in Calls
  PROVE  c[1] \in Requests /\ Proto(c[1]) \in {"http", "grpc"}
  BY DEF Calls, Proto

LEMMA FreshBuffers == Fresh \subseteq {b \in Buffers : made[b] = "none"}
  BY DEF Fresh

LEMMA InitInv == Init => Inv
<1> SUFFICES ASSUME Init PROVE Inv
  OBVIOUS
<1>1. TypeOK
  BY DEF Init, TypeOK, Running
<1>2. OneOwner /\ InHand /\ Published /\ AckSeen /\ AcceptedIsStored
  BY DEF Init, OneOwner, InHand, Published, AckSeen, AcceptedIsStored, Running
<1>3. QED
  BY <1>1, <1>2 DEF Inv

(* A step of the process, of the connection or of the stream leaves calls   *)
(* and buffers alone.                                                      *)
LEMMA ProcessStep ==
  ASSUME Inv, UNCHANGED <<callVars, bufferVars>>, TypeOK',
         UNCHANGED brokerVars \/ \E m \in wire : Store(m)
  PROVE  Inv'
<1>1. /\ wire' \cup stored' = wire \cup stored
      /\ stored \subseteq stored'
  BY DEF brokerVars, Store
<1>2. OneOwner' /\ InHand'
  BY DEF Inv, OneOwner, InHand, callVars, bufferVars, Refused
<1>3. Published'
  BY <1>1 DEF Inv, Published, Refused
<1>4. AckSeen' /\ AcceptedIsStored'
  BY <1>1 DEF Inv, AckSeen, AcceptedIsStored, callVars
<1>5. QED
  BY <1>2, <1>3, <1>4 DEF Inv

(* The process ends: no handler runs any more.                             *)
LEMMA ExitStep ==
  ASSUME Inv, Exit, conn' \in {"none", "closed"}
  PROVE  Inv'
<1>1. \A c \in Calls : at'[c] \notin Running /\ at'[c] # "accept"
  BY DEF Exit, Running
<1>2. TypeOK'
  <2>1. at' \in [Calls -> Running \cup {"unsent", "done"}]
    BY DEF Exit, Inv, TypeOK
  <2>2. answer' \in [Calls -> {"none", "ok", "error", "gaveup", "refused", "empty"}]
    BY DEF Exit, Inv, TypeOK
  <2>3. QED
    BY <1>1, <2>1, <2>2 DEF Exit, Inv, TypeOK, bufferVars, brokerVars
<1>3. \A c \in Calls : answer'[c] = "ok" => answer[c] = "ok"
  BY DEF Exit
<1>4. OneOwner' /\ InHand' /\ AckSeen'
  BY <1>1 DEF OneOwner, InHand, AckSeen
<1>5. Published' /\ AcceptedIsStored'
  BY <1>3 DEF Exit, brokerVars, Inv, Published, AcceptedIsStored, Refused
<1>6. QED
  BY <1>2, <1>4, <1>5 DEF Inv

-----------------------------------------------------------------------------
(* Clients                                                                 *)

LEMMA SendStep ==
  ASSUME Inv, NEW c \in Calls, NEW b \in Buffers, Send(c, b)
  PROVE  Inv'
<1>1. (b \in pooled /\ made[b] = Proto(c[1])) \/ (made[b] = "none" /\ b \notin pooled)
  <2>1. CASE b \in Fresh
    <3>1. made[b] = "none"
      BY <2>1, FreshBuffers
    <3>2. pooled \subseteq {x \in Buffers : made[x] # "none"}
      BY DEF Inv, TypeOK
    <3>3. QED
      BY <3>1, <3>2
  <2>2. CASE b \in pooled /\ made[b] = Proto(c[1])
    BY <2>2
  <2>3. b \in Fresh \/ (b \in pooled /\ made[b] = Proto(c[1]))
    BY DEF Send, Offered
  <2>4. QED
    BY <2>1, <2>2, <2>3
<1>2. \A d \in Calls : at'[d] = (IF d = c THEN "read" ELSE at[d])
                       /\ buf'[d] = (IF d = c THEN b ELSE buf[d])
  BY DEF Send, Inv, TypeOK
<1>3. \A x \in Buffers : made'[x] = IF x = b THEN Proto(c[1]) ELSE made[x]
  BY <1>1 DEF Send, Inv, TypeOK
<1>4. /\ pooled' = pooled \ {b} /\ answer' = answer
      /\ UNCHANGED <<processVars, conn, holds, brokerVars>>
      /\ at[c] = "unsent" /\ ~Refused(c[1])
  BY DEF Send
<1>5. \A d \in Calls : at[d] \in Running => buf[d] # b
  BY <1>1, CallParts DEF Inv, OneOwner, TypeOK
<1>6. TypeOK'
  <2>1. /\ at' \in [Calls -> Running \cup {"unsent", "done"}]
        /\ buf' \in [Calls -> Buffers \cup {NoBuf}]
    BY DEF Send, Inv, TypeOK, Running
  <2>2. made' \in [Buffers -> {"none", "http", "grpc"}]
    BY <1>3, CallParts DEF Send, Inv, TypeOK
  <2>3. pooled' \subseteq {x \in Buffers : made'[x] # "none"}
    BY <1>3, <1>4 DEF Inv, TypeOK
  <2>4. \A d \in Calls : at'[d] \in Running =>
          buf'[d] \in Buffers /\ made'[buf'[d]] = Proto(d[1])
    BY <1>2, <1>3, <1>5 DEF Inv, TypeOK
  <2>5. QED
    BY <1>4, <2>1, <2>2, <2>3, <2>4 DEF Inv, TypeOK, processVars, brokerVars
<1>7. OneOwner'
  BY <1>2, <1>4, <1>5 DEF Inv, OneOwner
<1>8. InHand'
  BY <1>2, <1>4 DEF Inv, InHand, Refused
<1>9. Published' /\ AckSeen' /\ AcceptedIsStored'
  BY <1>2, <1>4 DEF Inv, Published, AckSeen, AcceptedIsStored, brokerVars, Refused
<1>10. QED
  BY <1>6, <1>7, <1>8, <1>9 DEF Inv

LEMMA AnswerStep ==
  ASSUME Inv, NEW c \in Calls, SendRefused(c) \/ GivesUp(c)
  PROVE  Inv'
<1>1. /\ UNCHANGED <<processVars, conn, buf, bufferVars, brokerVars>>
      /\ \A d \in Calls : at'[d] # at[d] => at'[d] = "done"
      /\ \A d \in Calls : answer'[d] = "ok" => answer[d] = "ok"
  BY DEF SendRefused, GivesUp, Inv, TypeOK
<1>2. TypeOK'
  <2>1. /\ at' \in [Calls -> Running \cup {"unsent", "done"}]
        /\ answer' \in [Calls -> {"none", "ok", "error", "gaveup", "refused", "empty"}]
    BY DEF SendRefused, GivesUp, Inv, TypeOK
  <2>2. QED
    BY <1>1, <2>1 DEF Inv, TypeOK, Running, processVars, bufferVars, brokerVars
<1>3. OneOwner' /\ InHand' /\ AckSeen'
  BY <1>1 DEF Inv, OneOwner, InHand, AckSeen, Running, bufferVars, brokerVars, Refused
<1>4. Published' /\ AcceptedIsStored'
  BY <1>1 DEF Inv, Published, AcceptedIsStored, brokerVars, Refused
<1>5. QED
  BY <1>2, <1>3, <1>4 DEF Inv

-----------------------------------------------------------------------------
(* The handler                                                             *)

LEMMA ReadStep ==
  ASSUME Inv, NEW c \in Calls, Read(c) \/ ReadFails(c)
  PROVE  Inv'
<1>1. at[c] = "read" /\ buf[c] \in Buffers /\ c[1] \in Requests
  BY CallParts DEF Read, ReadFails, Inv, TypeOK, Running
<1>2. /\ UNCHANGED <<processVars, conn, buf, answer, made, pooled, brokerVars>>
      /\ holds' = [holds EXCEPT ![buf[c]] = c[1]]
      /\ at' \in [Calls -> Running \cup {"unsent", "done"}]
      /\ at'[c] \in {"publish", "fail"}
      /\ \A d \in Calls \ {c} : at'[d] = at[d]
  BY DEF Read, ReadFails, To, Inv, TypeOK, Running
<1>3. \A d \in Calls : at'[d] \in Running <=> at[d] \in Running
  BY <1>1, <1>2 DEF Running
<1>4. TypeOK'
  BY <1>1, <1>2, <1>3 DEF Inv, TypeOK, processVars, brokerVars
<1>5. OneOwner'
  BY <1>2, <1>3 DEF Inv, OneOwner
<1>6. \A d \in Calls \ {c} : at[d] \in Running => buf[d] # buf[c]
  BY <1>1 DEF Inv, OneOwner, Running
<1>7. InHand'
  BY <1>1, <1>2, <1>3, <1>6 DEF Inv, InHand, TypeOK, Refused, Running
<1>8. Published' /\ AckSeen' /\ AcceptedIsStored'
  BY <1>2 DEF Inv, Published, AckSeen, AcceptedIsStored, brokerVars, Refused
<1>9. QED
  BY <1>4, <1>5, <1>7, <1>8 DEF Inv

(* The message of a handler that holds its request is labelled as it is.   *)
LEMMA MessageIntact ==
  ASSUME Inv, NEW c \in Calls, at[c] = "publish"
  PROVE  /\ Message(c) \in Messages
         /\ Message(c).call = c /\ Message(c).bytes = c[1]
         /\ c[1] \in Http => ~Refused(c[1]) /\ Message(c).type = Type[c[1]]
                             /\ Message(c).encoding = Encoding[c[1]]
         /\ c[1] \in Grpc => Message(c).type = "proto"
                             /\ Message(c).encoding = detectCompression(Body[c[1]])
<1>1. c[1] \in Requests /\ holds[buf[c]] = c[1] /\ ~Refused(c[1])
  BY CallParts DEF Inv, InHand, Running
<1>2. c[1] \in Http => Label(c).type = Type[c[1]] /\ Label(c).encoding = Encoding[c[1]]
  BY DEF Label
<1>3. c[1] \in Grpc => /\ Label(c).type = "proto"
                       /\ Label(c).encoding = detectCompression(Body[c[1]])
  BY <1>1, ProtocolAssumption DEF Label
<1>4. Label(c).type \in Types /\ Label(c).encoding \in Encodings
  <2>1. detectCompression(Body[c[1]]) \in Encodings
    BY DEF detectCompression, Encodings
  <2>2. QED
    BY <1>1, <1>2, <1>3, <2>1, HeaderAssumption DEF Requests, Types, Formats
<1>5. QED
  BY <1>1, <1>2, <1>3, <1>4 DEF Message, Messages

LEMMA PublishStep ==
  ASSUME Inv, NEW c \in Calls, Publish(c)
  PROVE  Inv'
<1>1. /\ at[c] = "publish" /\ wire' = wire \cup {Message(c)} /\ stored' = stored
      /\ UNCHANGED <<processVars, conn, buf, answer, bufferVars>>
      /\ at' \in [Calls -> Running \cup {"unsent", "done"}]
      /\ at'[c] = "wait"
      /\ \A d \in Calls \ {c} : at'[d] = at[d]
  BY DEF Publish, To, Inv, TypeOK, Running
<1>2. \A d \in Calls : at'[d] \in Running <=> at[d] \in Running
  BY <1>1 DEF Running
<1>3. TypeOK'
  BY <1>1, <1>2, MessageIntact DEF Inv, TypeOK, processVars, bufferVars
<1>4. OneOwner' /\ InHand'
  BY <1>1, <1>2 DEF Inv, OneOwner, InHand, bufferVars, Refused
<1>5. \A m \in wire' \cup stored' : m \in wire \cup stored \/ m = Message(c)
  BY <1>1
<1>6. Published'
  BY <1>1, <1>5, MessageIntact DEF Inv, Published, Refused
<1>7. AckSeen' /\ AcceptedIsStored'
  BY <1>1 DEF Inv, AckSeen, AcceptedIsStored
<1>8. QED
  BY <1>3, <1>4, <1>6, <1>7 DEF Inv

LEMMA WaitStep ==
  ASSUME Inv, NEW c \in Calls, PublishFails(c) \/ Acked(c) \/ TimesOut(c)
  PROVE  Inv'
<1>1. /\ at[c] \in {"publish", "wait"}
      /\ UNCHANGED <<processVars, conn, buf, answer, bufferVars, brokerVars>>
      /\ at' \in [Calls -> Running \cup {"unsent", "done"}]
      /\ at'[c] \in {"accept", "fail"}
      /\ at'[c] = "accept" => \E m \in stored : m.call = c
      /\ \A d \in Calls \ {c} : at'[d] = at[d]
  BY DEF PublishFails, Acked, TimesOut, To, Inv, TypeOK, Running
<1>2. \A d \in Calls : at'[d] \in Running <=> at[d] \in Running
  BY <1>1 DEF Running
<1>3. TypeOK'
  BY <1>1, <1>2 DEF Inv, TypeOK, processVars, bufferVars, brokerVars
<1>4. OneOwner' /\ InHand'
  BY <1>1, <1>2 DEF Inv, OneOwner, InHand, bufferVars, Refused
<1>5. Published' /\ AckSeen' /\ AcceptedIsStored'
  BY <1>1 DEF Inv, Published, AckSeen, AcceptedIsStored, brokerVars, Refused
<1>6. QED
  BY <1>3, <1>4, <1>5 DEF Inv

LEMMA ReplyStep ==
  ASSUME Inv, NEW c \in Calls, Reply(c) \/ ReadEnds(c)
  PROVE  Inv'
<1>1. /\ at[c] \in Running
      /\ UNCHANGED <<processVars, conn, buf, made, holds, brokerVars>>
      /\ at' \in [Calls -> Running \cup {"unsent", "done"}]
      /\ at'[c] = "done"
      /\ \A d \in Calls \ {c} : at'[d] = at[d]
      /\ pooled' \in {pooled, pooled \cup {buf[c]}}
  BY DEF Reply, ReadEnds, To, Inv, TypeOK, Running
<1>2. /\ answer' \in [Calls -> {"none", "ok", "error", "gaveup", "refused", "empty"}]
      /\ \A d \in Calls : answer'[d] = "ok" => answer[d] = "ok" \/ (d = c /\ at[c] = "accept")
  BY DEF Reply, ReadEnds, Inv, TypeOK
<1>3. buf[c] \in Buffers /\ made[buf[c]] # "none"
  BY <1>1, CallParts DEF Inv, TypeOK
<1>4. \A d \in Calls : at'[d] \in Running => d # c /\ at[d] \in Running
  BY <1>1 DEF Running
<1>5. TypeOK'
  BY <1>1, <1>2, <1>3, <1>4 DEF Inv, TypeOK, processVars, brokerVars
<1>6. OneOwner' /\ InHand'
  BY <1>1, <1>4 DEF Inv, OneOwner, InHand, Refused
<1>7. Published'
  BY <1>1 DEF Inv, Published, brokerVars, Refused
<1>8. AckSeen' /\ AcceptedIsStored'
  BY <1>1, <1>2 DEF Inv, AckSeen, AcceptedIsStored, brokerVars
<1>9. QED
  BY <1>5, <1>6, <1>7, <1>8 DEF Inv

-----------------------------------------------------------------------------
LEMMA NextInv == Inv /\ [Next]_vars => Inv'
<1> SUFFICES ASSUME Inv, [Next]_vars PROVE Inv'
  OBVIOUS
<1> USE DEF processVars, callVars, bufferVars, brokerVars
<1>1. CASE Connect \/ Ensure \/ Listen
  <2>1. TypeOK'
    BY <1>1 DEF Connect, Ensure, Listen, Inv, TypeOK
  <2>2. QED
    BY <1>1, <2>1, ProcessStep DEF Connect, Ensure, Listen
<1>2. CASE HttpShutdown \/ GracefulStop \/ CloseBroker
  <2>1. TypeOK'
    BY <1>2 DEF HttpShutdown, GracefulStop, CloseBroker, Inv, TypeOK
  <2>2. QED
    BY <1>2, <2>1, ProcessStep DEF HttpShutdown, GracefulStop, CloseBroker
<1>3. CASE Signal \/ GiveUp \/ UNCHANGED vars
  <2>1. TypeOK'
    BY <1>3 DEF Signal, GiveUp, vars, Inv, TypeOK
  <2>2. QED
    BY <1>3, <2>1, ProcessStep DEF Signal, GiveUp, vars
<1>4. CASE StartFails \/ Drained
  BY <1>4, ExitStep DEF StartFails, Drained
<1>5. ASSUME NEW c \in Calls, Client(c) PROVE Inv'
  BY <1>5, SendStep, AnswerStep DEF Client
<1>6. ASSUME NEW c \in Calls, Handler(c) PROVE Inv'
  BY <1>6, ReadStep, PublishStep, WaitStep, ReplyStep DEF Handler
<1>7. ASSUME NEW m \in wire, Store(m) PROVE Inv'
  <2>1. TypeOK'
    BY <1>7 DEF Store, Inv, TypeOK
  <2>2. QED
    BY <1>7, <2>1, ProcessStep DEF Store
<1>8. QED
  BY <1>1, <1>2, <1>3, <1>4, <1>5, <1>6, <1>7 DEF Next, Start, Shutdown, Finished

(* The worker reads what the labels promise.                               *)
LEMMA PublishedDecodes == Inv => StoredIntact /\ StoredDecodes
<1> SUFFICES ASSUME Inv, NEW m \in stored
             PROVE  m.bytes = m.call[1] /\ Decodes(Body[m.bytes], m.type, m.encoding)
  BY DEF StoredIntact, StoredDecodes
<1> DEFINE r == m.call[1]
           p == Body[r]
<1>1. m.bytes = r /\ r \in Requests /\ p \in Payloads
  BY HeaderAssumption, CallParts DEF Inv, TypeOK, Messages, Published
<1>2. /\ m.type \in Formats /\ p.format = m.type
      /\ \/ m.encoding \in {"", "identity"} /\ p.coding = "identity"
         \/ m.encoding \in Codings /\ p.coding = m.encoding
  <2>1. CASE r \in Http
    <3>1. /\ m.type = Type[r] /\ m.encoding = Encoding[r]
          /\ AcceptsType(Type[r]) /\ AcceptsEncoding(Encoding[r])
      BY <2>1 DEF Inv, Published, Refused
    <3>2. /\ p.format = Type[r]
          /\ p.coding = (IF Encoding[r] = "" THEN "identity" ELSE Encoding[r])
      BY <2>1, <3>1, LabelAssumption
    <3>3. QED
      BY <3>1, <3>2 DEF AcceptsType, AcceptsEncoding, Codings
  <2>2. CASE r \in Grpc
    <3>1. m.type = "proto" /\ m.encoding = detectCompression(p) /\ p.format = "proto"
      BY <2>2, LabelAssumption DEF Inv, Published
    <3>2. p.coding \in Codings \cup {"identity"}
      BY <1>1 DEF Payloads
    <3>3. QED
      BY <3>1, <3>2 DEF detectCompression, Formats, Codings
  <2>3. QED
    BY <1>1, <2>1, <2>2 DEF Requests
<1>3. [format |-> m.type, coding |-> "identity"] \in decompress(p, m.encoding)
  <2>1. CASE m.encoding \in {"", "identity"} /\ p.coding = "identity"
    <3>1. p = [format |-> m.type, coding |-> "identity"]
      BY <1>1, <1>2, <2>1 DEF Payloads
    <3>2. decompress(p, m.encoding) = {p}
      BY <2>1 DEF decompress, Codings
    <3>3. QED
      BY <3>1, <3>2
  <2>2. CASE m.encoding \in Codings /\ p.coding = m.encoding
    <3>1. [p EXCEPT !.coding = "identity"] = [format |-> m.type, coding |-> "identity"]
      <4>1. p = [format |-> m.type, coding |-> m.encoding]
        BY <1>1, <1>2, <2>2 DEF Payloads
      <4>2. QED
        BY <4>1
    <3>2. decompress(p, m.encoding) = {[p EXCEPT !.coding = "identity"]}
      BY <2>2 DEF decompress, Codings
    <3>3. QED
      BY <3>1, <3>2
  <2>3. QED
    BY <1>2, <2>1, <2>2
<1>4. decode([format |-> m.type, coding |-> "identity"], m.type) # {}
  BY <1>2 DEF decode
<1>5. QED
  BY <1>1, <1>3, <1>4 DEF Decodes

-----------------------------------------------------------------------------
(* The theorems                                                            *)

(* The invariant: types, ownership of buffers, what the buffers and the    *)
(* messages hold, and what success means.                                  *)
THEOREM Invariance == Spec => []Inv
<1>1. Init => Inv
  BY InitInv
<1>2. Inv /\ [Next]_vars => Inv'
  BY NextInv
<1>3. QED
  BY <1>1, <1>2, PTL DEF Spec

(* Every variable has its type, and a running handler has a buffer of the  *)
(* pool of its protocol.                                                   *)
THEOREM TypeCorrect == Spec => []TypeOK
<1>1. Inv => TypeOK
  BY DEF Inv
<1>2. QED
  BY <1>1, Invariance, PTL

(* The pooled buffers of routes.go and grpc_proxy.go are never shared.     *)
THEOREM Ownership == Spec => []OneOwner
<1>1. Inv => OneOwner
  BY DEF Inv
<1>2. QED
  BY <1>1, Invariance, PTL

(* What the stream holds for a call is the body of the call.               *)
THEOREM Integrity == Spec => []StoredIntact
<1>1. Inv => StoredIntact
  BY PublishedDecodes
<1>2. QED
  BY <1>1, Invariance, PTL

(* The worker can decompress and decode every message the ingester stored. *)
THEOREM Compatibility == Spec => []StoredDecodes
<1>1. Inv => StoredDecodes
  BY PublishedDecodes
<1>2. QED
  BY <1>1, Invariance, PTL

(* A client that saw a success has its logs in the stream.                 *)
THEOREM Acceptance == Spec => []AcceptedIsStored
<1>1. Inv => AcceptedIsStored
  BY DEF Inv
<1>2. QED
  BY <1>1, Invariance, PTL
=============================================================================

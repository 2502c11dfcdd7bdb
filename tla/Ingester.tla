------------------------------- MODULE Ingester -------------------------------
(***************************************************************************)
(* The ingester process: cmd/ingester/main.go, the HTTP handler            *)
(* (ingester/routes.go), the gRPC handler (ingester/grpc_proxy.go) and the *)
(* broker it publishes with (transport/nats.go), with clients that send a  *)
(* request again when they saw no success.                                 *)
(*                                                                         *)
(* A call is one attempt of a request.  A client may give up on a call and *)
(* start the next while the handler of the first still runs.  Bodies are   *)
(* read into pooled buffers; what a buffer holds is kept apart from the    *)
(* call that uses it, so that a buffer in two hands shows.                 *)
(***************************************************************************)
EXTENDS Integers, FiniteSets, Codec

CONSTANTS Http, Grpc,    \* requests by protocol
          Body,          \* Body[r]: the payload of a request
          Type, Encoding,\* Type[r], Encoding[r]: its HTTP headers
          Big,           \* requests whose buffer outgrows INGESTER_BUFFER_LIMIT
          Buffers,       \* names of buffers
          MaxTries,      \* bound: calls per request
          MaxCalls       \* bound: calls of all requests

Requests == Http \cup Grpc
Tries    == 1..MaxTries
Calls    == Requests \X Tries

ASSUME ProtocolAssumption == Http \cap Grpc = {} /\ IsFiniteSet(Requests)
ASSUME HeaderAssumption ==
  /\ Body \in [Requests -> Payloads]
  /\ Type \in [Requests -> Types] /\ Encoding \in [Requests -> Encodings]
  /\ Big \subseteq Requests

(* Clients label what they send, and gRPC's format is protobuf.            *)
ASSUME LabelAssumption ==
  /\ \A r \in Http : AcceptsType(Type[r]) => Body[r].format = Type[r]
  /\ \A r \in Http : AcceptsEncoding(Encoding[r]) =>
       Body[r].coding = (IF Encoding[r] = "" THEN "identity" ELSE Encoding[r])
  /\ \A r \in Grpc : Body[r].format = "proto"

ASSUME BoundsAssumption == MaxTries \in Nat \ {0} /\ MaxCalls \in Nat

VARIABLES
  \* the process
  server,    \* where run() is
  httpUp,    \* does the HTTP server listen?
  signalled, \* has SIGTERM arrived?
  conn,      \* the NATS connection
  \* the calls
  at,        \* where the handler of each call is
  buf,       \* its buffer
  answer,    \* what the client of each call saw
  \* the buffer pools
  made,      \* the pool each allocated buffer is of
  pooled,    \* buffers in a pool
  holds,     \* the request whose bytes each buffer holds
  \* the broker
  wire,      \* published and not yet stored
  stored     \* messages of the LOGS stream

processVars == <<server, httpUp, signalled>>
callVars    == <<at, buf, answer>>
bufferVars  == <<made, pooled, holds>>
brokerVars  == <<wire, stored>>
vars == <<server, httpUp, signalled, conn, at, buf, answer, made, pooled, holds,
          wire, stored>>

Nobody == "nobody"
NoBuf  == "nobuf"
Running == {"read", "publish", "wait", "accept", "fail"}
Messages == [call : Calls, bytes : Requests \cup {Nobody}, type : Types, encoding : Encodings]

Proto(r)  == IF r \in Http THEN "http" ELSE "grpc"
Active(P) == {c \in Calls : c[1] \in P /\ at[c] \in Running}

Init ==
  /\ server = "connect" /\ httpUp = FALSE /\ signalled = FALSE
  /\ conn = "none"
  /\ at = [c \in Calls |-> "unsent"]
  /\ buf = [c \in Calls |-> NoBuf]
  /\ answer = [c \in Calls |-> "none"]
  /\ made = [b \in Buffers |-> "none"]
  /\ pooled = {}
  /\ holds = [b \in Buffers |-> Nobody]
  /\ wire = {} /\ stored = {}

-----------------------------------------------------------------------------
(* run(): start *)

Signal ==
  /\ ~signalled
  /\ server # "exited"
  /\ signalled' = TRUE
  /\ UNCHANGED <<server, httpUp, conn, callVars, bufferVars, brokerVars>>

(* The process ends; clients of running handlers see a broken connection. *)
Exit ==
  /\ server' = "exited"
  /\ httpUp' = FALSE
  /\ at' = [c \in Calls |-> IF at[c] \in Running THEN "done" ELSE at[c]]
  /\ answer' = [c \in Calls |-> IF at[c] \in Running THEN "error" ELSE answer[c]]
  /\ UNCHANGED <<signalled, buf, bufferVars, brokerVars>>

Connect ==
  /\ server = "connect"
  /\ server' = "ensure"
  /\ conn' = "up"
  /\ UNCHANGED <<httpUp, signalled, callVars, bufferVars, brokerVars>>

(* EnsureLogStream, and the goroutine of the HTTP server: that it cannot    *)
(* listen is only logged.                                                  *)
Ensure ==
  /\ server = "ensure"
  /\ conn = "up" /\ ~signalled
  /\ server' = "listen"
  /\ httpUp' \in BOOLEAN
  /\ UNCHANGED <<signalled, conn, callVars, bufferVars, brokerVars>>

Listen ==
  /\ server = "listen"
  /\ server' = "serving"
  /\ UNCHANGED <<httpUp, signalled, conn, callVars, bufferVars, brokerVars>>

(* Any step of the start may fail; run returns without closing the broker. *)
StartFails ==
  /\ server \in {"connect", "ensure", "listen"}
  /\ conn' = "none"
  /\ Exit

-----------------------------------------------------------------------------
(* run(): the shutdown job, then Close of the broker *)

HttpShutdown ==
  /\ server = "serving"
  /\ signalled
  /\ server' = "http"
  /\ httpUp' = FALSE
  /\ UNCHANGED <<signalled, conn, callVars, bufferVars, brokerVars>>

(* Shutdown returns when no HTTP handler runs, or after 10 s anyway. *)
GracefulStop ==
  /\ server = "http"
  /\ server' = "grpc"
  /\ UNCHANGED <<httpUp, signalled, conn, callVars, bufferVars, brokerVars>>

(* GracefulStop has no time-out.  Close then drains the connection; of one *)
(* that is closed already the closed handler is never called.              *)
CloseBroker ==
  /\ server = "grpc"
  /\ Active(Grpc) = {}
  /\ server' = "closing"
  /\ conn' = IF conn = "up" THEN "draining" ELSE conn
  /\ UNCHANGED <<httpUp, signalled, callVars, bufferVars, brokerVars>>

(* Slip: the closed handler is set after Drain, and may miss the close.    *)
DrainedUnseen ==
  /\ conn = "draining"
  /\ conn' = "closed"
  /\ UNCHANGED <<processVars, callVars, bufferVars, brokerVars>>

(* Drained or timed out (5 s), the connection is closed and run returns.   *)
Drained ==
  /\ server = "closing"
  /\ conn = "draining"
  /\ conn' = "closed"
  /\ Exit

(* Reconnecting is given up after 60 attempts: the connection is closed.   *)
GiveUp ==
  /\ conn = "up"
  /\ conn' = "lost"
  /\ UNCHANGED <<processVars, callVars, bufferVars, brokerVars>>

-----------------------------------------------------------------------------
(* Clients *)

Accepting(r) == IF r \in Http THEN httpUp ELSE server \in {"serving", "http"}

Refused(r) ==
  r \in Http /\ ~(AcceptsType(Type[r]) /\ AcceptsEncoding(Encoding[r]))

(* A call is sent again if the one before got no success. *)
Due(c) ==
  /\ Cardinality({d \in Calls : at[d] # "unsent"}) < MaxCalls
  /\ c[2] > 1 => answer[<<c[1], c[2] - 1>>] \in {"error", "gaveup"}

(* A buffer of the protocol's pool or a new one; new ones are alike.       *)
Fresh == LET new == {b \in Buffers : made[b] = "none"}
         IN  IF new = {} THEN {} ELSE {CHOOSE b \in new : TRUE}

(* Slip: one pool for both protocols. *)
OfferedAny(r) == pooled \cup Fresh

Offered(r) == {b \in pooled : made[b] = Proto(r)} \cup Fresh

(* The middlewares answer 415 before any buffer is taken. *)
SendRefused(c) ==
  /\ at[c] = "unsent" /\ Due(c)
  /\ Accepting(c[1]) /\ Refused(c[1])
  /\ at' = [at EXCEPT ![c] = "done"]
  /\ answer' = [answer EXCEPT ![c] = "refused"]
  /\ UNCHANGED <<processVars, conn, buf, bufferVars, brokerVars>>

Send(c, b) ==
  /\ at[c] = "unsent" /\ Due(c)
  /\ Accepting(c[1]) /\ ~Refused(c[1])
  /\ b \in Offered(c[1])
  /\ at' = [at EXCEPT ![c] = "read"]
  /\ buf' = [buf EXCEPT ![c] = b]
  /\ made' = [made EXCEPT ![b] = IF @ = "none" THEN Proto(c[1]) ELSE @]
  /\ pooled' = pooled \ {b}
  /\ UNCHANGED <<processVars, conn, answer, holds, brokerVars>>

GivesUp(c) ==
  /\ at[c] \in Running
  /\ answer[c] = "none"
  /\ answer' = [answer EXCEPT ![c] = "gaveup"]
  /\ UNCHANGED <<processVars, conn, at, buf, bufferVars, brokerVars>>

-----------------------------------------------------------------------------
(* The handler of a call: handleOTLPLogs, or the stream handler of gRPC *)

To(c, place) == at' = [at EXCEPT ![c] = place]

(* Slip: the Put is deferred in the function that reads the body. *)
ReadAndPut(c) ==
  /\ at[c] = "read"
  /\ To(c, "publish")
  /\ holds' = [holds EXCEPT ![buf[c]] = c[1]]
  /\ pooled' = pooled \cup {buf[c]}
  /\ UNCHANGED <<processVars, conn, buf, answer, made, brokerVars>>

(* ReadFrom, or RecvMsg. *)
Read(c) ==
  /\ at[c] = "read"
  /\ To(c, "publish")
  /\ holds' = [holds EXCEPT ![buf[c]] = c[1]]
  /\ UNCHANGED <<processVars, conn, buf, answer, made, pooled, brokerVars>>

(* A body that ends early leaves some of its bytes in the buffer.          *)
ReadFails(c) ==
  /\ at[c] = "read"
  /\ To(c, "fail")
  /\ holds' = [holds EXCEPT ![buf[c]] = c[1]]
  /\ UNCHANGED <<processVars, conn, buf, answer, made, pooled, brokerVars>>

(* A gRPC stream that is closed before its frame (io.EOF) ends with OK:    *)
(* nothing is published, and no logs came with it.  The Put is deferred.   *)
ReadEnds(c) ==
  /\ at[c] = "read" /\ c[1] \in Grpc
  /\ To(c, "done")
  /\ answer' = [answer EXCEPT ![c] = IF @ = "gaveup" THEN @ ELSE "empty"]
  /\ pooled' = IF c[1] \in Big THEN pooled ELSE pooled \cup {buf[c]}
  /\ UNCHANGED <<processVars, conn, buf, made, holds, brokerVars>>

(* The headers of the message: those of the HTTP request, or what the      *)
(* bytes of the frame look like.                                           *)
Label(c) == IF c[1] \in Http
            THEN [type |-> Type[c[1]], encoding |-> Encoding[c[1]]]
            ELSE [type |-> "proto", encoding |-> detectCompression(Body[holds[buf[c]]])]

Message(c) == [call |-> c, bytes |-> holds[buf[c]],
               type |-> Label(c).type, encoding |-> Label(c).encoding]

(* Slip: the deferred Put does not wait for the publish. *)
PublishAfterPut(c) ==
  /\ at[c] = "publish"
  /\ conn \in {"up", "draining"}
  /\ wire' = wire \cup {Message(c)}
  /\ To(c, "wait")
  /\ pooled' = pooled \cup {buf[c]}
  /\ UNCHANGED <<processVars, conn, buf, answer, made, holds, stored>>

(* PublishMsg copies the bytes into the connection's write buffer, also    *)
(* while the connection is down, and waits for the stream's answer.        *)
Publish(c) ==
  /\ at[c] = "publish"
  /\ conn \in {"up", "draining"}
  /\ wire' = wire \cup {Message(c)}
  /\ To(c, "wait")
  /\ UNCHANGED <<processVars, conn, buf, answer, bufferVars, stored>>

(* Publishing on a connection that drains or is closed fails at once. *)
PublishFails(c) ==
  /\ at[c] = "publish"
  /\ conn # "up"
  /\ To(c, "fail")
  /\ UNCHANGED <<processVars, conn, buf, answer, bufferVars, brokerVars>>

(* Slip: fire and forget; no answer of the stream is needed. *)
AckedUnseen(c) ==
  /\ at[c] = "wait"
  /\ To(c, "accept")
  /\ UNCHANGED <<processVars, conn, buf, answer, bufferVars, brokerVars>>

Acked(c) ==
  /\ at[c] = "wait"
  /\ \E m \in stored : m.call = c
  /\ To(c, "accept")
  /\ UNCHANGED <<processVars, conn, buf, answer, bufferVars, brokerVars>>

(* Slip: a timed-out publish is tried again by the handler. *)
TimesOutAndRepeats(c) ==
  /\ at[c] = "wait"
  /\ To(c, "publish")
  /\ UNCHANGED <<processVars, conn, buf, answer, bufferVars, brokerVars>>

(* 5 s, set by the HTTP handler; JetStream sets the same for gRPC, whose   *)
(* context may have no deadline.  Or the client went away.                 *)
TimesOut(c) ==
  /\ at[c] = "wait"
  /\ To(c, "fail")
  /\ UNCHANGED <<processVars, conn, buf, answer, bufferVars, brokerVars>>

(* The answer, which the client may miss, and the deferred Put.            *)
Reply(c) ==
  /\ at[c] \in {"accept", "fail"}
  /\ To(c, "done")
  /\ IF answer[c] = "gaveup"
     THEN UNCHANGED answer
     ELSE \E seen \in {"error", IF at[c] = "accept" THEN "ok" ELSE "error"} :
            answer' = [answer EXCEPT ![c] = seen]
  /\ pooled' = IF c[1] \in Big THEN pooled ELSE pooled \cup {buf[c]}
  /\ UNCHANGED <<processVars, conn, buf, made, holds, brokerVars>>

-----------------------------------------------------------------------------
(* The stream: a message may be stored late, or never *)

Store(m) ==
  /\ m \in wire
  /\ wire' = wire \ {m}
  /\ stored' = stored \cup {m}
  /\ UNCHANGED <<processVars, conn, callVars, bufferVars>>

-----------------------------------------------------------------------------
Start    == Connect \/ Ensure \/ Listen \/ StartFails
Shutdown == HttpShutdown \/ GracefulStop \/ CloseBroker \/ Drained
Client(c)  == SendRefused(c) \/ (\E b \in Buffers : Send(c, b)) \/ GivesUp(c)
Handler(c) == Read(c) \/ ReadFails(c) \/ ReadEnds(c) \/ Publish(c) \/ PublishFails(c)
              \/ Acked(c) \/ TimesOut(c) \/ Reply(c)

(* Run has returned, or Close waits for ever. *)
Finished ==
  /\ server = "exited" \/ (server = "closing" /\ conn = "lost")
  /\ UNCHANGED vars

Next ==
  \/ Start \/ Signal \/ Shutdown \/ GiveUp
  \/ \E c \in Calls : Client(c) \/ Handler(c)
  \/ \E m \in wire : Store(m)
  \/ Finished

(* run() goes on, and so do the handlers: every wait of theirs has a       *)
(* time-out, except that the client of a gRPC stream may take for ever to  *)
(* send its frame.                                                         *)
Fairness ==
  /\ WF_vars(Start) /\ WF_vars(Shutdown)
  /\ WF_vars(\E c \in Calls : Handler(c) /\ (at[c] = "read" => c[1] \in Http))

Spec == Init /\ [][Next]_vars /\ Fairness

-----------------------------------------------------------------------------
(* Properties *)

(* Type invariant; whoever runs has a buffer in hand, of its protocol. *)
TypeOK ==
  /\ server \in {"connect", "ensure", "listen", "serving", "http", "grpc", "closing", "exited"}
  /\ httpUp \in BOOLEAN /\ signalled \in BOOLEAN
  /\ conn \in {"none", "up", "lost", "draining", "closed"}
  /\ at \in [Calls -> Running \cup {"unsent", "done"}]
  /\ buf \in [Calls -> Buffers \cup {NoBuf}]
  /\ answer \in [Calls -> {"none", "ok", "error", "gaveup", "refused", "empty"}]
  /\ made \in [Buffers -> {"none", "http", "grpc"}]
  /\ pooled \subseteq {b \in Buffers : made[b] # "none"}
  /\ holds \in [Buffers -> Requests \cup {Nobody}]
  /\ wire \subseteq Messages /\ stored \subseteq Messages
  /\ \A c \in Calls : at[c] \in Running =>
       buf[c] \in Buffers /\ made[buf[c]] = Proto(c[1])

(* A buffer is in one place: in a pool, or in the hands of one handler     *)
(* ("return buffer if capacity does not exceed limit"), also when a client *)
(* sends its request again while the first handler still runs.             *)
OneOwner ==
  \A c \in Calls : at[c] \in Running =>
    /\ buf[c] \notin pooled
    /\ \A d \in Calls : at[d] \in Running /\ buf[d] = buf[c] => d = c

(* What the stream holds for a call are the bytes of its request, though   *)
(* the buffers they were read into are used again.                         *)
StoredIntact == \A m \in stored : m.bytes = m.call[1]

(* The worker can decompress and decode every stored message by its        *)
(* headers: the two processes agree on the labels, for both protocols.     *)
StoredDecodes == \A m \in stored : Decodes(Body[m.bytes], m.type, m.encoding)

(* A client that saw 202, or an OK, has its logs in the stream: whatever   *)
(* is lost, late or cut short by the shutdown is answered by an error.     *)
AcceptedIsStored ==
  \A c \in Calls : answer[c] = "ok" => \E m \in stored : m.call = c

(* A handler that has its request answers, also when the stream never      *)
(* does; an HTTP handler needs no more than the first byte of it.          *)
HandlerReturns ==
  \A c \in Calls :
    (at[c] = "publish" \/ (at[c] = "read" /\ c[1] \in Http)) ~> at[c] = "done"

(* After the signal run returns, unless a gRPC client keeps its stream open *)
(* without sending (GracefulStop has no time-out) or the connection had    *)
(* been given up (Close waits for a handler that is not called again).     *)
ShutdownCompletes ==
  signalled ~> \/ server = "exited" \/ conn = "lost"
               \/ \E c \in Active(Grpc) : at[c] = "read"
=============================================================================

----------------------------- MODULE TransactionProofs -----------------------------
(***************************************************************************)
(* For every set of methods and any number of bytes: the safety of         *)
(* connection handling in Transaction by one inductive invariant, IInv,    *)
(* and on top of it what a transaction reports (EndInv, ProgressInv), that *)
(* it implements the lifecycle, and what happens to the data it carries    *)
(* (TunnelDataInv, PlainDataInv).                                          *)
(***************************************************************************)
EXTENDS TransactionProperties, TLAPS

\* Where a chain may be.
Releasing == {"release", "closing", "resetting"}
EndPlaces == Releasing \cup {"fail", "failed", "complete", "done"}

MainPlaces ==
  { "begin", "read_request", "reading_request", "opening", "send_request",
    "sending_request", "read_response", "reading_response", "send_response",
    "sending_response", "send_reply", "sending_reply", "start_up", "start_down" }
  \cup EndPlaces

TunnelPlaces == { "idle", "reading", "forward", "writing", "loop" } \cup EndPlaces

\* main at work on its own, before the tunnel and before any release.
MainWorks == MainPlaces \ (EndPlaces \cup {"start_down"})

MainNeedsRemote ==
  { "send_request", "sending_request", "read_response", "reading_response",
    "send_response", "sending_response", "start_up" }

PlacesInv == /\ pc["main"] \in MainPlaces
             /\ \A c \in Directions : pc[c] \in TunnelPlaces

\* mutex_ is held exactly while release_connections runs: everything else that
\* takes it is a single action.
MutexInv == \A c \in Chains : mutex = c <=> pc[c] \in {"closing", "resetting"}

\* The directions run only once main has started them.
StartInv == /\ pc["main"] \notin {"start_down", "done"} =>
                 \A c \in Directions : pc[c] = "idle"
            /\ pc["main"] = "start_down" => pc["down"] = "idle" /\ pc["up"] # "idle"

\* What main has in hand while it works; a tunnel has both ends or neither.
HoldInv == /\ pc["main"] \in MainWorks => ptr["client"]
           /\ pc["main"] \in MainNeedsRemote => ptr["remote"]
           /\ pc["main"] \in {"send_reply", "sending_reply"} /\ err["main"] = NoError =>
                ptr["remote"]
           /\ pc["main"] \in {"begin", "read_request", "reading_request", "opening"} =>
                ~ptr["remote"]
           /\ ~ptr["client"] => ~ptr["remote"]
           /\ pc["up"] # "idle" => ptr["client"] = ptr["remote"]

\* Past its release a chain has no connection left, nor has anyone else.
DropInv == /\ \A c \in Chains : pc[c] \in {"fail", "failed", "complete"} => ~ptr["client"]
           /\ \A c \in Directions : pc[c] = "done" => ~ptr["client"]
           /\ pc["main"] = "done" /\ pc["up"] = "idle" => ~ptr["client"]
           /\ pc["main"] = "done" /\ pc["down"] = "idle" => ~ptr["client"]

Is(c, kind, end, buf) == op[c].kind = kind /\ op[c].end = end /\ op[c].buf = buf

\* The operation a chain has outstanding, from where it waits.
MainOpInv ==
  /\ pc["main"] = "reading_request"  => Is("main", "read", "client", "read_buffer_")
  /\ pc["main"] = "opening"          => Is("main", "open", "remote", "own")
  /\ pc["main"] = "sending_request"  => Is("main", "write", "remote", "own")
  /\ pc["main"] = "reading_response" => Is("main", "read", "remote", "read_buffer_")
  /\ pc["main"] = "sending_response" => Is("main", "write", "client", "raw_input_")
  /\ pc["main"] = "sending_reply"    => Is("main", "write", "client", "own")

TunnelOpInv ==
  \A c \in Directions :
    /\ pc[c] = "reading" => Is(c, "read", Source(c), TunnelBuffer(c))
    /\ pc[c] = "forward" => Is(c, "read", Source(c), TunnelBuffer(c)) /\ ~Pending(c)
    /\ pc[c] = "writing" => Is(c, "write", Sink(c), TunnelBuffer(c))

IdleOpInv ==
  \A c \in Chains : pc[c] \notin Waiting \cup {"forward"} => op[c] = NoOp

\* A socket is open while the transaction holds its connection and nobody is
\* releasing it; then, if at all, while its caller holds it.  open_ is cleared
\* before the pointers are.
SocketInv ==
  /\ \A e \in Ends : ptr[e] /\ (\A c \in Chains : pc[c] # "resetting") => sock[e]
  /\ \A e \in Ends : sock[e] => ptr[e] \/ lent[e]
  /\ \A e \in Ends : open[e] => ptr[e] \/ pc["main"] = "opening"
  /\ \A c \in Chains : pc[c] = "resetting" => \A e \in Ends : ~open[e]
  /\ pc["main"] = "opening" =>
       /\ sock["remote"] <=> op["main"].result = "ok"
       /\ lent["remote"] <=> op["main"].result = "ok"
       /\ open["remote"] => op["main"].result = "ok"
  /\ pc["main"] \in {"begin", "read_request", "reading_request"} => ~lent["remote"]

ControlInv == /\ PlacesInv
              /\ MutexInv
              /\ NoDoubleRelease
              /\ StartInv
              /\ HoldInv
              /\ DropInv

OpInv == /\ MainOpInv
         /\ TunnelOpInv
         /\ IdleOpInv

IInv == /\ TypeOK
        /\ ControlInv
        /\ OpInv
        /\ SocketInv
        /\ NoStrandedOperation

--------------------------------------------------------------------------------
\* Giving one chain an operation leaves every chain with one.
LEMMA OpUpdated ==
  ASSUME op \in [Chains -> Op], NEW c \in Chains, NEW o \in Op
  PROVE  [ op EXCEPT ![c] = o ] \in [Chains -> Op]
  OBVIOUS

USE DEF Chains, Directions, Ends

\* do_notification stays within the enumeration, and only adds to the counts.
LEMMA NotifyTyped ==
  ASSUME TypeOK, NEW target \in NotificationState, Notify(target)
  PROVE  ns' \in NotificationState /\ raised' \in [Signals -> Nat] /\ error' = error
  BY DEF TypeOK, Notify, Raise, Advanced, NotificationState, None, Error

\* The phases a buffer can pass, and what is notified of them, are in range.
LEMMA OutcomeTyped ==
  ASSUME TypeOK, NEW phase \in ParsePhase, NEW o \in ParseOutcomes(phase)
  PROVE  /\ PhaseAfter(o) \in ParsePhase
         /\ PhaseNotified(phase, o) \in NotificationState
         /\ o.verdict \in Verdicts
  BY DEF TypeOK, ParseOutcomes, PhaseAfter, PhaseNotified, PhaseTarget, ParsePhase,
         NotificationState, Start, ReceivedMessageLine, ReceivedHeaders, ReceivedBody,
         ReceivedFullMessage, None, Error, RequestLine, RequestHeaders, RequestBody,
         RequestComplete, ResponseHeaders, ResponseBody, ResponseComplete, RequestStates,
         ResponseStates, Verdicts

\* The operations the code starts, and what becomes of them, are operations.
LEMMA OpTyped ==
  /\ NoOp \in Op
  /\ OpenRemote \in Op
  /\ \A e \in Ends, b \in Buffers \cup {"raw_input_", "own"} :
       Read(e, b) \in Op /\ Write(e, b) \in Op
  /\ \A o \in Op, r \in Results : [ o EXCEPT !.result = r ] \in Op
  BY DEF Op, NoOp, OpenRemote, Read, Write, Started, Kinds, Results, Buffers

\* The operations of a tunnel's direction are operations.
LEMMA TunnelOpTyped ==
  \A c \in Directions : /\ Read(Source(c), TunnelBuffer(c)) \in Op
                        /\ Write(Sink(c), TunnelBuffer(c)) \in Op
  BY OpTyped DEF Source, Sink, TunnelBuffer, Buffers

\* Closing sockets leaves every chain with an operation.
LEMMA AbortedTyped ==
  ASSUME TypeOK, NEW ends
  PROVE  Aborted(ends) \in [Chains -> Op]
  BY OpTyped DEF TypeOK, Aborted, Results

\* main's steps preserve types.
LEMMA StartTyped ==
  ASSUME TypeOK, NEW at, NEW needed, NEW o \in Op, NEW then \in Places,
         LockedStart(at, needed, o, then)
  PROVE  TypeOK'
  BY DEF TypeOK, LockedStart, Goto, Places, Failures, FailWith, ReleaseThen, notif,
         parse, data

\* The read handler of the request preserves types, in every outcome of
\* the parser.
LEMMA RequestTyped == TypeOK /\ OnClientRequestRead => TypeOK'
<1> SUFFICES ASSUME TypeOK, OnClientRequestRead PROVE TypeOK'
  OBVIOUS
<1> USE DEF TypeOK, OnClientRequestRead, Places, Waiting, Failures, Forget, Goto,
            FailWith, ReleaseThen, data
<1>1. CASE ReadFailed("ClientDisconnected") /\ Forget("main")
  BY <1>1, OpTyped DEF ReadFailed, ErrorOf, notif, parse
<1>2. ASSUME NEW o \in ParseOutcomes(request_parse_phase), RequestParsed(o),
             UNCHANGED << method, response_parse_phase, raw_input >>
      PROVE  TypeOK'
  <2>1. PhaseAfter(o) \in ParsePhase
        /\ PhaseNotified(request_parse_phase, o) \in NotificationState
    BY OutcomeTyped
  <2>2. RequestComplete \in NotificationState
    BY DEF RequestComplete, NotificationState, None, Error
  <2>3. ns' \in NotificationState /\ raised' \in [Signals -> Nat] /\ error' = error
    BY <1>2, <2>1, <2>2, NotifyTyped DEF RequestParsed
  <2>4. request_parse_phase' \in ParsePhase
    BY <1>2, <2>1 DEF RequestParsed
  <2>5. \E x \in Op : op' = [ op EXCEPT !["main"] = x ]
    BY <1>2, OpTyped DEF RequestParsed
  <2>6. op' \in [Chains -> Op]
    BY <2>5, OpUpdated
  <2>7. /\ pc' \in [Chains -> Places]
        /\ ret' \in [Chains -> {"fail", "complete", "done"}]
        /\ err' \in [Chains -> Failures \cup {NoError}]
    BY <1>2 DEF RequestParsed
  <2> QED  BY <1>2, <2>3, <2>4, <2>6, <2>7
<1> QED  BY <1>1, <1>2

\* So does the read handler of the response, which collects raw_input_.
LEMMA ResponseTyped == TypeOK /\ OnRemoteResponseRead => TypeOK'
<1> SUFFICES ASSUME TypeOK, OnRemoteResponseRead PROVE TypeOK'
  OBVIOUS
<1> USE DEF TypeOK, OnRemoteResponseRead, Places, Waiting, Failures, Forget, Goto,
            FailWith, ReleaseThen, data
<1>1. CASE ReadFailed("RemoteDisconnected")
  BY <1>1, OpTyped DEF ReadFailed, ErrorOf, notif, parse
<1>2. ASSUME NEW o \in ParseOutcomes(response_parse_phase), ResponseParsed(o),
             raw_input' = InputSoFar,
             UNCHANGED << method, request_parse_phase >>
      PROVE  TypeOK'
  <2>1. PhaseAfter(o) \in ParsePhase
        /\ PhaseNotified(response_parse_phase, o) \in NotificationState
    BY OutcomeTyped
  <2>2. ResponseComplete \in NotificationState
    BY DEF ResponseComplete, NotificationState, None, Error
  <2>3. ns' \in NotificationState /\ raised' \in [Signals -> Nat] /\ error' = error
    BY <1>2, <2>1, <2>2, NotifyTyped DEF ResponseParsed
  <2>4. raw_input' \in Seq(Byte)
    BY <1>2 DEF InputSoFar, Buffers
  <2> QED  BY <1>2, <2>1, <2>3, <2>4, OpTyped DEF ResponseParsed
<1> QED  BY <1>1, <1>2

\* So does the handler that empties raw_input_ for the response.
LEMMA RequestSentTyped == TypeOK /\ OnRequestSent => TypeOK'
<1> SUFFICES ASSUME TypeOK, OnRequestSent PROVE TypeOK'
  OBVIOUS
<1>1. raw_input' \in Seq(Byte)
  <2>1. raw_input \in Seq(Byte)
    BY DEF TypeOK
  <2>2. raw_input' = << >> \/ raw_input' = raw_input
    BY DEF OnRequestSent
  <2>3. << >> \in Seq(Byte)
    OBVIOUS
  <2> QED  BY <2>1, <2>2, <2>3
<1>2. op' \in [Chains -> Op]
  BY OpTyped DEF TypeOK, OnRequestSent, Forget
<1> QED  BY <1>1, <1>2 DEF TypeOK, OnRequestSent, Goto, FailWith, ReleaseThen, ErrorOf,
            Failures, Places, Waiting, notif, parse

\* Starting or repeating a direction's read preserves types.
LEMMA ReadForTunnelTyped ==
  ASSUME TypeOK, NEW c \in Directions, NEW pcs \in [Chains -> Places],
         ReadForTunnel(c, pcs)
  PROVE  TypeOK'
<1>1. pc' \in [Chains -> Places]
  BY DEF ReadForTunnel, Places, Waiting
<1>2. \E o \in Op : op' = [ op EXCEPT ![c] = o ]
  <2>1. CASE TunnelOpen
    BY <2>1, TunnelOpTyped DEF ReadForTunnel
  <2>2. CASE ~TunnelOpen
    BY <2>2, OpTyped DEF ReadForTunnel, Forget
  <2> QED  BY <2>1, <2>2
<1>3. op' \in [Chains -> Op]
  BY <1>2, OpUpdated DEF TypeOK
<1> QED  BY <1>1, <1>3 DEF TypeOK, ReadForTunnel, notif, parse, data

\* Every step of main preserves types.
LEMMA MainTyped == TypeOK /\ MainStep => TypeOK'
<1> SUFFICES ASSUME TypeOK, MainStep PROVE TypeOK'
  OBVIOUS
<1> USE OpTyped DEF TypeOK, Places, Waiting, Failures, Forget, Goto, FailWith,
                    ReleaseThen, ErrorOf
<1>1. CASE Begin
  BY <1>1 DEF Begin, Raise, conns, parse
<1>2. CASE ReadClientRequest \/ SendClientRequestToRemote \/ ReadRemoteResponse
           \/ SendRemoteResponseToClient \/ SendConnectReply
  BY <1>2, StartTyped DEF ReadClientRequest, SendClientRequestToRemote,
       ReadRemoteResponse, SendRemoteResponseToClient, SendConnectReply, Buffers
<1>3. CASE OnClientRequestRead
  BY <1>3, RequestTyped
<1>4. CASE OnRemoteOpened
  BY <1>4 DEF OnRemoteOpened, KeepRemote, notif, parse, data
<1>5. CASE OnRequestSent
  BY <1>5, RequestSentTyped
<1>6. CASE OnRemoteResponseRead
  BY <1>6, ResponseTyped
<1>7. CASE OnResponseSent
  BY <1>7 DEF OnResponseSent, notif, parse, data
<1>8. CASE OnConnectReplySent
  BY <1>8 DEF OnConnectReplySent, notif, parse, data
<1>9. CASE StartUp
  <2>1. [ pc EXCEPT !["main"] = "start_down" ] \in [Chains -> Places]
    OBVIOUS
  <2> QED  BY <1>9, <2>1, ReadForTunnelTyped DEF StartUp
<1>10. CASE StartDown
  <2>1. [ pc EXCEPT !["main"] = "done" ] \in [Chains -> Places]
    OBVIOUS
  <2> QED  BY <1>10, <2>1, ReadForTunnelTyped DEF StartDown
<1> QED  BY <1>1, <1>2, <1>3, <1>4, <1>5, <1>6, <1>7, <1>8, <1>9, <1>10 DEF MainStep

\* So do the steps of a tunnel, of an ending, and of the network.
LEMMA TunnelTyped ==
  ASSUME TypeOK, NEW c \in Directions, TunnelStep(c)
  PROVE  TypeOK'
<1> USE OpTyped DEF TypeOK, Places, Waiting, Failures, Forget, Goto, FailWith,
                    ReleaseThen, ErrorOf, notif, parse, data
<1>1. CASE OnTunnelRead(c)
  BY <1>1 DEF OnTunnelRead
<1>2. CASE Forward(c)
  <2>1. \E o \in Op : op' = [ op EXCEPT ![c] = o ]
    <3>1. CASE ptr[Sink(c)]
      BY <1>2, <3>1, TunnelOpTyped DEF Forward
    <3>2. CASE ~ptr[Sink(c)]
      BY <1>2, <3>2, OpTyped DEF Forward
    <3> QED  BY <3>1, <3>2
  <2>2. op' \in [Chains -> Op]
    BY <2>1, OpUpdated
  <2>3. pc' \in [Chains -> Places]
    BY <1>2 DEF Forward
  <2> QED  BY <1>2, <2>2, <2>3 DEF Forward
<1>3. CASE OnTunnelWritten(c)
  BY <1>3 DEF OnTunnelWritten
<1>4. CASE Loop(c)
  BY <1>4, ReadForTunnelTyped DEF Loop
<1> QED  BY <1>1, <1>2, <1>3, <1>4 DEF TunnelStep

\* The steps of release_connections, notify_failure and
\* complete_transaction preserve types.
LEMMA EndingTyped ==
  ASSUME TypeOK, NEW c \in Chains, EndingStep(c)
  PROVE  TypeOK'
<1> USE DEF TypeOK, Places, Goto, ReleaseThen, Raise, conns, notif, parse, data
<1>1. CASE AcquireForRelease(c)
  BY <1>1 DEF AcquireForRelease
<1>2. CASE CloseConnections(c)
  BY <1>2, AbortedTyped DEF CloseConnections
<1>3. CASE ResetPointers(c)
  BY <1>3, AbortedTyped DEF ResetPointers
<1>4. CASE RecordFailure(c)
  BY <1>4 DEF RecordFailure, NotificationState, None, Error
<1>5. CASE ReportFailure(c)
  BY <1>5 DEF ReportFailure
<1>6. CASE ReportCompletion(c)
  BY <1>6 DEF ReportCompletion
<1> QED  BY <1>1, <1>2, <1>3, <1>4, <1>5, <1>6 DEF EndingStep

\* What arrives is a sequence of bytes.
LEMMA ArrivingTyped ==
  ASSUME TypeOK, NEW s \in Streams, NEW n \in Nat
  PROVE  Arriving(s, n) \in Seq(Byte)
<1>1. \A i \in 1 .. n : << s, reads[s] + i >> \in Byte
  BY DEF TypeOK, Byte
<1> QED  BY <1>1 DEF Arriving

\* What a write carries is a sequence of bytes.
LEMMA PayloadTyped ==
  ASSUME TypeOK, NEW b \in Buffers \cup {"raw_input_", "own"}
  PROVE  Payload(b) \in Seq(Byte)
<1>1. CASE b = "raw_input_"
  BY <1>1 DEF Payload, TypeOK
<1>2. CASE b = "own"
  BY <1>2 DEF Payload
<1>3. CASE b \in Buffers
  <2>1. b # "raw_input_" /\ b # "own"
    BY <1>3 DEF Buffers
  <2> QED  BY <1>3, <2>1 DEF Payload, TypeOK
<1> QED  BY <1>1, <1>2, <1>3

\* A write that goes on keeps all of its operation but how far it has come and
\* whether it is done.
LEMMA WriteOp ==
  ASSUME op \in [Chains -> Op], NEW c \in Chains, WriteSome(c)
  PROVE  /\ op' \in [Chains -> Op]
         /\ op'[c].kind = op[c].kind /\ op'[c].end = op[c].end
         /\ op'[c].buf = op[c].buf
         /\ op'[c].sent = op[c].sent + 1
         /\ op'[c].result =
              IF op[c].sent + 1 < Len(Payload(op[c].buf)) THEN "pending" ELSE "ok"
         /\ \A d \in Chains : d # c => op'[d] = op[d]
<1> DEFINE next == op[c].sent + 1
           r == IF next < Len(Payload(op[c].buf)) THEN "pending" ELSE "ok"
           o == [ [ op[c] EXCEPT !.sent = next ] EXCEPT !.result = r ]
<1>1. op' = [ op EXCEPT ![c] = o ]
  BY DEF WriteSome
<1>2. op[c] \in Op /\ next \in Nat
  BY DEF Op
<1>3. r \in Results
  BY DEF Results
<1>4. o \in Op /\ o.kind = op[c].kind /\ o.end = op[c].end /\ o.buf = op[c].buf
      /\ o.sent = next /\ o.result = r
  BY <1>2, <1>3 DEF Op
<1> QED  BY <1>1, <1>4

\* Every way an operation may go on or end preserves types.
LEMMA NetworkTyped ==
  ASSUME TypeOK, NEW c \in Chains, NetworkCompletes(c)
  PROVE  TypeOK'
<1>1. \A r \in Results : [ op EXCEPT ![c].result = r ] \in [Chains -> Op]
  BY OpTyped DEF TypeOK
<1>2. op[c].buf \in Buffers \cup {"raw_input_", "own"} /\ op[c].end \in Ends
  BY DEF TypeOK, Op
<1>3. "ok" \in Results /\ "eof" \in Results /\ "error" \in Results
  BY DEF Results
<1>4. CASE ReadCompletes(c)
  <2>1. Stream(c) \in Streams
    BY DEF Stream, Streams
  <2>2. PICK n \in 1 .. MaxBytes[Stream(c)] - reads[Stream(c)] :
          /\ reads' = [ reads EXCEPT ![Stream(c)] = @ + n ]
          /\ buffer' = [ buffer EXCEPT ![op[c].buf] = Arriving(Stream(c), n) ]
    BY <1>4 DEF ReadCompletes
  <2>3. n \in Nat
    BY <2>1, MaxBytesAssumption DEF TypeOK
  <2>4. Arriving(Stream(c), n) \in Seq(Byte)
    BY <2>1, <2>3, ArrivingTyped DEF TypeOK
  <2>5. buffer' \in [Buffers -> Seq(Byte)]
    BY <2>2, <2>4 DEF TypeOK
  <2>6. reads' \in [Streams -> Nat]
    BY <2>1, <2>2, <2>3 DEF TypeOK
  <2> QED  BY <1>1, <1>3, <1>4, <2>5, <2>6 DEF TypeOK, ReadCompletes, control, notif, parse
<1>5. CASE WriteSome(c)
  <2> DEFINE bytes == Payload(op[c].buf)
             next  == op[c].sent + 1
  <2>1. bytes \in Seq(Byte)
    BY <1>2, PayloadTyped
  <2>2. next \in Nat /\ (next \in DOMAIN bytes => bytes[next] \in Byte)
    BY <2>1 DEF TypeOK, Op
  <2>3. delivered[op[c].end] \in Seq(Byte)
    BY <1>2 DEF TypeOK
  <2>4. (IF next \in DOMAIN bytes THEN Append(delivered[op[c].end], bytes[next])
                                  ELSE delivered[op[c].end]) \in Seq(Byte)
    BY <2>2, <2>3
  <2>5. delivered' \in [Ends -> Seq(Byte)]
    BY <1>5, <2>4 DEF TypeOK, WriteSome
  <2>6. op' \in [Chains -> Op]
    BY <1>5, <2>2, WriteOp DEF TypeOK
  <2> QED  BY <1>5, <2>5, <2>6 DEF TypeOK, WriteSome, control, notif, parse
<1>6. CASE OpenCompletes(c)
  BY <1>1, <1>3, <1>6 DEF TypeOK, OpenCompletes, control, notif, parse, data
<1>7. CASE OperationFails(c)
  BY <1>1, <1>3, <1>7 DEF TypeOK, OperationFails, control, notif, parse, data
<1> QED  BY <1>4, <1>5, <1>6, <1>7 DEF NetworkCompletes

\* So does the return of a function that handed a connection over.
LEMMA CallerTyped ==
  ASSUME TypeOK, NEW e \in Ends, CallerReturns(e)
  PROVE  TypeOK'
  BY AbortedTyped DEF TypeOK, CallerReturns, control, notif, parse, data

\* Every step, and a stutter, preserves types.
LEMMA StepTyped == TypeOK /\ [Next]_vars => TypeOK'
<1> SUFFICES ASSUME TypeOK, [Next]_vars PROVE TypeOK'
  OBVIOUS
<1>1. CASE UNCHANGED vars
  BY <1>1 DEF TypeOK, vars, control, conns, notif, parse, data
<1> QED  BY <1>1, MainTyped, TunnelTyped, EndingTyped, NetworkTyped, CallerTyped
            DEF Next, Finished

\* The constructor leaves every variable in its type.
LEMMA InitTyped == Init => TypeOK
  BY OpTyped DEF Init, TypeOK, Places, NotificationState, None, Error, Start,
                 ParsePhase, ReceivedFullMessage, Streams, Free

\* Every variable keeps its type, for any methods and any number of bytes.
THEOREM TypeCorrect == Spec => []TypeOK
  BY InitTyped, StepTyped, PTL DEF Spec

--------------------------------------------------------------------------------
\* Who runs, who holds mutex_, and which connections are held.

\* What main needs it has: a check of the pointers under mutex_ never fails.
LEMMA Holding ==
  ASSUME IInv
  PROVE  /\ pc["main"] \in { "read_request", "send_reply", "send_response" } =>
              ptr["client"]
         /\ pc["main"] \in { "send_request", "read_response", "start_up" } =>
              ptr["client"] /\ ptr["remote"]
  BY DEF IInv, ControlInv, HoldInv, MainWorks, MainNeedsRemote, MainPlaces, EndPlaces,
         Releasing, TypeOK

\* main's steps preserve the invariant of control: a request, a response
\* or a CONNECT reply in hand means the connections it needs are held.
LEMMA MainControl == IInv /\ TypeOK' /\ MainStep => ControlInv'
<1> SUFFICES ASSUME IInv, TypeOK', MainStep PROVE ControlInv'
  OBVIOUS
<1> USE DEF IInv, ControlInv, TypeOK, PlacesInv, MutexInv, NoDoubleRelease, StartInv,
            HoldInv, DropInv, MainPlaces, TunnelPlaces, EndPlaces, Releasing, MainWorks,
            MainNeedsRemote, Goto, FailWith, ReleaseThen, Returned, Free
<1>1. CASE Begin
  BY <1>1 DEF Begin, Raise, conns, parse
<1>2. CASE ReadClientRequest
  BY <1>2 DEF ReadClientRequest, LockedStart
<1>3. CASE OnClientRequestRead
  BY <1>3 DEF OnClientRequestRead, RequestParsed, ReadFailed, data
<1>4. CASE OnRemoteOpened
  BY <1>4 DEF OnRemoteOpened, KeepRemote, Result, NoError
<1>5. CASE SendClientRequestToRemote
  BY <1>5 DEF SendClientRequestToRemote, LockedStart
<1>6. CASE OnRequestSent
  BY <1>6 DEF OnRequestSent
<1>7. CASE ReadRemoteResponse
  BY <1>7 DEF ReadRemoteResponse, LockedStart
<1>8. CASE OnRemoteResponseRead
  BY <1>8 DEF OnRemoteResponseRead, ResponseParsed, ReadFailed
<1>9. CASE SendRemoteResponseToClient
  BY <1>9 DEF SendRemoteResponseToClient, LockedStart
<1>10. CASE OnResponseSent
  BY <1>10 DEF OnResponseSent
<1>11. CASE SendConnectReply
  BY <1>11 DEF SendConnectReply, LockedStart
<1>12. CASE OnConnectReplySent
  BY <1>12 DEF OnConnectReplySent
<1>13. CASE StartUp
  <2>1. ptr["client"] /\ ptr["remote"]
    BY <1>13 DEF StartUp
  <2>2. pc' = [ [ pc EXCEPT !["main"] = "start_down" ] EXCEPT !["up"] = "reading" ]
    BY <1>13, <2>1 DEF StartUp, ReadForTunnel, TunnelOpen
  <2> QED  BY <1>13, <2>1, <2>2 DEF StartUp, ReadForTunnel
<1>14. CASE StartDown
  <2>1. ptr["client"] = ptr["remote"]
    BY <1>14 DEF StartDown
  <2>2. \/ /\ ptr["client"]
           /\ pc' = [ [ pc EXCEPT !["main"] = "done" ] EXCEPT !["down"] = "reading" ]
        \/ /\ ~ptr["client"]
           /\ pc' = [ [ pc EXCEPT !["main"] = "done" ] EXCEPT !["down"] = "done" ]
    BY <1>14, <2>1 DEF StartDown, ReadForTunnel, TunnelOpen
  <2>3. UNCHANGED << mutex, seen, ptr, err >>
    BY <1>14 DEF StartDown, ReadForTunnel
  <2>4. pc["main"] = "start_down"
    BY <1>14 DEF StartDown
  <2> QED  BY <2>1, <2>2, <2>3, <2>4
<1> QED  BY <1>1, <1>2, <1>3, <1>4, <1>5, <1>6, <1>7, <1>8, <1>9, <1>10, <1>11, <1>12,
            <1>13, <1>14 DEF MainStep

\* A direction's steps preserve it: they stop without a release only where
\* the other direction has already reset the pointers.
LEMMA TunnelControl ==
  ASSUME IInv, TypeOK', NEW c \in Directions, TunnelStep(c)
  PROVE  ControlInv'
<1> USE DEF IInv, ControlInv, TypeOK, PlacesInv, MutexInv, NoDoubleRelease, StartInv,
            HoldInv, DropInv, MainPlaces, TunnelPlaces, EndPlaces, Releasing, MainWorks,
            MainNeedsRemote, Goto, FailWith, ReleaseThen, Returned, Free
<1>1. CASE OnTunnelRead(c)
  BY <1>1 DEF OnTunnelRead
<1>2. CASE Forward(c)
  BY <1>2 DEF Forward, Sink
<1>3. CASE OnTunnelWritten(c)
  BY <1>3 DEF OnTunnelWritten
<1>4. CASE Loop(c)
  BY <1>4 DEF Loop, ReadForTunnel, TunnelOpen
<1> QED  BY <1>1, <1>2, <1>3, <1>4 DEF TunnelStep

\* The steps of an ending preserve it: this is where mutex_ is taken, the
\* pointers are found and reset, and mutex_ is given back.
LEMMA EndingControl ==
  ASSUME IInv, TypeOK', NEW c \in Chains, EndingStep(c)
  PROVE  ControlInv'
<1> USE DEF IInv, ControlInv, TypeOK, PlacesInv, MutexInv, NoDoubleRelease, StartInv,
            HoldInv, DropInv, MainPlaces, TunnelPlaces, EndPlaces, Releasing, MainWorks,
            MainNeedsRemote, Goto, ReleaseThen, Free, conns
<1>1. CASE AcquireForRelease(c)
  BY <1>1 DEF AcquireForRelease
<1>2. CASE CloseConnections(c)
  BY <1>2 DEF CloseConnections
<1>3. CASE ResetPointers(c)
  BY <1>3 DEF ResetPointers
<1>4. CASE RecordFailure(c)
  BY <1>4 DEF RecordFailure
<1>5. CASE ReportFailure(c)
  BY <1>5 DEF ReportFailure
<1>6. CASE ReportCompletion(c)
  BY <1>6 DEF ReportCompletion
<1> QED  BY <1>1, <1>2, <1>3, <1>4, <1>5, <1>6 DEF EndingStep

\* The completion of an operation moves no chain and no pointer.
LEMMA NetworkControl ==
  ASSUME IInv, NEW c \in Chains, NetworkCompletes(c)
  PROVE  ControlInv'
<1>1. UNCHANGED << pc, err, mutex, seen, ptr >>
  BY DEF NetworkCompletes, ReadCompletes, WriteSome, OpenCompletes, OperationFails,
         control
<1> QED  BY <1>1 DEF IInv, ControlInv, PlacesInv, MutexInv, NoDoubleRelease, StartInv,
            HoldInv, DropInv

\* Nor does a caller that returns.
LEMMA CallerControl ==
  ASSUME IInv, NEW e \in Ends, CallerReturns(e)
  PROVE  ControlInv'
<1>1. UNCHANGED << pc, err, mutex, seen, ptr >>
  BY DEF CallerReturns, control
<1> QED  BY <1>1 DEF IInv, ControlInv, PlacesInv, MutexInv, NoDoubleRelease, StartInv,
            HoldInv, DropInv

--------------------------------------------------------------------------------
\* What each chain has outstanding.

\* main's steps leave each chain with the operation it waits for.
LEMMA MainOps == IInv /\ TypeOK' /\ MainStep => OpInv'
<1> SUFFICES ASSUME IInv, TypeOK', MainStep PROVE OpInv'
  OBVIOUS
<1> USE DEF IInv, ControlInv, TypeOK, PlacesInv, StartInv, HoldInv, OpInv, MainOpInv,
            TunnelOpInv, IdleOpInv, Is, Pending, Waiting, Goto, FailWith, ReleaseThen,
            Returned, Forget
<1>1. CASE Begin
  BY <1>1 DEF Begin, conns
<1>2. CASE ReadClientRequest
  BY <1>2, Holding DEF ReadClientRequest, LockedStart, Read, Started
<1>3. CASE OnClientRequestRead
  <2>1. \/ /\ pc' = [ pc EXCEPT !["main"] = "release" ]
           /\ op' = [ op EXCEPT !["main"] = NoOp ]
        \/ /\ pc' = [ pc EXCEPT !["main"] = "read_request" ]
           /\ op' = [ op EXCEPT !["main"] = NoOp ]
        \/ /\ pc' = [ pc EXCEPT !["main"] = "opening" ]
           /\ op' = [ op EXCEPT !["main"] = OpenRemote ]
    BY <1>3 DEF OnClientRequestRead, RequestParsed, ReadFailed
  <2>2. pc["main"] = "reading_request"
    BY <1>3 DEF OnClientRequestRead
  <2> QED  BY <2>1, <2>2 DEF OpenRemote, Started
<1>4. CASE OnRemoteOpened
  BY <1>4 DEF OnRemoteOpened
<1>5. CASE SendClientRequestToRemote
  BY <1>5, Holding DEF SendClientRequestToRemote, LockedStart, Write, Started
<1>6. CASE OnRequestSent
  BY <1>6 DEF OnRequestSent
<1>7. CASE ReadRemoteResponse
  BY <1>7, Holding DEF ReadRemoteResponse, LockedStart, Read, Started
<1>8. CASE OnRemoteResponseRead
  BY <1>8 DEF OnRemoteResponseRead, ResponseParsed, ReadFailed
<1>9. CASE SendRemoteResponseToClient
  BY <1>9, Holding DEF SendRemoteResponseToClient, LockedStart, Write, Started
<1>10. CASE OnResponseSent
  BY <1>10 DEF OnResponseSent
<1>11. CASE SendConnectReply
  BY <1>11, Holding DEF SendConnectReply, LockedStart, Write, Started
<1>12. CASE OnConnectReplySent
  BY <1>12 DEF OnConnectReplySent
<1>13. CASE StartUp
  <2>1. pc["main"] = "start_up"
    BY <1>13 DEF StartUp
  <2>2. TunnelOpen
    BY <2>1, Holding DEF TunnelOpen
  <2>3. pc' = [ [ pc EXCEPT !["main"] = "start_down" ] EXCEPT !["up"] = "reading" ]
        /\ op' = [ op EXCEPT !["up"] = Read(Source("up"), TunnelBuffer("up")) ]
    BY <1>13, <2>2 DEF StartUp, ReadForTunnel
  <2> QED  BY <2>1, <2>3 DEF Read, Started
<1>14. CASE StartDown
  <2>1. pc["main"] = "start_down"
    BY <1>14 DEF StartDown
  <2>2. \/ /\ pc' = [ [ pc EXCEPT !["main"] = "done" ] EXCEPT !["down"] = "reading" ]
           /\ op' = [ op EXCEPT !["down"] = Read(Source("down"), TunnelBuffer("down")) ]
        \/ /\ pc' = [ [ pc EXCEPT !["main"] = "done" ] EXCEPT !["down"] = "done" ]
           /\ op' = [ op EXCEPT !["down"] = NoOp ]
    BY <1>14 DEF StartDown, ReadForTunnel
  <2>3. pc["down"] = "idle"
    BY <2>1
  <2>4. CASE /\ pc' = [ [ pc EXCEPT !["main"] = "done" ] EXCEPT !["down"] = "reading" ]
             /\ op' = [ op EXCEPT !["down"] = Read(Source("down"), TunnelBuffer("down")) ]
    <3>1. op'["up"] = op["up"] /\ op'["main"] = op["main"]
          /\ op'["down"].kind = "read" /\ op'["down"].end = Source("down")
          /\ op'["down"].buf = TunnelBuffer("down")
      BY <2>4 DEF Read, Started
    <3>2. pc'["up"] = pc["up"] /\ pc'["main"] = "done" /\ pc'["down"] = "reading"
      BY <2>4
    <3> QED  BY <2>1, <3>1, <3>2
  <2>5. CASE /\ pc' = [ [ pc EXCEPT !["main"] = "done" ] EXCEPT !["down"] = "done" ]
             /\ op' = [ op EXCEPT !["down"] = NoOp ]
    BY <2>1, <2>3, <2>5
  <2> QED  BY <2>2, <2>4, <2>5
<1> QED  BY <1>1, <1>2, <1>3, <1>4, <1>5, <1>6, <1>7, <1>8, <1>9, <1>10, <1>11, <1>12,
            <1>13, <1>14 DEF MainStep

\* So do the steps of a direction: it reads its source and writes its sink.
LEMMA TunnelOps ==
  ASSUME IInv, TypeOK', NEW c \in Directions, TunnelStep(c)
  PROVE  OpInv'
<1> USE DEF IInv, ControlInv, TypeOK, PlacesInv, StartInv, OpInv, MainOpInv, TunnelOpInv,
            IdleOpInv, Is, Pending, Waiting, Goto, FailWith, ReleaseThen, Returned,
            Forget
<1>1. CASE OnTunnelRead(c)
  BY <1>1 DEF OnTunnelRead
<1>2. CASE Forward(c)
  BY <1>2 DEF Forward, Write, Started
<1>3. CASE OnTunnelWritten(c)
  BY <1>3 DEF OnTunnelWritten
<1>4. CASE Loop(c)
  <2>1. \/ /\ pc' = [ pc EXCEPT ![c] = "reading" ]
           /\ op' = [ op EXCEPT ![c] = Read(Source(c), TunnelBuffer(c)) ]
        \/ /\ pc' = [ pc EXCEPT ![c] = "done" ]
           /\ op' = [ op EXCEPT ![c] = NoOp ]
    BY <1>4 DEF Loop, ReadForTunnel
  <2> QED  BY <2>1 DEF Read, Started
<1> QED  BY <1>1, <1>2, <1>3, <1>4 DEF TunnelStep

\* Closing sockets changes the results of operations and nothing else.
LEMMA AbortedOps ==
  ASSUME IInv, NEW ends, op' = Aborted(ends)
  PROVE  \A c \in Chains : /\ op'[c].kind = op[c].kind
                           /\ op'[c].end = op[c].end
                           /\ op'[c].buf = op[c].buf
                           /\ ~Pending(c) => op'[c] = op[c]
                           /\ Pending(c)' => op'[c] = op[c]
  BY DEF IInv, TypeOK, Aborted, Op, Pending

\* So do the steps of an ending, which only abort operations.
LEMMA EndingOps ==
  ASSUME IInv, TypeOK', NEW c \in Chains, EndingStep(c)
  PROVE  OpInv'
<1> USE DEF IInv, ControlInv, TypeOK, PlacesInv, MutexInv, StartInv, OpInv, MainOpInv,
            TunnelOpInv, IdleOpInv, Is, Waiting, Goto, ReleaseThen, conns
<1>1. CASE AcquireForRelease(c)
  BY <1>1 DEF AcquireForRelease, Pending
<1>2. CASE CloseConnections(c)
  <2>1. \A d \in Chains : /\ op'[d].kind = op[d].kind
                          /\ op'[d].end = op[d].end
                          /\ op'[d].buf = op[d].buf
                          /\ ~Pending(d) => op'[d] = op[d]
    BY <1>2, AbortedOps DEF CloseConnections
  <2>2. ~(NoOp.result = "pending")
    BY DEF NoOp, Started
  <2>3. pc[c] = "closing" /\ pc' = [ pc EXCEPT ![c] = "resetting" ]
    BY <1>2 DEF CloseConnections
  <2> QED  BY <2>1, <2>2, <2>3 DEF Pending
<1>3. CASE ResetPointers(c)
  <2>1. \A d \in Chains : /\ op'[d].kind = op[d].kind
                          /\ op'[d].end = op[d].end
                          /\ op'[d].buf = op[d].buf
                          /\ ~Pending(d) => op'[d] = op[d]
    BY <1>3, AbortedOps DEF ResetPointers
  <2>2. ~(NoOp.result = "pending")
    BY DEF NoOp, Started
  <2>3. pc[c] = "resetting" /\ pc' = [ pc EXCEPT ![c] = ret[c] ]
    BY <1>3 DEF ResetPointers
  <2> QED  BY <2>1, <2>2, <2>3 DEF Pending
<1>4. CASE RecordFailure(c)
  BY <1>4 DEF RecordFailure, Pending
<1>5. CASE ReportFailure(c)
  BY <1>5 DEF ReportFailure, Pending
<1>6. CASE ReportCompletion(c)
  BY <1>6 DEF ReportCompletion, Pending
<1> QED  BY <1>1, <1>2, <1>3, <1>4, <1>5, <1>6 DEF EndingStep

\* So does an operation that goes on or ends, which keeps its kind and its end.
LEMMA NetworkKeeps ==
  ASSUME IInv, NEW c \in Chains, NetworkCompletes(c)
  PROVE  \A d \in Chains : /\ op'[d].kind = op[d].kind
                           /\ op'[d].end = op[d].end
                           /\ op'[d].buf = op[d].buf
                           /\ d # c => op'[d] = op[d]
<1>1. op \in [Chains -> Op]
  BY DEF IInv, TypeOK
<1>2. CASE WriteSome(c)
  BY <1>1, <1>2, WriteOp
<1>3. CASE ReadCompletes(c) \/ OpenCompletes(c) \/ OperationFails(c)
  <2>1. PICK r \in Results : op' = [ op EXCEPT ![c].result = r ]
    BY <1>3 DEF ReadCompletes, OpenCompletes, OperationFails, Results
  <2> QED  BY <1>1, <2>1 DEF Op
<1> QED  BY <1>2, <1>3 DEF NetworkCompletes

\* The completion of an operation keeps what is known of the operations.
LEMMA NetworkOps ==
  ASSUME IInv, TypeOK', NEW c \in Chains, NetworkCompletes(c)
  PROVE  OpInv'
<1>1. Pending(c) /\ UNCHANGED pc
  BY DEF NetworkCompletes, ReadCompletes, WriteSome, OpenCompletes, OperationFails,
         control
<1>2. pc[c] \in Waiting
  BY <1>1 DEF IInv, ControlInv, PlacesInv, OpInv, IdleOpInv, TunnelOpInv, Pending, NoOp,
              Started, MainPlaces, TunnelPlaces, EndPlaces, Releasing, Waiting
<1>3. MainOpInv'
  BY <1>1, NetworkKeeps DEF IInv, OpInv, MainOpInv, Is
<1>4. TunnelOpInv'
  BY <1>1, <1>2, NetworkKeeps DEF IInv, OpInv, TunnelOpInv, Is, Pending, Source, Sink,
     TunnelBuffer, Waiting
<1>5. IdleOpInv'
  BY <1>1, <1>2, NetworkKeeps DEF IInv, OpInv, IdleOpInv
<1> QED  BY <1>3, <1>4, <1>5 DEF OpInv

\* And so does a caller that returns, which at most aborts operations.
LEMMA CallerOps ==
  ASSUME IInv, TypeOK', NEW e \in Ends, CallerReturns(e)
  PROVE  OpInv'
<1>1. UNCHANGED pc /\ \E ends : op' = Aborted(ends)
  BY DEF CallerReturns, control
<1>2. \A c \in Chains : /\ op'[c].kind = op[c].kind
                        /\ op'[c].end = op[c].end
                        /\ op'[c].buf = op[c].buf
                        /\ ~Pending(c) => op'[c] = op[c]
  BY <1>1, AbortedOps
<1>3. ~(NoOp.result = "pending")
  BY DEF NoOp, Started
<1> QED  BY <1>1, <1>2, <1>3 DEF IInv, TypeOK, OpInv, MainOpInv, TunnelOpInv, IdleOpInv,
            Is, Pending

--------------------------------------------------------------------------------
\* Which sockets are open, and who waits on them.

\* With mutex_ free nobody is between close() and reset: what is held is open.
LEMMA HeldIsOpen ==
  ASSUME IInv, mutex = Free
  PROVE  /\ \A c \in Chains : pc[c] # "resetting"
         /\ \A e \in Ends : ptr[e] => sock[e]
  BY DEF IInv, ControlInv, MutexInv, SocketInv, Free

\* A chain that waits for a transfer is where its operation says it is.
LEMMA WaitsOnSocket ==
  ASSUME IInv, NEW c \in Chains, Transfers(c)
  PROVE  pc[c] \in Waiting \cup {"forward"} /\ pc[c] # "opening"
  BY DEF IInv, ControlInv, PlacesInv, MainPlaces, TunnelPlaces, EndPlaces, Releasing,
         OpInv, MainOpInv, IdleOpInv, Is, NoOp, Started, Transfers, Waiting

\* main starts operations on open sockets only, and takes over the remote
\* connection when it is open.
LEMMA MainSockets == IInv /\ TypeOK' /\ MainStep => SocketInv' /\ NoStrandedOperation'
<1> SUFFICES ASSUME IInv, TypeOK', MainStep PROVE SocketInv' /\ NoStrandedOperation'
  OBVIOUS
<1> USE DEF IInv, ControlInv, TypeOK, PlacesInv, SocketInv, NoStrandedOperation,
            Transfers, Pending, Goto, FailWith, ReleaseThen, Returned, Forget, NoOp,
            Started
<1>1. CASE Begin
  BY <1>1 DEF Begin, conns
<1>2. CASE ReadClientRequest
  BY <1>2, Holding, HeldIsOpen DEF ReadClientRequest, LockedStart, Read, Started
<1>3. CASE OnClientRequestRead
  <2>1. \/ /\ pc' = [ pc EXCEPT !["main"] = "release" ]
           /\ op' = [ op EXCEPT !["main"] = NoOp ]
        \/ /\ pc' = [ pc EXCEPT !["main"] = "read_request" ]
           /\ op' = [ op EXCEPT !["main"] = NoOp ]
        \/ /\ pc' = [ pc EXCEPT !["main"] = "opening" ]
           /\ op' = [ op EXCEPT !["main"] = OpenRemote ]
    BY <1>3 DEF OnClientRequestRead, RequestParsed, ReadFailed
  <2>2. pc["main"] = "reading_request" /\ UNCHANGED << ptr, lent, sock, open >>
    BY <1>3 DEF OnClientRequestRead
  <2>3. ~ptr["remote"] /\ ~lent["remote"] /\ ~sock["remote"] /\ ~open["remote"]
    BY <2>2 DEF HoldInv
  <2>4. /\ op'["main"].kind \in {"none", "open"}
        /\ pc'["main"] = "opening" => op'["main"].result = "pending"
        /\ \A c \in Directions : op'[c] = op[c] /\ pc'[c] = pc[c]
    BY <2>1 DEF OpenRemote
  <2>5. SocketInv'
    BY <2>2, <2>3, <2>4, <2>1
  <2>6. ~Transfers("main")'
    BY <2>4
  <2> QED  BY <2>2, <2>4, <2>5, <2>6
<1>4. CASE OnRemoteOpened
  <2>1. /\ pc["main"] = "opening"
        /\ pc'["main"] \in {"send_reply", "send_request", "release"}
        /\ \A c \in Directions : pc'[c] = pc[c] /\ pc[c] = "idle"
        /\ ptr' = [ ptr EXCEPT !["remote"] = (op["main"].result = "ok") ]
        /\ op' = [ op EXCEPT !["main"] = NoOp ]
        /\ UNCHANGED << lent, sock, open >>
    BY <1>4 DEF OnRemoteOpened, KeepRemote, Result, StartInv
  <2>2. ptr["client"]
    BY <2>1 DEF HoldInv, MainWorks, MainPlaces, EndPlaces, Releasing
  <2>3. SocketInv'
    BY <2>1, <2>2
  <2>4. ~Pending("main")'
    BY <2>1
  <2>5. NoStrandedOperation'
    BY <2>1, <2>4
  <2> QED  BY <2>3, <2>5
<1>5. CASE SendClientRequestToRemote
  BY <1>5, Holding, HeldIsOpen DEF SendClientRequestToRemote, LockedStart, Write, Started
<1>6. CASE OnRequestSent
  BY <1>6 DEF OnRequestSent
<1>7. CASE ReadRemoteResponse
  BY <1>7, Holding, HeldIsOpen DEF ReadRemoteResponse, LockedStart, Read, Started
<1>8. CASE OnRemoteResponseRead
  BY <1>8 DEF OnRemoteResponseRead, ResponseParsed, ReadFailed
<1>9. CASE SendRemoteResponseToClient
  BY <1>9, Holding, HeldIsOpen DEF SendRemoteResponseToClient, LockedStart, Write, Started
<1>10. CASE OnResponseSent
  BY <1>10 DEF OnResponseSent
<1>11. CASE SendConnectReply
  BY <1>11, Holding, HeldIsOpen DEF SendConnectReply, LockedStart, Write, Started
<1>12. CASE OnConnectReplySent
  BY <1>12 DEF OnConnectReplySent
<1>13. CASE StartUp \/ StartDown
  <2>1. PICK c \in Directions :
          \/ op' = [ op EXCEPT ![c] = NoOp ]
          \/ TunnelOpen /\ op' = [ op EXCEPT ![c] = Read(Source(c), TunnelBuffer(c)) ]
    BY <1>13 DEF StartUp, StartDown, ReadForTunnel
  <2>2. mutex = Free /\ UNCHANGED << ptr, lent, sock, open >>
    BY <1>13 DEF StartUp, StartDown, ReadForTunnel
  <2>3. \A e \in Ends : ptr[e] => sock[e]
    BY <2>2, HeldIsOpen
  <2>4. /\ pc["main"] # "opening"
        /\ pc'["main"] \in {"start_down", "done"}
        /\ \A d \in Directions : pc'[d] \in {pc[d], "reading", "done"}
    BY <1>13 DEF StartUp, StartDown, ReadForTunnel
  <2>5. \A d \in Chains : pc'[d] # "resetting"
    BY <2>2, <2>4, HeldIsOpen
  <2>6. SocketInv'
    BY <2>2, <2>3, <2>4, <2>5
  <2>7. Pending(c)' /\ Transfers(c)' => sock[op'[c].end]
    BY <2>1, <2>3 DEF Read, Source, TunnelOpen
  <2>8. \A d \in Chains : d # c => op'[d] = op[d]
    BY <2>1
  <2>9. NoStrandedOperation'
    BY <2>2, <2>7, <2>8
  <2> QED  BY <2>6, <2>9
<1> QED  BY <1>1, <1>2, <1>3, <1>4, <1>5, <1>6, <1>7, <1>8, <1>9, <1>10, <1>11, <1>12,
            <1>13 DEF MainStep

\* A direction starts operations on sockets it has found open.
LEMMA TunnelSockets ==
  ASSUME IInv, TypeOK', NEW c \in Directions, TunnelStep(c)
  PROVE  SocketInv' /\ NoStrandedOperation'
<1>1. UNCHANGED << ptr, lent, sock, open >> /\ pc'["main"] = pc["main"]
      /\ op'["main"] = op["main"]
      /\ pc'[c] # "resetting" /\ \A d \in Chains : d # c => pc'[d] = pc[d]
  BY DEF TunnelStep, OnTunnelRead, Forward, OnTunnelWritten, Loop, ReadForTunnel, Goto,
         ReleaseThen, FailWith, Forget, IInv, TypeOK
<1>2. pc[c] # "resetting"
  BY DEF TunnelStep, OnTunnelRead, Forward, OnTunnelWritten, Loop, Returned
<1>3. \/ op' = op
      \/ op' = [ op EXCEPT ![c] = NoOp ]
      \/ mutex = Free /\ TunnelOpen
         /\ op' = [ op EXCEPT ![c] = Read(Source(c), TunnelBuffer(c)) ]
      \/ mutex = Free /\ ptr[Sink(c)]
         /\ op' = [ op EXCEPT ![c] = Write(Sink(c), TunnelBuffer(c)) ]
  BY DEF TunnelStep, OnTunnelRead, Forward, OnTunnelWritten, Loop, ReadForTunnel, Forget
<1>4. SocketInv'
  BY <1>1, <1>2 DEF IInv, SocketInv
<1>5. /\ op'[c] = op[c] \/ ~(Pending(c) /\ Transfers(c))' \/ sock[op'[c].end]
      /\ \A d \in Chains : d # c => op'[d] = op[d]
  <2>1. op \in [Chains -> Op] /\ c \in Chains
    BY DEF IInv, TypeOK, Chains
  <2>2. CASE op' = op
    BY <2>2
  <2>3. CASE op' = [ op EXCEPT ![c] = NoOp ]
    BY <2>1, <2>3 DEF NoOp, Started, Pending, Transfers
  <2>4. CASE mutex = Free /\ TunnelOpen
             /\ op' = [ op EXCEPT ![c] = Read(Source(c), TunnelBuffer(c)) ]
    BY <2>1, <2>4, HeldIsOpen DEF Read, Started, Source, TunnelOpen, Ends
  <2>5. CASE mutex = Free /\ ptr[Sink(c)]
             /\ op' = [ op EXCEPT ![c] = Write(Sink(c), TunnelBuffer(c)) ]
    BY <2>1, <2>5, HeldIsOpen DEF Write, Started, Sink, Ends
  <2> QED BY <1>3, <2>2, <2>3, <2>4, <2>5
<1>6. NoStrandedOperation'
  BY <1>1, <1>5 DEF IInv, NoStrandedOperation, Transfers, Pending
<1> QED  BY <1>4, <1>6

\* Closing sockets wakes whoever waits on one of them.
LEMMA AbortedWakes ==
  ASSUME IInv, NEW ends, op' = Aborted(ends)
  PROVE  \A c \in Chains :
           Pending(c)' /\ Transfers(c)' =>
             /\ Pending(c) /\ Transfers(c)
             /\ op'[c] = op[c]
             /\ op[c].end \in Ends \ ends
<1> SUFFICES ASSUME NEW c \in Chains, Pending(c)', Transfers(c)'
             PROVE  /\ Pending(c) /\ Transfers(c)
                    /\ op'[c] = op[c]
                    /\ op[c].end \in Ends \ ends
  OBVIOUS
<1>1. op'[c] = op[c] /\ op[c] \in Op
  BY AbortedOps DEF IInv, TypeOK
<1>2. Pending(c) /\ Transfers(c)
  BY <1>1 DEF Pending, Transfers
<1>3. op[c].end \in ends => op'[c] = [ op[c] EXCEPT !.result = "aborted" ]
  BY <1>2 DEF Aborted, Transfers
<1>4. op[c].end \notin ends
  BY <1>1, <1>2, <1>3 DEF Pending, Op
<1> QED  BY <1>1, <1>2, <1>4 DEF Op

\* close() and reset() close the sockets of the pointers they drop, and
\* leave nobody waiting on them.
LEMMA EndingSockets ==
  ASSUME IInv, TypeOK', NEW c \in Chains, EndingStep(c)
  PROVE  SocketInv' /\ NoStrandedOperation'
<1> USE DEF IInv, ControlInv, TypeOK, PlacesInv, Goto, ReleaseThen
<1>1. CASE AcquireForRelease(c) \/ RecordFailure(c) \/ ReportFailure(c)
           \/ ReportCompletion(c)
  <2>1. UNCHANGED << ptr, lent, sock, open, op >>
    BY <1>1 DEF AcquireForRelease, RecordFailure, ReportFailure, ReportCompletion, conns
  <2>2. /\ pc[c] # "resetting" /\ pc'[c] # "resetting"
        /\ pc[c] # "opening"
        /\ pc'[c] \notin {"opening", "begin", "read_request", "reading_request"}
        /\ \A d \in Chains : d # c => pc'[d] = pc[d]
    BY <1>1 DEF AcquireForRelease, RecordFailure, ReportFailure, ReportCompletion
  <2> QED  BY <2>1, <2>2 DEF SocketInv, NoStrandedOperation, Transfers, Pending
<1>2. CASE CloseConnections(c)
  <2>1. PICK closing \in SUBSET { e \in seen[c] : open[e] } :
          /\ pc[c] = "closing" /\ pc' = [ pc EXCEPT ![c] = "resetting" ]
          /\ open' = [ e \in Ends |-> open[e] /\ e \notin seen[c] ]
          /\ sock' = [ e \in Ends |-> sock[e] /\ e \notin closing ]
          /\ op' = Aborted(closing)
          /\ UNCHANGED << ptr, lent >>
    BY <1>2 DEF CloseConnections
  <2>2. pc["main"] # "opening"
        /\ pc'["main"] \notin {"opening", "begin", "read_request", "reading_request"}
    <3>1. closing \subseteq { e \in Ends : ptr[e] } /\ seen[c] = { e \in Ends : ptr[e] }
      BY <2>1 DEF NoDoubleRelease
    <3> QED  BY <2>1, <3>1 DEF StartInv
  <2>3. \A e \in Ends : ~open'[e]
    BY <2>1, <2>2 DEF SocketInv, NoDoubleRelease
  <2>4. SocketInv'
    BY <2>1, <2>2, <2>3 DEF SocketInv
  <2>5. NoStrandedOperation'
    BY <2>1, AbortedWakes DEF NoStrandedOperation
  <2> QED  BY <2>4, <2>5
<1>3. CASE ResetPointers(c)
  <2> DEFINE dropped == { e \in Ends : ptr[e] /\ ~lent[e] }
  <2>1. /\ pc[c] = "resetting" /\ pc' = [ pc EXCEPT ![c] = ret[c] ]
        /\ sock' = [ e \in Ends |-> sock[e] /\ e \notin dropped ]
        /\ op' = Aborted(dropped)
        /\ ptr' = [ e \in Ends |-> FALSE ]
        /\ UNCHANGED << lent, open >>
    BY <1>3 DEF ResetPointers
  <2>2. pc["main"] # "opening"
        /\ pc'["main"] \notin {"opening", "begin", "read_request", "reading_request"}
    BY <2>1 DEF StartInv
  <2>3. \A e \in Ends : ~open[e] /\ (sock'[e] => lent[e])
    BY <2>1, <2>2 DEF SocketInv
  <2>4. SocketInv'
    BY <2>1, <2>2, <2>3 DEF SocketInv
  <2>5. NoStrandedOperation'
    BY <2>1, AbortedWakes DEF NoStrandedOperation
  <2> QED  BY <2>4, <2>5
<1> QED  BY <1>1, <1>2, <1>3 DEF EndingStep

\* An operation that completes closes nothing; one that opens is main's.
LEMMA NetworkSockets ==
  ASSUME IInv, TypeOK', NEW c \in Chains, NetworkCompletes(c)
  PROVE  SocketInv' /\ NoStrandedOperation'
<1> USE DEF IInv, ControlInv, TypeOK, PlacesInv
<1>1. CASE ReadCompletes(c) \/ WriteSome(c) \/ OperationFails(c)
  <2>1. UNCHANGED << pc, ptr, lent, sock, open >>
    BY <1>1 DEF ReadCompletes, WriteSome, OperationFails, control
  <2>2. Pending(c)
    BY <1>1 DEF ReadCompletes, WriteSome, OperationFails
  <2>3. pc["main"] = "opening" => (op'["main"].result = "ok" <=> op["main"].result = "ok")
    <3>1. ASSUME pc["main"] = "opening", c = "main"
          PROVE  op["main"].result # "ok" /\ op'["main"].result # "ok"
      <4>1. op["main"].kind = "open" /\ op["main"] \in Op
        BY <3>1 DEF OpInv, MainOpInv, Is
      <4>2. OperationFails(c)
        BY <1>1, <3>1, <4>1 DEF ReadCompletes, WriteSome
      <4>3. PICK q \in {"eof", "error"} : op' = [ op EXCEPT ![c].result = q ]
        BY <4>2 DEF OperationFails
      <4> QED  BY <2>2, <3>1, <4>1, <4>3 DEF Op, Pending
    <3> QED  BY <3>1, NetworkKeeps, <1>1 DEF NetworkCompletes
  <2>4. SocketInv'
    BY <2>1, <2>3 DEF SocketInv
  <2>5. \A d \in Chains : Pending(d)' => Pending(d)
    BY <1>1, <2>2, NetworkKeeps DEF NetworkCompletes, Pending
  <2>6. NoStrandedOperation'
    BY <1>1, <2>1, <2>5, NetworkKeeps DEF NetworkCompletes, NoStrandedOperation, Transfers
  <2> QED  BY <2>4, <2>6
<1>2. CASE OpenCompletes(c)
  <2>1. Pending(c) /\ op[c].kind = "open"
    BY <1>2 DEF OpenCompletes
  <2>2. c = "main" /\ pc["main"] = "opening"
    BY <2>1 DEF OpInv, MainOpInv, TunnelOpInv, IdleOpInv, Is, NoOp, Started, Pending,
       MainPlaces, TunnelPlaces, EndPlaces, Releasing, Waiting
  <2>3. /\ op' = [ op EXCEPT !["main"].result = "ok" ]
        /\ sock' = [ sock EXCEPT !["remote"] = TRUE ]
        /\ lent' = [ lent EXCEPT !["remote"] = TRUE ]
        /\ open' = [ open EXCEPT !["remote"] = TRUE ]
        /\ UNCHANGED << pc, ptr >>
    BY <1>2, <2>2 DEF OpenCompletes, control
  <2>4. SocketInv'
    <3>1. \A d \in Chains : pc[d] # "resetting"
      BY <2>2 DEF StartInv
    <3> QED  BY <2>2, <2>3, <3>1 DEF SocketInv, Op
  <2>5. NoStrandedOperation'
    BY <2>1, <2>2, <2>3 DEF NoStrandedOperation, Transfers, Pending, Op
  <2> QED  BY <2>4, <2>5
<1> QED  BY <1>1, <1>2 DEF NetworkCompletes

\* A caller that returns closes a socket only where the transaction has let go
\* of it, and wakes whoever waits on it.
LEMMA CallerSockets ==
  ASSUME IInv, TypeOK', NEW e \in Ends, CallerReturns(e)
  PROVE  SocketInv' /\ NoStrandedOperation'
<1> DEFINE dropped == { e } \ { d \in Ends : ptr[d] }
<1>1. /\ lent[e] /\ HandedOver(e)
      /\ lent' = [ lent EXCEPT ![e] = FALSE ]
      /\ sock' = [ d \in Ends |-> sock[d] /\ d \notin dropped ]
      /\ op' = Aborted(dropped)
      /\ UNCHANGED << pc, ptr, open >>
  BY DEF CallerReturns, control
<1>2. pc["main"] = "opening" => e = "client" /\ ptr["client"]
  BY <1>1 DEF HandedOver, IInv, ControlInv, HoldInv, MainWorks, MainPlaces, EndPlaces,
     Releasing
<1>3. dropped = {} => op' = op
  BY <1>1 DEF Aborted, IInv, TypeOK
<1>4. SocketInv'
  BY <1>1, <1>2, <1>3 DEF IInv, TypeOK, SocketInv
<1>5. NoStrandedOperation'
  BY <1>1, AbortedWakes DEF IInv, TypeOK, NoStrandedOperation
<1> QED  BY <1>4, <1>5

--------------------------------------------------------------------------------
\* The inductive invariant, and what follows from it.

\* The constructor establishes the invariant.
LEMMA InitInv == Init => IInv
<1> SUFFICES ASSUME Init PROVE IInv
  OBVIOUS
<1>1. TypeOK
  BY InitTyped
<1>2. ControlInv
  BY DEF Init, ControlInv, PlacesInv, MutexInv, NoDoubleRelease, StartInv, HoldInv, DropInv,
         MainPlaces, TunnelPlaces, EndPlaces, Releasing, MainWorks, MainNeedsRemote, Free
<1>3. OpInv
  BY DEF Init, OpInv, MainOpInv, TunnelOpInv, IdleOpInv, Waiting
<1>4. SocketInv /\ NoStrandedOperation
  BY DEF Init, SocketInv, NoStrandedOperation, Pending, NoOp, Started
<1> QED  BY <1>1, <1>2, <1>3, <1>4 DEF IInv

\* Every step preserves the invariant.
LEMMA StepInv == IInv /\ [Next]_vars => IInv'
<1> SUFFICES ASSUME IInv, [Next]_vars PROVE IInv'
  OBVIOUS
<1>1. TypeOK'
  BY StepTyped DEF IInv
<1>2. CASE MainStep
  BY <1>1, <1>2, MainControl, MainOps, MainSockets DEF IInv
<1>3. ASSUME NEW c \in Directions, TunnelStep(c) PROVE IInv'
  BY <1>1, <1>3, TunnelControl, TunnelOps, TunnelSockets DEF IInv
<1>4. ASSUME NEW c \in Chains, EndingStep(c) PROVE IInv'
  BY <1>1, <1>4, EndingControl, EndingOps, EndingSockets DEF IInv
<1>5. ASSUME NEW c \in Chains, NetworkCompletes(c) PROVE IInv'
  BY <1>1, <1>5, NetworkControl, NetworkOps, NetworkSockets DEF IInv
<1>6. ASSUME NEW e \in Ends, CallerReturns(e) PROVE IInv'
  BY <1>1, <1>6, CallerControl, CallerOps, CallerSockets DEF IInv
<1>7. CASE UNCHANGED vars
  <2>1. UNCHANGED << pc, err, mutex, seen, ptr, lent, sock, open, op >>
    BY <1>7 DEF vars, control, conns
  <2> QED  BY <1>1, <2>1 DEF IInv, ControlInv, PlacesInv, MutexInv, NoDoubleRelease, StartInv,
              HoldInv, DropInv, OpInv, MainOpInv, TunnelOpInv, IdleOpInv, Is, Pending,
              SocketInv, NoStrandedOperation, Transfers
<1> QED  BY <1>2, <1>3, <1>4, <1>5, <1>6, <1>7 DEF Next, Finished

\* The control, the operations and the sockets of a transaction fit together in
\* every state it reaches.
THEOREM Invariant == Spec => []IInv
  BY InitInv, StepInv, PTL DEF Spec

\* The pointer checks under mutex_ never fail on the way to notify_failure, so no
\* chain waits for the mutex it holds.
THEOREM NeverSelfDeadlocked == Spec => []NoSelfDeadlock
<1>1. IInv => NoSelfDeadlock
  BY DEF IInv, ControlInv, MutexInv, NoSelfDeadlock
<1> QED  BY <1>1, Invariant, PTL

\* No chain resets connections another is closing, however the directions of a
\* tunnel end.
THEOREM NeverReleasedTwice == Spec => []NoDoubleRelease
<1>1. IInv => NoDoubleRelease
  BY DEF IInv, ControlInv
<1> QED  BY <1>1, Invariant, PTL

\* No operation is left waiting on a socket somebody else has closed.
THEOREM NeverStranded == Spec => []NoStrandedOperation
<1>1. IInv => NoStrandedOperation
  BY DEF IInv
<1> QED  BY <1>1, Invariant, PTL

\* With its last handler a transaction has let go of both connections, and a
\* socket that is still open is its caller's.
THEOREM NeverLeaks == Spec => []NothingLeaks
<1>1. IInv => NothingLeaks
  <2> SUFFICES ASSUME IInv, AllStopped
               PROVE  \A e \in Ends : ~ptr[e] /\ (sock[e] => lent[e])
    BY DEF NothingLeaks
  <2>1. \A c \in Chains : pc[c] \in {"idle", "done"}
    BY DEF AllStopped, Stopped
  <2>2. pc["main"] = "done"
    BY <2>1 DEF IInv, ControlInv, PlacesInv, MainPlaces, EndPlaces, Releasing
  <2>3. ~ptr["client"]
    BY <2>1, <2>2 DEF IInv, ControlInv, DropInv
  <2>4. ~ptr["remote"]
    BY <2>3 DEF IInv, ControlInv, HoldInv
  <2> QED  BY <2>2, <2>3, <2>4 DEF IInv, SocketInv
<1> QED  BY <1>1, Invariant, PTL

\* No buffer and no direction of a socket is used by two chains at once.
THEOREM NeverShared == Spec => []ChainsShareNothing
<1>1. IInv => ChainsShareNothing
  <2> SUFFICES ASSUME IInv PROVE ChainsShareNothing
    OBVIOUS
  <2>1. \A c \in Chains : Transfers(c) => pc[c] \in (Waiting \cup {"forward"}) \ {"opening"}
    BY WaitsOnSocket
  <2>2. \A c \in Directions :
          Transfers(c) => /\ op[c].buf = TunnelBuffer(c)
                          /\ \/ op[c].kind = "read" /\ op[c].end = Source(c)
                             \/ op[c].kind = "write" /\ op[c].end = Sink(c)
    BY <2>1 DEF IInv, ControlInv, PlacesInv, OpInv, TunnelOpInv, Is, Waiting, TunnelPlaces,
       EndPlaces, Releasing
  <2>3. Transfers("main") => \A c \in Directions : ~Transfers(c)
    BY <2>1 DEF IInv, ControlInv, StartInv, Waiting
  <2>4. ~(Transfers("up") /\ Transfers("down") /\ op["up"].buf = op["down"].buf)
    BY <2>2 DEF TunnelBuffer
  <2>5. Transfers("up") /\ Transfers("down") =>
          << op["up"].kind, op["up"].end >> # << op["down"].kind, op["down"].end >>
    BY <2>2 DEF Source, Sink
  <2> QED  BY <2>3, <2>4, <2>5 DEF ChainsShareNothing
<1> QED  BY <1>1, Invariant, PTL

--------------------------------------------------------------------------------
\* What a transaction reports.

Failed    == raised["on_transaction_failed"]
Completed == raised["on_transaction_complete"]

\* A phase of the messages is never an ending: states up to ResponseComplete
\* raise neither on_transaction_complete nor on_transaction_failed.
LEMMA PhasesEndNothing ==
  ASSUME TypeOK, NEW target \in None .. ResponseComplete, Notify(target)
  PROVE  /\ ns' >= ns
         /\ Failed' = Failed
         /\ Completed' = Completed
<1>1. ns' >= ns
  BY DEF Notify, Advanced, TypeOK, NotificationState, None, Error, ResponseComplete
<1>2. {"on_transaction_complete", "on_transaction_failed"} \cap Raised(ns, target) = {}
  BY DEF Raised, RaisedOnLeaving, TypeOK, NotificationState, None, Error, RequestComplete,
         ResponseHeaders, ResponseComplete
<1> QED
  BY <1>1, <1>2 DEF Notify, Raise, Signals, TypeOK, Failed, Completed

\* What a read handler tells do_notification is a phase, or nothing.
LEMMA HandlersNotify ==
  ASSUME TypeOK, OnClientRequestRead \/ OnRemoteResponseRead
  PROVE  UNCHANGED notif \/ \E target \in None .. ResponseComplete : Notify(target)
<1>1. ASSUME NEW phase \in ParsePhase, NEW o \in ParseOutcomes(phase)
      PROVE  {PhaseNotified(phase, o), RequestComplete, ResponseComplete}
               \subseteq None .. ResponseComplete
  BY DEF PhaseNotified, PhaseTarget, RequestStates, ResponseStates, ParseOutcomes, ParsePhase,
         Start, ReceivedHeaders, ReceivedFullMessage, None, RequestLine, RequestHeaders,
         RequestBody, RequestComplete, ResponseHeaders, ResponseBody, ResponseComplete
<1>2. request_parse_phase \in ParsePhase /\ response_parse_phase \in ParsePhase
  BY DEF TypeOK
<1>3. \/ UNCHANGED notif
      \/ \E phase \in ParsePhase : \E o \in ParseOutcomes(phase) :
           \E target \in {PhaseNotified(phase, o), RequestComplete, ResponseComplete} :
             Notify(target)
  BY <1>2 DEF OnClientRequestRead, OnRemoteResponseRead, RequestParsed, ResponseParsed, ReadFailed
<1> QED  BY <1>1, <1>3

\* A read handler reports phases, never an ending.
LEMMA HandlersEndNothing ==
  ASSUME TypeOK, OnClientRequestRead \/ OnRemoteResponseRead
  PROVE  ns' >= ns /\ Endings' = Endings
<1>1. CASE UNCHANGED notif
  BY <1>1 DEF notif, Endings, TypeOK, NotificationState, None, Error
<1>2. ASSUME NEW target \in None .. ResponseComplete, Notify(target)
      PROVE  ns' >= ns /\ Endings' = Endings
  BY <1>2, PhasesEndNothing DEF Endings, Failed, Completed
<1> QED  BY <1>1, <1>2, HandlersNotify

\* Whatever else happens changes neither the state nor the endings reported,
\* except recording a failure and reporting an ending.
LEMMA OtherStepsReportNothing ==
  ASSUME TypeOK, [Next]_vars, ~OnClientRequestRead, ~OnRemoteResponseRead,
         \A c \in Chains : ~RecordFailure(c) /\ ~ReportFailure(c) /\ ~ReportCompletion(c)
  PROVE  ns' = ns /\ Endings' = Endings
<1>1. CASE Begin
  BY <1>1 DEF Begin, Raise, Endings, TypeOK, Signals
<1>2. CASE UNCHANGED notif
  BY <1>2 DEF notif, Endings
<1>3. ASSUME MainStep, ~Begin PROVE UNCHANGED notif
  BY <1>3 DEF MainStep, ReadClientRequest, OnRemoteOpened, SendClientRequestToRemote,
     OnRequestSent, ReadRemoteResponse, SendRemoteResponseToClient, OnResponseSent,
     SendConnectReply, OnConnectReplySent, StartUp, StartDown, LockedStart, ReadForTunnel
<1>4. ASSUME NEW c \in Directions, TunnelStep(c) PROVE UNCHANGED notif
  BY <1>4 DEF TunnelStep, OnTunnelRead, Forward, OnTunnelWritten, Loop, ReadForTunnel
<1>5. ASSUME NEW c \in Chains, EndingStep(c) PROVE UNCHANGED notif
  BY <1>5 DEF EndingStep, AcquireForRelease, CloseConnections, ResetPointers
<1>6. ASSUME NEW c \in Chains, NetworkCompletes(c) PROVE UNCHANGED notif
  BY <1>6 DEF NetworkCompletes, ReadCompletes, WriteSome, OpenCompletes, OperationFails
<1>7. ASSUME NEW e \in Ends, CallerReturns(e) PROVE UNCHANGED notif
  BY <1>7 DEF CallerReturns
<1>8. CASE UNCHANGED vars
  BY <1>2, <1>8 DEF vars
<1> QED  BY <1>1, <1>2, <1>3, <1>4, <1>5, <1>6, <1>7, <1>8 DEF Next, Finished

\* Past its release a chain finds every connection let go of and close() called.
LEMMA EndedIsReleased ==
  ASSUME IInv, NEW c \in Chains, pc[c] \in {"fail", "failed", "complete"}
  PROVE  \A e \in Ends : ~ptr[e] /\ ~open[e] /\ (sock[e] => lent[e])
<1>1. ~ptr["client"]
  BY DEF IInv, ControlInv, DropInv
<1>2. ~ptr["remote"]
  BY <1>1 DEF IInv, ControlInv, HoldInv
<1>3. pc["main"] # "opening"
  BY DEF IInv, ControlInv, StartInv
<1> QED  BY <1>1, <1>2, <1>3 DEF IInv, SocketInv

\* When a failure or a completion is reported, the transaction has called close()
\* and let go of both connections; a socket that is open all the same is held by
\* the function that handed the connection over.
THEOREM EndingsAfterRelease == Spec => ReleasedBeforeReported
<1>1. IInv /\ [Next]_vars =>
        [ Endings' > Endings =>
            \A e \in Ends : ~ptr[e] /\ ~open[e] /\ (sock[e] => lent[e]) ]_vars
  <2> SUFFICES ASSUME IInv, [Next]_vars, Endings' > Endings
               PROVE  \A e \in Ends : ~ptr[e] /\ ~open[e] /\ (sock[e] => lent[e])
    OBVIOUS
  <2>1. TypeOK
    BY DEF IInv
  <2>2. Endings \in Nat
    BY <2>1 DEF TypeOK, Endings, Signals
  <2>3. PICK c \in Chains : RecordFailure(c) \/ ReportFailure(c) \/ ReportCompletion(c)
    BY <2>1, <2>2, HandlersEndNothing, OtherStepsReportNothing
  <2>4. pc[c] \in {"fail", "failed", "complete"}
    BY <2>3 DEF RecordFailure, ReportFailure, ReportCompletion
  <2> QED  BY <2>4, EndedIsReleased
<1> QED  BY <1>1, Invariant, PTL DEF Spec, ReleasedBeforeReported

\* state() never goes back.
THEOREM NeverGoesBack == Spec => StateAdvances
<1>1. TypeOK /\ [Next]_vars => [ ns' >= ns ]_vars
  <2> SUFFICES ASSUME TypeOK, [Next]_vars PROVE ns' >= ns
    OBVIOUS
  <2>1. ns \in NotificationState
    BY DEF TypeOK
  <2>2. ASSUME NEW c \in Chains, RecordFailure(c) \/ ReportFailure(c) \/ ReportCompletion(c)
        PROVE  ns' = Error \/ ns' = ns
    BY <2>2 DEF RecordFailure, ReportFailure, ReportCompletion
  <2>3. Error >= ns /\ ns >= ns
    BY <2>1 DEF NotificationState, None, Error
  <2> QED  BY <2>2, <2>3, HandlersEndNothing, OtherStepsReportNothing
<1> QED  BY <1>1, TypeCorrect, PTL DEF Spec, StateAdvances

--------------------------------------------------------------------------------
\* Which way a transaction goes, and how it ends.

\* Which way main goes: an exchange of plain HTTP has no directions, and a tunnel
\* none of the steps of an exchange.
PlainPlaces == { "send_request", "sending_request", "read_response", "reading_response",
                 "send_response", "sending_response" }
ReplyPlaces == { "send_reply", "sending_reply", "start_up", "start_down" }

WayInv ==
  /\ pc["main"] \in PlainPlaces => method # Connect
  /\ pc["main"] \in ReplyPlaces => method = Connect
  /\ method # Connect => \A c \in Directions : pc[c] = "idle"
  /\ pc["up"] = "idle" => pc["down"] = "idle"
  /\ pc["main"] \in Releasing => ret["main"] \in {"fail", "complete"}

\* A chain that has a completion to report, and one that fails no more.
Owes(c) == pc[c] = "complete" \/ (pc[c] \in Releasing /\ ret[c] = "complete")
Over(c) == pc[c] = "done" \/ Owes(c)

One(condition) == IF condition THEN 1 ELSE 0

\* In a tunnel every completion follows a failure; in a plain exchange there is
\* one completion, main's.  Each chain that works on its own fails at most once.
EndingsInv ==
  /\ method = Connect =>
       Failed = Completed + One(Owes("main")) + One(Owes("up")) + One(Owes("down"))
  /\ method # Connect => Completed = One(pc["main"] = "done")
  /\ pc["up"] = "idle" => Failed <= One(Over("main"))
  /\ pc["up"] # "idle" => Failed <= One(Over("up")) + One(Over("down"))

EndInv == WayInv /\ EndingsInv

--------------------------------------------------------------------------------
\* The request's method is decided before the transaction begins.
LEMMA SameMethod == [Next]_vars => method' = method
<1> SUFFICES ASSUME [Next]_vars PROVE method' = method
  OBVIOUS
<1>1. CASE MainStep
  BY <1>1 DEF MainStep, Begin, ReadClientRequest, OnClientRequestRead, OnRemoteOpened,
     SendClientRequestToRemote, OnRequestSent, ReadRemoteResponse, OnRemoteResponseRead,
     SendRemoteResponseToClient, OnResponseSent, SendConnectReply, OnConnectReplySent, StartUp,
     StartDown, LockedStart, ReadForTunnel, ReadFailed, parse
<1>2. ASSUME NEW c \in Directions, TunnelStep(c) PROVE method' = method
  BY <1>2 DEF TunnelStep, OnTunnelRead, Forward, OnTunnelWritten, Loop, ReadForTunnel, parse
<1>3. ASSUME NEW c \in Chains, EndingStep(c) PROVE method' = method
  BY <1>3 DEF EndingStep, AcquireForRelease, CloseConnections, ResetPointers, RecordFailure,
     ReportFailure, ReportCompletion, parse
<1>4. ASSUME NEW c \in Chains, NetworkCompletes(c) PROVE method' = method
  BY <1>4 DEF NetworkCompletes, ReadCompletes, WriteSome, OpenCompletes, OperationFails, parse
<1>5. ASSUME NEW e \in Ends, CallerReturns(e) PROVE method' = method
  BY <1>5 DEF CallerReturns, parse
<1>6. CASE UNCHANGED vars
  BY <1>6 DEF vars, parse
<1> QED BY <1>1, <1>2, <1>3, <1>4, <1>5, <1>6 DEF Next, Finished

\* main keeps to its way.
LEMMA MainWay == IInv /\ WayInv /\ TypeOK' /\ MainStep => WayInv'
<1> SUFFICES ASSUME IInv, WayInv, TypeOK', MainStep PROVE WayInv'
  OBVIOUS
<1>m. method' = method
  BY SameMethod DEF Next
<1> USE <1>m DEF IInv, ControlInv, TypeOK, WayInv, StartInv, PlainPlaces, ReplyPlaces, Releasing,
            Goto, FailWith, ReleaseThen, Returned
<1>1. CASE Begin
  BY <1>1 DEF Begin
<1>2. CASE ReadClientRequest
  BY <1>2 DEF ReadClientRequest, LockedStart
<1>3. CASE OnClientRequestRead
  BY <1>3 DEF OnClientRequestRead, RequestParsed, ReadFailed
<1>4. CASE OnRemoteOpened
  BY <1>4 DEF OnRemoteOpened
<1>5. CASE SendClientRequestToRemote
  BY <1>5 DEF SendClientRequestToRemote, LockedStart
<1>6. CASE OnRequestSent
  BY <1>6 DEF OnRequestSent
<1>7. CASE ReadRemoteResponse
  BY <1>7 DEF ReadRemoteResponse, LockedStart
<1>8. CASE OnRemoteResponseRead
  BY <1>8 DEF OnRemoteResponseRead, ResponseParsed, ReadFailed
<1>9. CASE SendRemoteResponseToClient
  BY <1>9 DEF SendRemoteResponseToClient, LockedStart
<1>10. CASE OnResponseSent
  BY <1>10 DEF OnResponseSent
<1>11. CASE SendConnectReply
  BY <1>11 DEF SendConnectReply, LockedStart
<1>12. CASE OnConnectReplySent
  BY <1>12 DEF OnConnectReplySent
<1>13. CASE StartUp
  BY <1>13 DEF StartUp, ReadForTunnel
<1>14. CASE StartDown
  BY <1>14 DEF StartDown, ReadForTunnel
<1> QED  BY <1>1, <1>2, <1>3, <1>4, <1>5, <1>6, <1>7, <1>8, <1>9, <1>10, <1>11, <1>12,
            <1>13, <1>14 DEF MainStep

\* A direction runs only in a tunnel.
LEMMA TunnelWay ==
  ASSUME IInv, WayInv, TypeOK', NEW c \in Directions, TunnelStep(c)
  PROVE  WayInv'
<1>m. method' = method
  BY SameMethod DEF Next
<1> USE <1>m DEF IInv, TypeOK, WayInv, PlainPlaces, ReplyPlaces, Releasing,
            Goto, FailWith, ReleaseThen, Returned
<1>1. CASE OnTunnelRead(c)
  BY <1>1 DEF OnTunnelRead
<1>2. CASE Forward(c)
  BY <1>2 DEF Forward
<1>3. CASE OnTunnelWritten(c)
  BY <1>3 DEF OnTunnelWritten
<1>4. CASE Loop(c)
  BY <1>4 DEF Loop, ReadForTunnel
<1> QED  BY <1>1, <1>2, <1>3, <1>4 DEF TunnelStep

\* An ending goes on to what release_connections was called for.
LEMMA EndingWay ==
  ASSUME IInv, WayInv, TypeOK', NEW c \in Chains, EndingStep(c)
  PROVE  WayInv'
<1>m. method' = method
  BY SameMethod DEF Next
<1> USE <1>m DEF IInv, TypeOK, WayInv, PlainPlaces, ReplyPlaces, Releasing, Goto, ReleaseThen
<1>1. CASE AcquireForRelease(c)
  BY <1>1 DEF AcquireForRelease
<1>2. CASE CloseConnections(c)
  BY <1>2 DEF CloseConnections
<1>3. CASE ResetPointers(c)
  BY <1>3 DEF ResetPointers
<1>4. CASE RecordFailure(c)
  BY <1>4 DEF RecordFailure
<1>5. CASE ReportFailure(c)
  BY <1>5 DEF ReportFailure
<1>6. CASE ReportCompletion(c)
  BY <1>6 DEF ReportCompletion
<1> QED  BY <1>1, <1>2, <1>3, <1>4, <1>5, <1>6 DEF EndingStep

--------------------------------------------------------------------------------
\* Only the two reports of an ending count as one.
LEMMA OthersReportNeither ==
  ASSUME IInv,
         \/ MainStep
         \/ \E c \in Directions : TunnelStep(c)
         \/ \E c \in Chains : NetworkCompletes(c)
         \/ \E c \in Chains : EndingStep(c) /\ ~ReportFailure(c) /\ ~ReportCompletion(c)
         \/ UNCHANGED vars
  PROVE  Failed' = Failed /\ Completed' = Completed
<1>0. TypeOK
  BY DEF IInv
<1>1. CASE UNCHANGED raised
  BY <1>1 DEF Failed, Completed
<1>2. CASE Begin
  BY <1>0, <1>2 DEF Begin, Raise, Failed, Completed, TypeOK, Signals
<1>3. CASE OnClientRequestRead \/ OnRemoteResponseRead
  BY <1>0, <1>1, <1>3, HandlersNotify, PhasesEndNothing DEF notif
<1>4. ASSUME MainStep, ~Begin, ~OnClientRequestRead, ~OnRemoteResponseRead
      PROVE  UNCHANGED raised
  BY <1>4 DEF MainStep, ReadClientRequest, OnRemoteOpened, SendClientRequestToRemote,
     OnRequestSent, ReadRemoteResponse, SendRemoteResponseToClient, OnResponseSent,
     SendConnectReply, OnConnectReplySent, StartUp, StartDown, LockedStart, ReadForTunnel, notif
<1>5. ASSUME NEW c \in Directions, TunnelStep(c) PROVE UNCHANGED raised
  BY <1>5 DEF TunnelStep, OnTunnelRead, Forward, OnTunnelWritten, Loop, ReadForTunnel, notif
<1>6. ASSUME NEW c \in Chains, EndingStep(c), ~ReportFailure(c), ~ReportCompletion(c)
      PROVE  UNCHANGED raised
  BY <1>6 DEF EndingStep, AcquireForRelease, CloseConnections, ResetPointers, RecordFailure, notif
<1>7. ASSUME NEW c \in Chains, NetworkCompletes(c) PROVE UNCHANGED raised
  BY <1>7 DEF NetworkCompletes, ReadCompletes, WriteSome, OpenCompletes, OperationFails, notif
<1>8. CASE UNCHANGED vars
  BY <1>1, <1>8 DEF vars, notif
<1> QED  BY <1>1, <1>2, <1>3, <1>4, <1>5, <1>6, <1>7, <1>8

\* The endings are counted.
LEMMA CountsTyped == TypeOK => Failed \in Nat /\ Completed \in Nat
  BY DEF TypeOK, Failed, Completed, Signals

At(c, place) == pc' = [ pc EXCEPT ![c] = place ]

\* Where main goes from a step of its own.
LEMMA MainMoves ==
  ASSUME IInv, MainStep
  PROVE  /\ pc["main"] \notin EndPlaces
         /\ pc["main"] = "start_down" => pc'["main"] = "done"
         /\ \/ (\E x \in Places \ (EndPlaces \cup {"begin"}) : At("main", x)) /\ ret' = ret
            \/ At("main", "release") /\ ret' = [ ret EXCEPT !["main"] = "fail" ]
            \/ /\ pc["main"] = "sending_response"
               /\ At("main", "release") /\ ret' = [ ret EXCEPT !["main"] = "complete" ]
            \/ /\ pc["main"] = "start_up" /\ ret' = ret
               /\ \E x \in {"reading", "done"} :
                    pc' = [ [ pc EXCEPT !["main"] = "start_down" ] EXCEPT !["up"] = x ]
            \/ /\ pc["main"] = "start_down" /\ ret' = ret
               /\ \E x \in {"reading", "done"} :
                    pc' = [ [ pc EXCEPT !["main"] = "done" ] EXCEPT !["down"] = x ]
<1> USE DEF EndPlaces, Releasing, Places, Waiting, Goto, FailWith, ReleaseThen, Returned, At
<1>1. CASE Begin
  BY <1>1 DEF Begin
<1>2. CASE ReadClientRequest \/ SendClientRequestToRemote \/ ReadRemoteResponse
           \/ SendRemoteResponseToClient \/ SendConnectReply
  BY <1>2 DEF ReadClientRequest, SendClientRequestToRemote, ReadRemoteResponse,
              SendRemoteResponseToClient, SendConnectReply, LockedStart
<1>3. CASE OnClientRequestRead
  BY <1>3 DEF OnClientRequestRead, RequestParsed, ReadFailed
<1>4. CASE OnRemoteOpened
  BY <1>4 DEF OnRemoteOpened
<1>5. CASE OnRequestSent
  BY <1>5 DEF OnRequestSent
<1>6. CASE OnRemoteResponseRead
  BY <1>6 DEF OnRemoteResponseRead, ResponseParsed, ReadFailed
<1>7. CASE OnResponseSent
  BY <1>7 DEF OnResponseSent
<1>8. CASE OnConnectReplySent
  BY <1>8 DEF OnConnectReplySent
<1>9. CASE StartUp
  BY <1>9 DEF StartUp, ReadForTunnel
<1>10. CASE StartDown
  <2>1. pc \in [Chains -> Places]
    BY DEF IInv, TypeOK
  <2> QED BY <1>10, <2>1 DEF StartDown, ReadForTunnel
<1> QED BY <1>1, <1>2, <1>3, <1>4, <1>5, <1>6, <1>7, <1>8, <1>9, <1>10 DEF MainStep

\* Where a direction goes: it ends in silence, releases, or fails.
LEMMA TunnelMoves ==
  ASSUME IInv, NEW c \in Directions, TunnelStep(c)
  PROVE  /\ pc[c] \notin EndPlaces \cup {"idle"}
         /\ \/ /\ \E x \in (Places \ (EndPlaces \cup {"idle"})) \cup {"done"} : At(c, x)
               /\ ret' = ret
            \/ /\ At(c, "release")
               /\ \E r \in {"done", "fail"} : ret' = [ ret EXCEPT ![c] = r ]
  BY DEF TunnelStep, OnTunnelRead, Forward, OnTunnelWritten, Loop, ReadForTunnel, EndPlaces,
         Releasing, Places, Waiting, Goto, FailWith, ReleaseThen, Returned, At

\* main's steps before an ending leave the endings as they are owed.
LEMMA MainEndings ==
  ASSUME IInv, WayInv, WayInv', EndingsInv, MainStep
  PROVE  EndingsInv'
<1>m. method' = method
  BY SameMethod DEF Next
<1>n. Failed' = Failed /\ Completed' = Completed
  BY OthersReportNeither
<1>t. /\ Failed \in Nat /\ Completed \in Nat
      /\ pc \in [Chains -> Places] /\ ret \in [Chains -> {"fail", "complete", "done"}]
  BY CountsTyped DEF IInv, TypeOK
<1>w. pc["main"] \notin EndPlaces
  BY MainMoves
<1> USE <1>m, <1>n, <1>t, <1>w DEF EndingsInv, WayInv, Over, Owes, One, EndPlaces, Releasing, At
<1>1. CASE (\E x \in Places \ (EndPlaces \cup {"begin"}) : At("main", x)) /\ ret' = ret
  BY <1>1
<1>2. CASE At("main", "release") /\ ret' = [ ret EXCEPT !["main"] = "fail" ]
  BY <1>2
<1>3. CASE pc["main"] = "sending_response" /\ At("main", "release")
           /\ ret' = [ ret EXCEPT !["main"] = "complete" ]
  BY <1>3 DEF PlainPlaces
<1>4. CASE /\ pc["main"] = "start_up" /\ ret' = ret
           /\ \E x \in {"reading", "done"} :
                pc' = [ [ pc EXCEPT !["main"] = "start_down" ] EXCEPT !["up"] = x ]
  BY <1>4 DEF ReplyPlaces, IInv, ControlInv, StartInv
<1>5. CASE /\ pc["main"] = "start_down" /\ ret' = ret
           /\ \E x \in {"reading", "done"} :
                pc' = [ [ pc EXCEPT !["main"] = "done" ] EXCEPT !["down"] = x ]
  BY <1>5 DEF ReplyPlaces, IInv, ControlInv, StartInv
<1> QED BY <1>1, <1>2, <1>3, <1>4, <1>5, MainMoves

\* So do a direction's steps.
LEMMA TunnelEndings ==
  ASSUME IInv, WayInv, WayInv', EndingsInv, NEW c \in Directions, TunnelStep(c)
  PROVE  EndingsInv'
<1>m. method' = method
  BY SameMethod DEF Next
<1>n. Failed' = Failed /\ Completed' = Completed
  BY OthersReportNeither
<1>t. /\ Failed \in Nat /\ Completed \in Nat
      /\ pc \in [Chains -> Places] /\ ret \in [Chains -> {"fail", "complete", "done"}]
  BY CountsTyped DEF IInv, TypeOK
<1>w. pc[c] \notin EndPlaces \cup {"idle"}
  BY TunnelMoves
<1> USE <1>m, <1>n, <1>t, <1>w DEF EndingsInv, WayInv, Over, Owes, One, EndPlaces, Releasing, At
<1>1. CASE (\E x \in (Places \ (EndPlaces \cup {"idle"})) \cup {"done"} : At(c, x)) /\ ret' = ret
  BY <1>1
<1>2. CASE At(c, "release") /\ \E r \in {"done", "fail"} : ret' = [ ret EXCEPT ![c] = r ]
  BY <1>2
<1> QED BY <1>1, <1>2, TunnelMoves

\* The steps of an ending, the two reports among them.
LEMMA EndingEndings ==
  ASSUME IInv, WayInv, WayInv', EndingsInv, TypeOK', NEW c \in Chains, EndingStep(c)
  PROVE  EndingsInv'
<1>m. method' = method
  BY SameMethod DEF Next
<1>t. /\ Failed \in Nat /\ Completed \in Nat
      /\ pc \in [Chains -> Places] /\ ret \in [Chains -> {"fail", "complete", "done"}]
      /\ raised \in [Signals -> Nat]
      /\ pc["main"] \notin {"start_down", "done"} => \A d \in Directions : pc[d] = "idle"
  BY CountsTyped DEF IInv, TypeOK, ControlInv, StartInv
<1> USE <1>m, <1>t DEF EndingsInv, WayInv, Over, Owes, One, EndPlaces, Releasing
<1>1. CASE AcquireForRelease(c) \/ CloseConnections(c) \/ ResetPointers(c) \/ RecordFailure(c)
  <2>1. Failed' = Failed /\ Completed' = Completed
    BY <1>1, OthersReportNeither DEF AcquireForRelease, CloseConnections, ResetPointers,
       RecordFailure, notif, Failed, Completed
  <2>2. ret' = ret
    BY <1>1 DEF AcquireForRelease, CloseConnections, ResetPointers, RecordFailure, Goto
  <2>3. \/ pc[c] = "release" /\ pc' = [ pc EXCEPT ![c] = "closing" ]
        \/ pc[c] = "closing" /\ pc' = [ pc EXCEPT ![c] = "resetting" ]
        \/ pc[c] = "resetting" /\ pc' = [ pc EXCEPT ![c] = ret[c] ]
        \/ pc[c] = "fail" /\ pc' = [ pc EXCEPT ![c] = "failed" ]
    BY <1>1 DEF AcquireForRelease, CloseConnections, ResetPointers, RecordFailure, Goto
  <2> QED BY <2>1, <2>2, <2>3
<1>2. CASE ReportFailure(c)
  <2>1. /\ pc[c] = "failed" /\ pc' = [ pc EXCEPT ![c] = "release" ]
        /\ ret' = [ ret EXCEPT ![c] = "complete" ]
    BY <1>2 DEF ReportFailure, ReleaseThen
  <2>2. Failed' = Failed + 1 /\ Completed' = Completed
    BY <1>2 DEF ReportFailure, Raise, Failed, Completed, Signals
  <2> QED BY <2>1, <2>2
<1>3. CASE ReportCompletion(c)
  <2>1. pc[c] = "complete" /\ pc' = [ pc EXCEPT ![c] = "done" ] /\ ret' = ret
    BY <1>3 DEF ReportCompletion, Goto
  <2>2. Failed' = Failed /\ Completed' = Completed + 1
    BY <1>3 DEF ReportCompletion, Raise, Failed, Completed, Signals
  <2> QED BY <2>1, <2>2
<1> QED BY <1>1, <1>2, <1>3 DEF EndingStep

\* What happens outside the chains: the completion of an operation, or the return
\* of the function that handed a connection over.
Outside == \/ \E c \in Chains : NetworkCompletes(c)
           \/ \E e \in Ends : CallerReturns(e)
           \/ UNCHANGED vars

\* It ends nothing.
LEMMA NetworkEndings ==
  ASSUME IInv, WayInv, EndingsInv, Outside
  PROVE  WayInv' /\ EndingsInv'
<1>1. UNCHANGED << pc, ret >>
  BY DEF Outside, NetworkCompletes, ReadCompletes, WriteSome, OpenCompletes, OperationFails,
         CallerReturns, control, vars
<1>2. method' = method
  BY SameMethod DEF Next, Outside
<1>3. Failed' = Failed /\ Completed' = Completed
  BY DEF Outside, NetworkCompletes, ReadCompletes, WriteSome, OpenCompletes, OperationFails,
         CallerReturns, vars, notif, Failed, Completed
<1> QED BY <1>1, <1>2, <1>3 DEF WayInv, EndingsInv, Over, Owes

\* No ending has been reported or is owed before begin().
LEMMA InitEnds == Init => EndInv
  BY DEF Init, EndInv, WayInv, EndingsInv, PlainPlaces, ReplyPlaces, Releasing, Over, Owes, One,
         Failed, Completed, Signals

\* Every step keeps the account of the endings.
LEMMA StepEnds == IInv /\ EndInv /\ [Next]_vars => EndInv'
<1> SUFFICES ASSUME IInv, EndInv, [Next]_vars PROVE EndInv'
  OBVIOUS
<1>1. TypeOK'
  BY StepTyped DEF IInv
<1>2. CASE MainStep
  BY <1>1, <1>2, MainWay, MainEndings DEF EndInv
<1>3. ASSUME NEW c \in Directions, TunnelStep(c) PROVE EndInv'
  BY <1>1, <1>3, TunnelWay, TunnelEndings DEF EndInv
<1>4. ASSUME NEW c \in Chains, EndingStep(c) PROVE EndInv'
  BY <1>1, <1>4, EndingWay, EndingEndings DEF EndInv
<1>5. CASE Outside
  BY <1>5, NetworkEndings DEF EndInv
<1> QED  BY <1>2, <1>3, <1>4, <1>5 DEF Next, Finished, Outside

\* The account of the endings holds in every state a transaction reaches:
\* notify_failure goes on to complete_transaction, in every chain.
THEOREM EndsInvariant == Spec => []EndInv
  BY Invariant, InitEnds, StepEnds, PTL DEF Spec

\* A plain exchange completes exactly once and fails at most once; a tunnel
\* completes once for each failure it reports: notify_failure and
\* complete_transaction, however the chains race.
THEOREM EndingsAreReported == Spec => []EveryEndingReported
<1>1. IInv /\ EndInv => EveryEndingReported
  <2> SUFFICES ASSUME IInv, EndInv, AllStopped
               PROVE  IF method = Connect THEN Completed = Failed
                                          ELSE Completed = 1 /\ Failed <= 1
    BY DEF EveryEndingReported, TimesRaised, Completed, Failed
  <2>1. pc["main"] = "done" /\ \A c \in Directions : pc[c] \in {"idle", "done"}
    BY DEF AllStopped, Stopped, IInv, ControlInv, PlacesInv, MainPlaces, EndPlaces, Releasing
  <2>2. Failed \in Nat /\ Completed \in Nat
    BY CountsTyped DEF IInv
  <2>3. CASE method = Connect
    BY <2>1, <2>2, <2>3 DEF EndInv, EndingsInv, Owes, One, Releasing
  <2>4. CASE method # Connect
    BY <2>1, <2>2, <2>4 DEF EndInv, WayInv, EndingsInv, Over, One
  <2> QED BY <2>3, <2>4
<1> QED BY <1>1, Invariant, EndsInvariant, PTL

--------------------------------------------------------------------------------
\* What has been raised of the progress, from the state that has been reported:
\* while main works no failure has been recorded.
Progressed == /\ ns \in None .. ResponseComplete
              /\ raised["on_request_read"] = One(ns > RequestComplete)
              /\ raised["on_response_headers_read"] = One(ns > ResponseHeaders)

ProgressInv ==
  /\ raised["on_transaction_start"] = One(pc["main"] # "begin")
  /\ pc["main"] \in MainWorks => Progressed

\* What do_notification raises, before any failure has been recorded.
LEMMA NotifyProgresses ==
  ASSUME TypeOK, Progressed, NEW target \in None .. ResponseComplete, Notify(target)
  PROVE  /\ Progressed'
         /\ raised'["on_transaction_start"] = raised["on_transaction_start"]
         /\ Raised(ns, target) \subseteq {"on_request_read", "on_response_headers_read"}
         /\ \A s \in Raised(ns, target) : raised[s] = 0
         /\ "on_response_headers_read" \in Raised(ns, target) =>
              "on_request_read" \in Raised(ns, target) \/ raised["on_request_read"] = 1
<1> USE DEF None, RequestComplete, ResponseHeaders, ResponseComplete
<1>1. /\ "on_request_read" \in Raised(ns, target) <=>
              ns <= RequestComplete /\ target > RequestComplete
      /\ "on_response_headers_read" \in Raised(ns, target) <=>
              ns <= ResponseHeaders /\ target > ResponseHeaders
      /\ \A s \in Signals \ {"on_request_read", "on_response_headers_read"} :
              s \notin Raised(ns, target)
      /\ Raised(ns, target) \subseteq Signals
  BY DEF Raised, RaisedOnLeaving, Signals, Progressed
<1>2. ns' \in None .. ResponseComplete /\ ns' = IF ns < target THEN target ELSE ns
  BY DEF Notify, Advanced, Progressed
<1>3. \A s \in Signals : raised'[s] = raised[s] + One(s \in Raised(ns, target))
  BY DEF Notify, Raise, One
<1>4. raised \in [Signals -> Nat]
  BY DEF TypeOK
<1>5. Progressed'
  BY <1>1, <1>2, <1>3, <1>4 DEF Progressed, One, Signals
<1>6. raised'["on_transaction_start"] = raised["on_transaction_start"]
  BY <1>1, <1>3, <1>4 DEF One, Signals
<1>7. \A s \in Raised(ns, target) : raised[s] = 0
  BY <1>1 DEF Progressed, One
<1> QED BY <1>1, <1>5, <1>6, <1>7 DEF Progressed, One

\* The places where main works, and those it ends in.
LEMMA PlacesApart ==
  ASSUME IInv
  PROVE  /\ pc["main"] \in MainPlaces
         /\ pc["main"] \notin EndPlaces \cup {"start_down"} <=> pc["main"] \in MainWorks
         /\ \A c \in Directions : pc[c] # "idle" => pc["main"] \in {"start_down", "done"}
         /\ "start_down" \notin MainWorks /\ "begin" \notin EndPlaces
         /\ EndPlaces \cap MainWorks = {} /\ "done" \in EndPlaces /\ "release" \in EndPlaces
  BY DEF IInv, ControlInv, PlacesInv, StartInv, MainWorks, MainPlaces, EndPlaces, Releasing

\* Steps of main that report nothing.
LEMMA MainReportsNothing ==
  ASSUME MainStep, ~Begin, ~OnClientRequestRead, ~OnRemoteResponseRead
  PROVE  UNCHANGED notif
  BY DEF MainStep, ReadClientRequest, OnRemoteOpened, SendClientRequestToRemote,
     OnRequestSent, ReadRemoteResponse, SendRemoteResponseToClient, OnResponseSent,
     SendConnectReply, OnConnectReplySent, StartUp, StartDown, LockedStart, ReadForTunnel

\* main's steps report the phases in order, while it works.
LEMMA MainProgress ==
  ASSUME IInv, ProgressInv, MainStep
  PROVE  ProgressInv'
<1>t. pc \in [Chains -> Places] /\ raised \in [Signals -> Nat] /\ TypeOK
  BY DEF IInv, TypeOK
<1>1. CASE Begin
  <2>1. /\ pc["main"] = "begin" /\ pc'["main"] = "read_request" /\ ns' = ns
        /\ raised'["on_transaction_start"] = raised["on_transaction_start"] + 1
        /\ raised'["on_request_read"] = raised["on_request_read"]
        /\ raised'["on_response_headers_read"] = raised["on_response_headers_read"]
    BY <1>1, <1>t DEF Begin, Raise, Goto, Signals
  <2>2. "begin" \in MainWorks
    BY DEF MainWorks, MainPlaces, EndPlaces, Releasing
  <2> QED BY <2>1, <2>2 DEF ProgressInv, Progressed, One
<1>2. ASSUME ~Begin PROVE pc["main"] # "begin" /\ pc'["main"] # "begin"
  <2>1. pc["main"] # "begin"
    BY <1>2 DEF MainStep, ReadClientRequest, OnClientRequestRead, OnRemoteOpened,
       SendClientRequestToRemote, OnRequestSent, ReadRemoteResponse, OnRemoteResponseRead,
       SendRemoteResponseToClient, OnResponseSent, SendConnectReply, OnConnectReplySent, StartUp,
       StartDown, LockedStart, Returned
  <2>2. pc'["main"] # "begin"
    BY <1>t, MainMoves DEF At
  <2> QED BY <2>1, <2>2
<1>3. pc'["main"] \in MainWorks => pc["main"] \in MainWorks
  BY <1>t, MainMoves, PlacesApart DEF At
<1>4. CASE UNCHANGED notif /\ ~Begin
  BY <1>2, <1>3, <1>4 DEF ProgressInv, Progressed, notif
<1>5. ASSUME NEW target \in None .. ResponseComplete, Notify(target), ~Begin,
             OnClientRequestRead \/ OnRemoteResponseRead
      PROVE  ProgressInv'
  <2>1. pc["main"] \in MainWorks
    BY <1>5 DEF OnClientRequestRead, OnRemoteResponseRead, Returned, MainWorks, MainPlaces,
                EndPlaces, Releasing
  <2> QED BY <1>t, <1>2, <1>5, <2>1, NotifyProgresses DEF ProgressInv
<1> QED BY <1>1, <1>4, <1>5, <1>t, HandlersNotify, MainReportsNothing

\* An ending reports no progress, and main works no more once it has begun one.
LEMMA EndingProgress ==
  ASSUME IInv, ProgressInv, NEW c \in Chains, EndingStep(c)
  PROVE  ProgressInv' /\ raised'["on_transaction_start"] = raised["on_transaction_start"]
<1>t. /\ pc \in [Chains -> Places] /\ raised \in [Signals -> Nat]
      /\ ret \in [Chains -> {"fail", "complete", "done"}]
  BY DEF IInv, TypeOK
<1>1. raised'["on_transaction_start"] = raised["on_transaction_start"]
  BY <1>t DEF EndingStep, AcquireForRelease, CloseConnections, ResetPointers, RecordFailure,
     ReportFailure, ReportCompletion, Raise, Signals, notif
<1>2. \E x \in EndPlaces : pc[c] \in EndPlaces /\ pc' = [ pc EXCEPT ![c] = x ]
  BY <1>t DEF EndingStep, AcquireForRelease, CloseConnections, ResetPointers, RecordFailure,
     ReportFailure, ReportCompletion, Goto, ReleaseThen, EndPlaces, Releasing
<1>3. "idle" \notin EndPlaces
  BY DEF EndPlaces, Releasing
<1>4. pc'["main"] \notin MainWorks /\ pc["main"] # "begin" /\ pc'["main"] # "begin"
  <2>1. CASE c = "main"
    BY <1>t, <1>2, <2>1, PlacesApart
  <2>2. CASE c # "main"
    BY <1>t, <1>2, <1>3, <2>2, PlacesApart
  <2> QED BY <2>1, <2>2
<1> QED BY <1>1, <1>4 DEF ProgressInv, One

\* Directions and the network report nothing.
LEMMA OtherReportsNothing ==
  ASSUME (\E c \in Directions : TunnelStep(c)) \/ Outside
  PROVE  UNCHANGED << ns, raised >> /\ UNCHANGED ptr
<1>1. ASSUME NEW c \in Directions, TunnelStep(c) PROVE UNCHANGED << ns, raised >> /\ UNCHANGED ptr
  BY <1>1 DEF TunnelStep, OnTunnelRead, Forward, OnTunnelWritten, Loop, ReadForTunnel, notif
<1>2. ASSUME NEW c \in Chains, NetworkCompletes(c)
      PROVE  UNCHANGED << ns, raised >> /\ UNCHANGED ptr
  BY <1>2 DEF NetworkCompletes, ReadCompletes, WriteSome, OpenCompletes, OperationFails, notif
<1>3. ASSUME NEW e \in Ends, CallerReturns(e)
      PROVE  UNCHANGED << ns, raised >> /\ UNCHANGED ptr
  BY <1>3 DEF CallerReturns, notif
<1>4. CASE UNCHANGED vars
  BY <1>4 DEF vars, notif, conns
<1> QED BY <1>1, <1>2, <1>3, <1>4 DEF Outside

\* Nor do the directions and the network report any.
LEMMA OtherProgress ==
  ASSUME IInv, ProgressInv, (\E c \in Directions : TunnelStep(c)) \/ Outside
  PROVE  ProgressInv'
<1>1. pc'["main"] = pc["main"]
  <2>1. ASSUME NEW c \in Directions, TunnelStep(c) PROVE pc'["main"] = pc["main"]
    <3>1. c # "main" /\ pc \in [Chains -> Places]
      BY DEF IInv, TypeOK
    <3> QED BY <2>1, <3>1, TunnelMoves DEF At
  <2>2. ASSUME NEW c \in Chains, NetworkCompletes(c) PROVE pc' = pc
    BY <2>2 DEF NetworkCompletes, ReadCompletes, WriteSome, OpenCompletes, OperationFails, control
  <2>3. ASSUME NEW e \in Ends, CallerReturns(e) PROVE pc' = pc
    BY <2>3 DEF CallerReturns, control
  <2>4. CASE UNCHANGED vars
    BY <2>4 DEF vars, control
  <2> QED BY <2>1, <2>2, <2>3, <2>4 DEF Outside
<1> QED BY <1>1, OtherReportsNothing DEF ProgressInv, Progressed

\* Every step keeps the account of the progress.
LEMMA StepProgress == IInv /\ ProgressInv /\ [Next]_vars => ProgressInv'
<1> SUFFICES ASSUME IInv, ProgressInv, [Next]_vars PROVE ProgressInv'
  OBVIOUS
<1>1. CASE MainStep
  BY <1>1, MainProgress
<1>2. ASSUME NEW c \in Chains, EndingStep(c) PROVE ProgressInv'
  BY <1>2, EndingProgress
<1>3. CASE (\E c \in Directions : TunnelStep(c)) \/ Outside
  BY <1>3, OtherProgress
<1> QED BY <1>1, <1>2, <1>3 DEF Next, Finished, Outside

\* Nothing has been reported before begin().
LEMMA InitProgress == Init => ProgressInv
  BY DEF Init, ProgressInv, Progressed, One, Signals, None, RequestComplete, ResponseHeaders,
         ResponseComplete

\* What has been raised of the progress follows from the state that has been
\* reported (do_notification), in every state a transaction reaches.
THEOREM ProgressInvariant == Spec => []ProgressInv
  BY Invariant, InitProgress, StepProgress, PTL DEF Spec

--------------------------------------------------------------------------------
\* The transaction implements the lifecycle, step by step.

\* Letting go of the connections is a step of its own, at most once; what else
\* an ending does changes neither the connections nor the signals.
LEMMA ReleaseRefines ==
  ASSUME IInv, ProgressInv, NEW c \in Chains,
         AcquireForRelease(c) \/ CloseConnections(c) \/ ResetPointers(c) \/ RecordFailure(c)
  PROVE  [Lifecycle!Next]_(Lifecycle!vars)
<1>1. CASE ~ResetPointers(c) \/ ~ptr["client"]
  BY <1>1 DEF AcquireForRelease, CloseConnections, ResetPointers, RecordFailure, conns, notif,
     Lifecycle!vars, IInv, TypeOK
<1>2. CASE ResetPointers(c) /\ ptr["client"]
  <2>1. pc[c] = "resetting" /\ ptr'["client"] = FALSE /\ raised' = raised
    BY <1>2 DEF ResetPointers, notif
  <2>2. pc["main"] # "begin"
    BY <2>1, PlacesApart
  <2>3. Lifecycle!Started
    BY <2>2 DEF ProgressInv, One, Lifecycle!Started
  <2>4. Lifecycle!Release
    BY <1>2, <2>1, <2>3 DEF Lifecycle!Release
  <2> QED BY <2>4 DEF Lifecycle!Next
<1> QED BY <1>1, <1>2

\* A report of an ending is the one the lifecycle allows.
LEMMA ReportRefines ==
  ASSUME IInv, EndInv, NEW c \in Chains, ReportFailure(c) \/ ReportCompletion(c)
  PROVE  [Lifecycle!Next]_(Lifecycle!vars)
<1>1. ~ptr["client"] /\ UNCHANGED ptr
  <2>1. pc[c] \in {"failed", "complete"}
    BY DEF ReportFailure, ReportCompletion
  <2> QED BY <2>1, EndedIsReleased DEF ReportFailure, ReportCompletion, conns
<1>2. /\ Failed \in Nat /\ Completed \in Nat
      /\ pc["main"] \notin {"start_down", "done"} => \A d \in Directions : pc[d] = "idle"
  BY CountsTyped DEF IInv, ControlInv, StartInv
<1> USE <1>2 DEF EndInv, WayInv, EndingsInv, Over, Owes, One, Releasing
<1>3. CASE ReportFailure(c)
  <2>1. pc[c] = "failed"
    BY <1>3 DEF ReportFailure
  <2>2. Failed < 2 /\ Completed <= Failed
    BY <2>1
  <2>3. Lifecycle!Fail
    BY <1>1, <1>3, <2>2 DEF ReportFailure, Lifecycle!Fail, Lifecycle!Failures, Lifecycle!Endings,
       Lifecycle!Raise, Lifecycle!Signals, Signals, Raise, Failed, Completed
  <2> QED BY <2>3 DEF Lifecycle!Next
<1>4. CASE ReportCompletion(c)
  <2>1. pc[c] = "complete"
    BY <1>4 DEF ReportCompletion
  <2>2. Completed < Failed \/ (Failed = 0 /\ Completed = 0)
    BY <2>1
  <2>3. Lifecycle!Complete
    BY <1>1, <1>4, <2>2 DEF ReportCompletion, Lifecycle!Complete, Lifecycle!Failures,
       Lifecycle!Endings, Lifecycle!Raise, Lifecycle!Signals, Signals, Raise, Failed, Completed
  <2> QED BY <2>3 DEF Lifecycle!Next
<1> QED BY <1>3, <1>4

\* A step of main begins the transaction, or reports progress, or neither.
LEMMA MainRefines ==
  ASSUME IInv, ProgressInv, MainStep
  PROVE  [Lifecycle!Next]_(Lifecycle!vars)
<1>t. ptr \in [Ends -> BOOLEAN] /\ TypeOK
  BY DEF IInv, TypeOK
<1>1. ptr'["client"] = ptr["client"]
  BY <1>t DEF MainStep, Begin, ReadClientRequest, OnClientRequestRead, OnRemoteOpened, KeepRemote,
     SendClientRequestToRemote, OnRequestSent, ReadRemoteResponse, OnRemoteResponseRead,
     SendRemoteResponseToClient, OnResponseSent, SendConnectReply, OnConnectReplySent, StartUp,
     StartDown, LockedStart, ReadForTunnel, conns
<1>2. CASE Begin
  <2>1. pc["main"] = "begin" /\ pc["main"] \in MainWorks
    BY <1>2 DEF Begin, MainWorks, MainPlaces, EndPlaces, Releasing
  <2>2. ptr["client"]
    BY <2>1 DEF IInv, ControlInv, HoldInv
  <2>3. ~Lifecycle!Started
    BY <2>1 DEF ProgressInv, One, Lifecycle!Started
  <2>4. Lifecycle!Begin
    BY <1>1, <1>2, <2>2, <2>3 DEF Begin, Raise, Lifecycle!Begin, Lifecycle!Raise,
       Lifecycle!Signals, Signals
  <2> QED BY <2>4 DEF Lifecycle!Next
<1>3. CASE UNCHANGED notif
  BY <1>1, <1>3 DEF notif, Lifecycle!vars
<1>4. ASSUME NEW target \in None .. ResponseComplete, Notify(target),
             OnClientRequestRead \/ OnRemoteResponseRead
      PROVE  [Lifecycle!Next]_(Lifecycle!vars)
  <2>1. pc["main"] \in MainWorks /\ pc["main"] # "begin"
    BY <1>4 DEF OnClientRequestRead, OnRemoteResponseRead, Returned, MainWorks, MainPlaces,
                EndPlaces, Releasing
  <2>2. ptr["client"] /\ Progressed /\ Lifecycle!Started
    BY <2>1 DEF IInv, ControlInv, HoldInv, ProgressInv, One, Lifecycle!Started
  <2>3. raised' = [ s \in Signals |-> raised[s] + IF s \in Raised(ns, target) THEN 1 ELSE 0 ]
    BY <1>4 DEF Notify, Raise
  <2>4. CASE Raised(ns, target) = {}
    <3>1. raised' = raised
      BY <1>t, <2>3, <2>4 DEF TypeOK
    <3> QED BY <1>1, <3>1 DEF Lifecycle!vars
  <2>5. CASE Raised(ns, target) # {}
    <3>1. Raised(ns, target) \in
            (SUBSET {"on_request_read", "on_response_headers_read"}) \ {{}}
      BY <1>t, <1>4, <2>2, <2>5, NotifyProgresses
    <3>2. Lifecycle!Progress(Raised(ns, target))
      BY <1>1, <1>t, <1>4, <2>2, <2>3, NotifyProgresses DEF Lifecycle!Progress,
         Lifecycle!Raise, Lifecycle!Signals, Signals
    <3> QED BY <3>1, <3>2 DEF Lifecycle!Next
  <2> QED BY <2>4, <2>5
<1> QED BY <1>2, <1>3, <1>4, <1>t, HandlersNotify, MainReportsNothing

\* A transaction implements the safety of the lifecycle its listeners rely on: it
\* starts as one, and every step of its handlers, of the network and of
\* release_connections is one of the lifecycle's or a stutter.
THEOREM ImplementsLifecycleSafely ==
  Spec => Lifecycle!Init /\ [][Lifecycle!Next]_(Lifecycle!vars)
<1>1. Init => Lifecycle!Init
  BY DEF Init, Lifecycle!Init, Lifecycle!Signals, Signals
<1>2. IInv /\ EndInv /\ ProgressInv /\ [Next]_vars => [Lifecycle!Next]_(Lifecycle!vars)
  <2> SUFFICES ASSUME IInv, EndInv, ProgressInv, [Next]_vars
               PROVE  [Lifecycle!Next]_(Lifecycle!vars)
    OBVIOUS
  <2>1. CASE MainStep
    BY <2>1, MainRefines
  <2>2. ASSUME NEW c \in Chains, EndingStep(c) PROVE [Lifecycle!Next]_(Lifecycle!vars)
    BY <2>2, ReleaseRefines, ReportRefines DEF EndingStep
  <2>3. CASE (\E c \in Directions : TunnelStep(c)) \/ Outside
    BY <2>3, OtherReportsNothing DEF Lifecycle!vars
  <2> QED BY <2>1, <2>2, <2>3 DEF Next, Finished, Outside
<1> QED BY <1>1, <1>2, Invariant, EndsInvariant, ProgressInvariant, PTL DEF Spec

--------------------------------------------------------------------------------
\* The data of a tunnel.

\* A direction carries the bytes of its last read until they are written out;
\* InHand of them, Out of which the peer already has.
Sent(c, n)  == delivered[Sink(c)] = Bytes(c, n)
InHand(c)   == Len(buffer[TunnelBuffer(c)])
Out(c)      == IF pc[c] = "writing" THEN op[c].sent ELSE 0
Carrying(c) == \/ pc[c] \in {"forward", "writing"}
               \/ pc[c] = "reading" /\ Result(c) = "ok"

LastRead(c) ==
  \A i \in 1 .. InHand(c) :
    buffer[TunnelBuffer(c)][i] = << c, reads[c] - InHand(c) + i >>

DirectionOK(c) ==
  /\ Carrying(c) => /\ InHand(c) \in 1 .. reads[c]
                    /\ LastRead(c)
                    /\ Out(c) \in 0 .. InHand(c)
                    /\ Sent(c, reads[c] - InHand(c) + Out(c))
  /\ pc[c] = "writing" => /\ Pending(c) => Out(c) < InHand(c)
                          /\ Result(c) = "ok" => Out(c) = InHand(c)
  /\ ~Carrying(c) /\ pc[c] \notin EndPlaces => Sent(c, reads[c])
  /\ pc[c] \in EndPlaces => \E k \in reads[c] - InHand(c) .. reads[c] : Sent(c, k)

TunnelDataInv == method = Connect => \A c \in Directions : DirectionOK(c)

\* One byte more.
LEMMA AppendedNext ==
  ASSUME NEW S, NEW q \in Seq(S), NEW e \in S
  PROVE  /\ Append(q, e) \in Seq(S)
         /\ Len(Append(q, e)) = Len(q) + 1
         /\ \A i \in 1 .. Len(q) : Append(q, e)[i] = q[i]
         /\ Append(q, e)[Len(q) + 1] = e
  OBVIOUS

\* The bytes of a stream grow by the one that follows.
LEMMA BytesGrow ==
  ASSUME NEW s, NEW n \in Nat \ {0}
  PROVE  Append(Bytes(s, n - 1), << s, n >>) = Bytes(s, n)
<1> DEFINE C == {s} \X Nat
           e == << s, n >>
           q == Bytes(s, n - 1)
           r == Bytes(s, n)
<1>1. \A k \in Nat : Bytes(s, k) \in Seq(C) /\ Len(Bytes(s, k)) = k
  BY DEF Bytes
<1>2. \A i \in 1 .. (n - 1) : q[i] = r[i]
  BY DEF Bytes
<1>3. r[n] = e
  BY DEF Bytes
<1>4. e \in C /\ n - 1 \in Nat
  OBVIOUS
<1>5. q \in Seq(C) /\ r \in Seq(C) /\ Len(q) = n - 1 /\ Len(r) = n
  BY <1>1, <1>4
<1> HIDE DEF C, e, q, r
<1>6. Append(q, e) \in Seq(C) /\ Len(Append(q, e)) = n
      /\ Append(q, e)[n] = e /\ \A i \in 1 .. (n - 1) : Append(q, e)[i] = q[i]
  BY <1>4, <1>5, AppendedNext
<1>7. \A i \in 1 .. n : Append(q, e)[i] = r[i]
  <2> TAKE i \in 1 .. n
  <2> QED BY <1>2, <1>3, <1>6
<1>8. Append(q, e) = r
  <2>1. \A t, u \in Seq(C) : Len(t) = Len(u) /\ (\A i \in 1 .. Len(t) : t[i] = u[i]) => t = u
    OBVIOUS
  <2> QED BY <1>5, <1>6, <1>7, <2>1
<1> QED BY <1>8 DEF e, q, r

\* Of a stream that has not been read there are none.
LEMMA NoBytes == \A s : Bytes(s, 0) = << >>
  BY DEF Bytes

\* Who leaves a direction alone leaves its data as they were.
LEMMA LeftAlone ==
  ASSUME NEW c \in Directions, DirectionOK(c), pc'[c] = pc[c], reads'[c] = reads[c],
         delivered'[Sink(c)] = delivered[Sink(c)],
         Carrying(c) \/ pc[c] \in EndPlaces =>
           buffer'[TunnelBuffer(c)] = buffer[TunnelBuffer(c)],
         op'[c].result = "ok" <=> op[c].result = "ok",
         op'[c].result = "pending" => op[c].result = "pending",
         op'[c].sent = op[c].sent
  PROVE  DirectionOK(c)'
<1>1. /\ Carrying(c)' <=> Carrying(c)
      /\ Out(c)' = Out(c)
      /\ Result(c)' = "ok" <=> Result(c) = "ok"
      /\ Pending(c)' => Pending(c)
  BY DEF Carrying, Result, Out, Pending
<1>2. \A n : Sent(c, n)' <=> Sent(c, n)
  BY DEF Sent, Bytes
<1>3. CASE Carrying(c) \/ pc[c] \in EndPlaces
  <2>1. InHand(c)' = InHand(c) /\ (LastRead(c)' <=> LastRead(c))
    BY <1>3 DEF InHand, LastRead
  <2> QED BY <1>1, <1>2, <1>3, <2>1 DEF DirectionOK, Sent
<1>4. CASE ~Carrying(c) /\ pc[c] \notin EndPlaces
  BY <1>1, <1>2, <1>4 DEF DirectionOK, Sent, Carrying
<1> QED BY <1>3, <1>4

\* A chain whose operation is aborted has written what it had written.
LEMMA AbortedSent ==
  ASSUME op \in [Chains -> Op], NEW ends, op' = Aborted(ends) \/ op' = op, NEW c \in Chains
  PROVE  /\ op'[c].result = "ok" <=> op[c].result = "ok"
         /\ op'[c].result = "pending" => op[c].result = "pending"
         /\ op'[c].sent = op[c].sent
  BY DEF Aborted, Pending, Op

\* The types the arguments about data rest on.
LEMMA DataTyped ==
  ASSUME IInv
  PROVE  /\ pc \in [Chains -> Places] /\ op \in [Chains -> Op]
         /\ reads \in [Streams -> Nat] /\ buffer \in [Buffers -> Seq(Byte)]
         /\ delivered \in [Ends -> Seq(Byte)] /\ raw_input \in Seq(Byte)
         /\ \A c \in Directions :
              /\ c \in Streams /\ Sink(c) \in Ends /\ TunnelBuffer(c) \in Buffers
              /\ reads[c] \in Nat /\ InHand(c) \in Nat
         /\ TunnelBuffer("up") # TunnelBuffer("down") /\ Sink("up") # Sink("down")
<1>1. /\ pc \in [Chains -> Places] /\ op \in [Chains -> Op]
      /\ reads \in [Streams -> Nat] /\ buffer \in [Buffers -> Seq(Byte)]
      /\ delivered \in [Ends -> Seq(Byte)] /\ raw_input \in Seq(Byte)
  BY DEF IInv, TypeOK
<1>2. \A c \in Directions : c \in Streams /\ Sink(c) \in Ends /\ TunnelBuffer(c) \in Buffers
  BY DEF Streams, Sink, TunnelBuffer, Buffers
<1>3. \A c \in Directions : reads[c] \in Nat /\ InHand(c) \in Nat
  BY <1>1, <1>2 DEF InHand
<1>4. TunnelBuffer("up") # TunnelBuffer("down") /\ Sink("up") # Sink("down")
  BY DEF TunnelBuffer, Sink
<1> QED BY <1>1, <1>2, <1>3, <1>4

\* main starts the directions, with nothing in hand.
LEMMA MainTunnelData ==
  ASSUME IInv, WayInv, TunnelDataInv, MainStep, method = Connect
  PROVE  TunnelDataInv'
<1>t. /\ pc \in [Chains -> Places] /\ op \in [Chains -> Op]
      /\ \A c \in Directions : reads[c] \in Nat /\ InHand(c) \in Nat
  BY DataTyped
<1>1. UNCHANGED << reads, buffer, delivered >>
  BY DEF MainStep, Begin, ReadClientRequest, OnClientRequestRead, OnRemoteOpened,
     SendClientRequestToRemote, OnRequestSent, ReadRemoteResponse, OnRemoteResponseRead,
     SendRemoteResponseToClient, OnResponseSent, SendConnectReply, OnConnectReplySent, StartUp,
     StartDown, LockedStart, ReadForTunnel, data
<1>2. \A c \in Directions : DirectionOK(c)
  BY DEF TunnelDataInv
<1>3. ASSUME ~StartUp, ~StartDown, NEW c \in Directions
      PROVE  pc'[c] = pc[c] /\ op'[c] = op[c]
  BY <1>t, <1>3 DEF MainStep, Begin, ReadClientRequest, OnClientRequestRead, OnRemoteOpened,
     SendClientRequestToRemote, OnRequestSent, ReadRemoteResponse, OnRemoteResponseRead,
     SendRemoteResponseToClient, OnResponseSent, SendConnectReply, OnConnectReplySent,
     LockedStart, RequestParsed, ResponseParsed, ReadFailed, Goto, FailWith, ReleaseThen,
     Forget, conns
<1>4. CASE ~StartUp /\ ~StartDown
  BY <1>1, <1>2, <1>3, <1>4, LeftAlone DEF TunnelDataInv
<1>5. ASSUME NEW c \in Directions, NEW d \in Directions, c # d, pc[c] = "idle",
             NEW pcs \in [Chains -> Places], pcs[c] = pc[c], pcs[d] = pc[d],
             ReadForTunnel(c, pcs)
      PROVE  TunnelDataInv'
  <2>1. pc'[d] = pc[d] /\ op'[d] = op[d]
    BY <1>t, <1>5 DEF ReadForTunnel, Forget
  <2>2. DirectionOK(d)'
    BY <1>1, <1>2, <2>1, LeftAlone
  <2>3. Sent(c, reads[c])
    BY <1>2, <1>5 DEF DirectionOK, Carrying, EndPlaces, Releasing
  <2>4. \/ pc'[c] = "reading" /\ op'[c].result = "pending"
        \/ pc'[c] = "done"
    BY <1>t, <1>5 DEF ReadForTunnel, Read, Started
  <2>5. Sent(c, reads[c])' /\ reads'[c] \in Nat /\ InHand(c)' \in Nat
    BY <1>t, <1>1, <2>3 DEF Sent, Bytes, InHand
  <2>6. DirectionOK(c)'
    BY <2>4, <2>5 DEF DirectionOK, Carrying, Result, EndPlaces, Releasing
  <2> QED BY <1>5, <2>2, <2>6 DEF TunnelDataInv
<1>6. CASE StartUp
  <2>1. pc["up"] = "idle"
    BY <1>6 DEF StartUp, IInv, ControlInv, StartInv
  <2>2. [ pc EXCEPT !["main"] = "start_down" ] \in [Chains -> Places]
    BY <1>t DEF Places
  <2> QED BY <1>t, <1>5, <1>6, <2>1, <2>2 DEF StartUp
<1>7. CASE StartDown
  <2>1. pc["down"] = "idle"
    BY <1>7 DEF StartDown, IInv, ControlInv, StartInv
  <2>2. [ pc EXCEPT !["main"] = "done" ] \in [Chains -> Places]
    BY <1>t DEF Places
  <2> QED BY <1>t, <1>5, <1>7, <2>1, <2>2 DEF StartDown
<1> QED BY <1>4, <1>6, <1>7

\* A direction passes on what it has read, or gives up.
LEMMA TunnelTunnelData ==
  ASSUME IInv, TunnelDataInv, method = Connect, method' = method,
         NEW c \in Directions, TunnelStep(c)
  PROVE  TunnelDataInv'
<1>t. /\ pc \in [Chains -> Places] /\ op \in [Chains -> Op]
      /\ reads[c] \in Nat /\ InHand(c) \in Nat
  BY DataTyped
<1>1. UNCHANGED << reads, buffer, delivered >>
  BY DEF TunnelStep, OnTunnelRead, Forward, OnTunnelWritten, Loop, ReadForTunnel, data
<1>2. DirectionOK(c)
  BY DEF TunnelDataInv
<1>3. ASSUME NEW d \in Directions, d # c PROVE DirectionOK(d)'
  <2>1. pc'[d] = pc[d] /\ op'[d] = op[d] /\ DirectionOK(d)
    BY <1>t, <1>3 DEF TunnelStep, OnTunnelRead, Forward, OnTunnelWritten, Loop, ReadForTunnel,
       Goto, FailWith, ReleaseThen, Forget, TunnelDataInv
  <2> QED BY <1>1, <2>1, LeftAlone
\* What the step leaves as it was: the data, only the place and the operation move.
<1>4. /\ \A n : Sent(c, n)' <=> Sent(c, n)
      /\ InHand(c)' = InHand(c) /\ reads'[c] = reads[c]
      /\ LastRead(c)' <=> LastRead(c)
  BY <1>1 DEF Sent, Bytes, InHand, LastRead
<1>5. DirectionOK(c)'
  <2> USE DEF Carrying, Result, Pending, Out, EndPlaces, Releasing
  <2>1. ASSUME pc'[c] \in EndPlaces, NEW k \in reads[c] - InHand(c) .. reads[c], Sent(c, k)
        PROVE  DirectionOK(c)'
    BY <1>4, <2>1 DEF DirectionOK, Sent
  <2>2. ASSUME pc'[c] \in {"reading", "loop"}, op'[c].result # "ok", Sent(c, reads[c])
        PROVE  DirectionOK(c)'
    BY <1>4, <2>2 DEF DirectionOK, Sent
  <2>l. ASSUME pc'[c] = "loop", Sent(c, reads[c])
        PROVE  DirectionOK(c)'
    BY <1>4, <2>l DEF DirectionOK, Sent
  <2>3. CASE OnTunnelRead(c) /\ Result(c) = "ok"
    <3>1. pc[c] = "reading" /\ pc'[c] = "forward"
      BY <1>t, <2>3 DEF OnTunnelRead, Returned, Goto
    <3> QED BY <1>2, <1>4, <2>3, <3>1 DEF DirectionOK, Sent
  <2>4. CASE OnTunnelRead(c) /\ Result(c) # "ok"
    <3>1. pc[c] = "reading" /\ pc'[c] = "release"
      BY <1>t, <2>4 DEF OnTunnelRead, Returned, ReleaseThen
    <3> QED BY <1>2, <1>t, <2>1, <2>4, <3>1 DEF DirectionOK
  <2>5. CASE Forward(c)
    <3>1. /\ InHand(c) \in 1 .. reads[c] /\ LastRead(c)
          /\ Sent(c, reads[c] - InHand(c) + 0)
      BY <1>2, <2>5 DEF DirectionOK, Forward
    <3>2. \/ pc'[c] = "writing" /\ op'[c].sent = 0 /\ op'[c].result = "pending"
          \/ pc'[c] = "done"
      BY <1>t, <2>5 DEF Forward, Goto, Write, Started
    <3>3. reads[c] - InHand(c) + 0 \in reads[c] - InHand(c) .. reads[c]
      BY <1>t, <3>1
    <3> QED BY <1>t, <1>4, <2>1, <3>1, <3>2, <3>3 DEF DirectionOK, Sent
  <2>6. CASE OnTunnelWritten(c)
    <3>1. /\ pc[c] = "writing" /\ InHand(c) \in 1 .. reads[c]
          /\ Out(c) \in 0 .. InHand(c) /\ Sent(c, reads[c] - InHand(c) + Out(c))
          /\ Result(c) = "ok" => Out(c) = InHand(c)
      BY <1>2, <2>6 DEF DirectionOK, OnTunnelWritten, Returned
    <3>2. \/ pc'[c] = "loop" /\ Result(c) = "ok"
          \/ pc'[c] = "release"
      BY <1>t, <2>6 DEF OnTunnelWritten, Goto, FailWith, ReleaseThen
    <3> HIDE DEF Out
    <3>3. reads[c] - InHand(c) + Out(c) \in reads[c] - InHand(c) .. reads[c]
      BY <1>t, <3>1
    <3>4. Result(c) = "ok" => reads[c] - InHand(c) + Out(c) = reads[c]
      BY <1>t, <3>1
    <3> QED BY <2>1, <2>l, <3>1, <3>2, <3>3, <3>4
  <2>7. CASE Loop(c)
    <3>1. Sent(c, reads[c])
      BY <1>2, <2>7 DEF DirectionOK, Loop
    <3>2. \/ pc'[c] = "reading" /\ op'[c].result = "pending"
          \/ pc'[c] = "done"
      BY <1>t, <2>7 DEF Loop, ReadForTunnel, Read, Started
    <3> QED BY <1>t, <2>1, <2>2, <3>1, <3>2
  <2> QED BY <2>3, <2>4, <2>5, <2>6, <2>7 DEF TunnelStep
<1> QED BY <1>3, <1>5 DEF TunnelDataInv

\* An ending leaves the data alone, and aborts only what has no result yet.
LEMMA EndingTunnelData ==
  ASSUME IInv, TunnelDataInv, method = Connect, method' = method,
         NEW d \in Chains, EndingStep(d)
  PROVE  TunnelDataInv'
<1>t. /\ pc \in [Chains -> Places] /\ op \in [Chains -> Op]
      /\ ret \in [Chains -> {"fail", "complete", "done"}]
      /\ \A c \in Directions : reads[c] \in Nat /\ InHand(c) \in Nat
  BY DataTyped DEF IInv, TypeOK
<1>1. UNCHANGED << reads, buffer, delivered >>
  BY DEF EndingStep, AcquireForRelease, CloseConnections, ResetPointers, RecordFailure,
     ReportFailure, ReportCompletion, data
<1>2. \E ends : op' = Aborted(ends) \/ op' = op
  BY DEF EndingStep, AcquireForRelease, CloseConnections, ResetPointers, RecordFailure,
     ReportFailure, ReportCompletion, conns
<1>3. \E x \in EndPlaces : pc[d] \in EndPlaces /\ pc' = [ pc EXCEPT ![d] = x ]
  BY <1>t DEF EndingStep, AcquireForRelease, CloseConnections, ResetPointers, RecordFailure,
     ReportFailure, ReportCompletion, Goto, ReleaseThen, EndPlaces, Releasing
<1>4. ASSUME NEW c \in Directions PROVE DirectionOK(c)'
  <2>1. DirectionOK(c)
    BY DEF TunnelDataInv
  <2>2. CASE c # d
    <3>1. pc'[c] = pc[c]
      BY <1>t, <1>3, <2>2
    <3> QED BY <1>t, <1>1, <1>2, <2>1, <3>1, AbortedSent, LeftAlone
  <2>3. CASE c = d
    <3>1. pc[c] \in EndPlaces /\ pc'[c] \in EndPlaces
      BY <1>t, <1>3, <2>3
    <3>2. \E k \in reads[c] - InHand(c) .. reads[c] : Sent(c, k)
      BY <2>1, <3>1 DEF DirectionOK
    <3>3. \E k \in (reads[c] - InHand(c) .. reads[c])' : Sent(c, k)'
      BY <1>1, <3>2 DEF InHand, Sent, Bytes
    <3> QED BY <3>1, <3>3 DEF DirectionOK, Carrying, Sent, EndPlaces, Releasing
  <2> QED BY <2>2, <2>3
<1> QED BY <1>4 DEF TunnelDataInv

\* So does the return of the function that handed a connection over.
LEMMA CallerTunnelData ==
  ASSUME IInv, TunnelDataInv, method' = method, NEW e \in Ends, CallerReturns(e)
  PROVE  TunnelDataInv'
<1>1. UNCHANGED << pc, reads, buffer, delivered >> /\ \E ends : op' = Aborted(ends)
  BY DEF CallerReturns, control, data
<1>2. op \in [Chains -> Op]
  BY DataTyped
<1>3. ASSUME NEW c \in Directions, DirectionOK(c) PROVE DirectionOK(c)'
  BY <1>1, <1>2, <1>3, AbortedSent, LeftAlone
<1> QED BY <1>3 DEF TunnelDataInv

\* From the operation that is outstanding, where its chain waits for it.
LEMMA WaitsWhere ==
  ASSUME IInv, WayInv, NEW c \in Chains, Pending(c)
  PROVE  /\ c = "main" /\ op[c].kind = "read" /\ method = Connect => pc[c] = "reading_request"
         /\ c = "main" /\ op[c].kind = "read" =>
              pc[c] \in {"reading_request", "reading_response"}
              /\ op[c].buf = "read_buffer_"
         /\ c = "main" /\ op[c].kind = "write" /\ method = Connect => op[c].buf = "own"
         /\ c = "main" /\ op[c].kind = "write" =>
              \/ op[c].buf = "own"
              \/ pc[c] = "sending_response" /\ op[c].buf = "raw_input_" /\ op[c].end = "client"
         /\ c \in Directions /\ op[c].kind = "read" =>
              pc[c] = "reading" /\ op[c].buf = TunnelBuffer(c)
         /\ c \in Directions /\ op[c].kind = "write" =>
              pc[c] = "writing" /\ op[c].buf = TunnelBuffer(c) /\ op[c].end = Sink(c)
<1>1. pc[c] \in Waiting
  BY DEF IInv, OpInv, IdleOpInv, TunnelOpInv, Pending, NoOp, Started, PlacesInv, ControlInv,
     MainPlaces, EndPlaces, Releasing
<1>2. PlacesInv /\ MainOpInv /\ TunnelOpInv
  BY DEF IInv, ControlInv, OpInv
<1>3. CASE c = "main"
  BY <1>1, <1>2, <1>3 DEF PlacesInv, MainPlaces, Waiting, EndPlaces, Releasing, MainOpInv, Is,
     WayInv, PlainPlaces
<1>4. CASE c \in Directions
  BY <1>1, <1>2, <1>4 DEF PlacesInv, TunnelPlaces, Waiting, EndPlaces, Releasing, TunnelOpInv, Is
<1> QED BY <1>3, <1>4

\* What a write of the transaction's own bytes delivers is not followed.
LEMMA OwnBytes ==
  ASSUME delivered \in [Ends -> Seq(Byte)], NEW c \in Chains, WriteSome(c), op[c].buf = "own"
  PROVE  delivered' = delivered
<1>1. Payload(op[c].buf) = << >>
  BY DEF Payload
<1>2. op[c].sent + 1 \notin DOMAIN << >>
  OBVIOUS
<1> QED BY <1>1, <1>2 DEF WriteSome

\* A read puts the bytes that follow into a chain's buffer.
LEMMA ReadBytes ==
  ASSUME IInv, NEW c \in Chains, ReadCompletes(c), op[c].buf \in Buffers
  PROVE  \E n \in Nat \ {0} :
           /\ reads' = [ reads EXCEPT ![Stream(c)] = @ + n ]
           /\ buffer' = [ buffer EXCEPT ![op[c].buf] = Arriving(Stream(c), n) ]
           /\ Len(buffer'[op[c].buf]) = n
           /\ \A i \in 1 .. n : buffer'[op[c].buf][i] = << Stream(c), reads[Stream(c)] + i >>
<1>1. MaxBytes[Stream(c)] \in Nat /\ reads[Stream(c)] \in Nat
  BY MaxBytesAssumption DEF IInv, TypeOK, Stream, Streams
<1>2. PICK n \in 1 .. MaxBytes[Stream(c)] - reads[Stream(c)] :
        /\ reads' = [ reads EXCEPT ![Stream(c)] = @ + n ]
        /\ buffer' = [ buffer EXCEPT ![op[c].buf] = Arriving(Stream(c), n) ]
  BY DEF ReadCompletes
<1>3. n \in Nat \ {0}
  BY <1>1, <1>2
<1>4. buffer'[op[c].buf] = Arriving(Stream(c), n)
  BY <1>2 DEF IInv, TypeOK
<1>5. Len(Arriving(Stream(c), n)) = n
      /\ \A i \in 1 .. n : Arriving(Stream(c), n)[i] = << Stream(c), reads[Stream(c)] + i >>
  BY <1>3 DEF Arriving
<1> QED BY <1>2, <1>3, <1>4, <1>5

\* A direction's read leaves it with the bytes that follow those it has sent.
LEMMA ReadTunnelData ==
  ASSUME IInv, WayInv, TunnelDataInv, method = Connect, method' = method,
         NEW d \in Directions, ReadCompletes(d)
  PROVE  TunnelDataInv'
<1>t. /\ pc \in [Chains -> Places] /\ op \in [Chains -> Op]
      /\ reads \in [Streams -> Nat] /\ buffer \in [Buffers -> Seq(Byte)]
      /\ \A c \in Directions :
           /\ c \in Streams /\ TunnelBuffer(c) \in Buffers
           /\ reads[c] \in Nat /\ InHand(c) \in Nat
      /\ TunnelBuffer("up") # TunnelBuffer("down")
  BY DataTyped
<1>1. pc' = pc /\ delivered' = delivered /\ op'[d].result = "ok"
      /\ \A c \in Chains \ {d} : op'[c] = op[c]
  BY <1>t DEF ReadCompletes, control
<1>2. pc[d] = "reading" /\ op[d].buf = TunnelBuffer(d) /\ Stream(d) = d /\ Result(d) = "pending"
  BY WaitsWhere DEF ReadCompletes, Stream, Pending, Result
<1>3. PICK n \in Nat \ {0} :
        /\ reads' = [ reads EXCEPT ![d] = @ + n ]
        /\ buffer' = [ buffer EXCEPT ![TunnelBuffer(d)] = Arriving(d, n) ]
        /\ Len(buffer'[TunnelBuffer(d)]) = n
        /\ \A i \in 1 .. n : buffer'[TunnelBuffer(d)][i] = << d, reads[d] + i >>
  <2>1. op[d].buf \in Buffers
    BY <1>t, <1>2
  <2>2. \E n \in Nat \ {0} :
           /\ reads' = [ reads EXCEPT ![Stream(d)] = @ + n ]
           /\ buffer' = [ buffer EXCEPT ![op[d].buf] = Arriving(Stream(d), n) ]
           /\ Len(buffer'[op[d].buf]) = n
           /\ \A i \in 1 .. n : buffer'[op[d].buf][i] = << Stream(d), reads[Stream(d)] + i >>
    BY <2>1, ReadBytes
  <2> QED BY <1>2, <2>2, Zenon
<1>4. Sent(d, reads[d])
  BY <1>2 DEF TunnelDataInv, DirectionOK, Carrying, EndPlaces, Releasing
<1>5. InHand(d)' = n /\ reads'[d] = reads[d] + n
  BY <1>t, <1>3 DEF InHand
<1>6. reads'[d] - n = reads[d] /\ n \in 1 .. reads'[d]
  BY <1>t, <1>3, <1>5
<1>7. LastRead(d)'
  BY <1>3, <1>5, <1>6 DEF LastRead
<1>8. Out(d)' = 0
  BY <1>1, <1>2 DEF Out
<1>9. Sent(d, reads[d] - InHand(d) + Out(d))'
  <2>1. delivered'[Sink(d)] = Bytes(d, reads[d])
    BY <1>1, <1>4 DEF Sent
  <2>2. reads'[d] - InHand(d)' + Out(d)' = reads[d]
    BY <1>t, <1>5, <1>6, <1>8
  <2> QED BY <2>1, <2>2 DEF Sent
<1>10. DirectionOK(d)'
  <2>1. Out(d)' \in 0 .. InHand(d)'
    BY <1>5, <1>8
  <2> QED BY <1>1, <1>2, <1>5, <1>6, <1>7, <1>9, <2>1 DEF DirectionOK, Carrying, Result, EndPlaces,
        Releasing
<1>11. ASSUME NEW c \in Directions \ {d} PROVE DirectionOK(c)'
  <2>1. reads'[c] = reads[c] /\ buffer'[TunnelBuffer(c)] = buffer[TunnelBuffer(c)]
    BY <1>t, <1>3
  <2> QED BY <1>1, <2>1, LeftAlone DEF TunnelDataInv
<1> QED BY <1>10, <1>11 DEF TunnelDataInv

\* A direction's write gives its peer the byte that follows.
LEMMA WriteTunnelData ==
  ASSUME IInv, WayInv, TunnelDataInv, method = Connect, method' = method,
         NEW d \in Directions, WriteSome(d)
  PROVE  TunnelDataInv'
<1>t. /\ op \in [Chains -> Op] /\ delivered \in [Ends -> Seq(Byte)]
      /\ \A c \in Directions :
           /\ Sink(c) \in Ends /\ reads[c] \in Nat /\ InHand(c) \in Nat
      /\ Sink("up") # Sink("down")
  BY DataTyped
<1> DEFINE L == InHand(d)
           m == op[d].sent + 1
           k == reads[d] - L + m
<1>1. pc' = pc /\ reads' = reads /\ buffer' = buffer
  BY DEF WriteSome, control
<1>2. pc[d] = "writing" /\ op[d].buf = TunnelBuffer(d) /\ op[d].end = Sink(d)
  BY WaitsWhere DEF WriteSome
<1>3. /\ L \in 1 .. reads[d] /\ LastRead(d) /\ op[d].sent \in 0 .. L /\ op[d].sent < L
      /\ Sent(d, reads[d] - L + op[d].sent)
  BY <1>2 DEF TunnelDataInv, DirectionOK, Carrying, Out, WriteSome
<1>4. Payload(TunnelBuffer(d)) = buffer[TunnelBuffer(d)]
  BY DEF Payload, TunnelBuffer
<1>5. m \in 1 .. L /\ k \in Nat \ {0} /\ k - 1 = reads[d] - L + op[d].sent
  <2>1. reads[d] \in Nat /\ L \in Nat
    BY <1>t
  <2> HIDE DEF L
  <2> QED BY <1>3, <2>1
<1>6. m \in DOMAIN buffer[TunnelBuffer(d)] /\ buffer[TunnelBuffer(d)][m] = << d, k >>
  <2>1. buffer[TunnelBuffer(d)] \in Seq(Byte)
    BY DataTyped
  <2> QED BY <1>3, <1>5, <2>1 DEF LastRead, InHand
<1>7. delivered' = [ delivered EXCEPT ![Sink(d)] = Append(@, << d, k >>) ]
  BY <1>2, <1>4, <1>6 DEF WriteSome
<1>8. delivered'[Sink(d)] = Bytes(d, k)
  <2>1. delivered[Sink(d)] = Bytes(d, k - 1)
    BY <1>3, <1>5 DEF Sent
  <2>2. delivered'[Sink(d)] = Append(Bytes(d, k - 1), << d, k >>)
    BY <1>t, <1>7, <2>1
  <2> HIDE DEF k
  <2> QED BY <1>5, <2>2, BytesGrow
<1>9. op'[d].sent = m /\ op'[d].result = IF m < L THEN "pending" ELSE "ok"
  BY <1>t, <1>2, <1>4, WriteOp DEF InHand
<1>10. Out(d)' = m /\ InHand(d)' = L /\ LastRead(d)' /\ reads'[d] = reads[d]
  BY <1>1, <1>2, <1>3, <1>9 DEF Out, InHand, LastRead
<1>11. Sent(d, reads[d] - InHand(d) + Out(d))'
  <2>1. reads'[d] - InHand(d)' + Out(d)' = k
    BY <1>10
  <2> QED BY <1>8, <2>1 DEF Sent
<1>12. DirectionOK(d)'
  <2>1. InHand(d)' \in 1 .. reads'[d] /\ Out(d)' \in 0 .. InHand(d)'
    BY <1>3, <1>5, <1>10
  <2>2. pc'[d] = "writing"
    BY <1>1, <1>2
  <2>3. op'[d].result = "pending" => Out(d)' < InHand(d)'
    BY <1>9, <1>10
  <2>4. op'[d].result = "ok" => Out(d)' = InHand(d)'
    <3>1. m \in 1 .. L /\ L \in Nat
      BY <1>3, <1>5, <1>t
    <3> HIDE DEF m, L
    <3> QED BY <1>9, <1>10, <3>1
  <2> QED BY <1>10, <1>11, <2>1, <2>2, <2>3, <2>4 DEF DirectionOK, Carrying, Result, Pending,
        EndPlaces, Releasing
<1>13. ASSUME NEW c \in Directions \ {d} PROVE DirectionOK(c)'
  <2>1. delivered'[Sink(c)] = delivered[Sink(c)] /\ op'[c] = op[c]
    BY <1>t, <1>7, WriteOp
  <2> QED BY <1>1, <2>1, LeftAlone DEF TunnelDataInv
<1> QED BY <1>12, <1>13 DEF TunnelDataInv

\* What the network does to the data of a tunnel.
LEMMA NetworkTunnelData ==
  ASSUME IInv, WayInv, TunnelDataInv, method = Connect, method' = method,
         NEW d \in Chains, NetworkCompletes(d)
  PROVE  TunnelDataInv'
<1>t. /\ pc \in [Chains -> Places] /\ op \in [Chains -> Op]
      /\ reads \in [Streams -> Nat] /\ delivered \in [Ends -> Seq(Byte)]
  BY DataTyped
<1>1. pc' = pc /\ \A c \in Chains \ {d} : op'[c] = op[c]
  BY <1>t, NetworkKeeps DEF NetworkCompletes, ReadCompletes, WriteSome, OpenCompletes,
     OperationFails, control
<1>2. Pending(d)
  BY DEF NetworkCompletes, ReadCompletes, WriteSome, OpenCompletes, OperationFails
<1>3. \A c \in Directions : DirectionOK(c)
  BY DEF TunnelDataInv
<1>4. CASE OpenCompletes(d) \/ OperationFails(d)
  <2>1. UNCHANGED << reads, buffer, delivered >>
    BY <1>4 DEF OpenCompletes, OperationFails, data
  <2>2. ASSUME NEW c \in Directions
        PROVE  /\ op'[c].result = "ok" <=> op[c].result = "ok"
               /\ op'[c].result = "pending" => op[c].result = "pending"
               /\ op'[c].sent = op[c].sent
    <3>1. CASE c # d
      BY <1>1, <3>1
    <3>2. CASE c = d
      <4>1. op[c].kind # "open"
        BY <1>2, <3>2, WaitsWhere DEF IInv, OpInv, TunnelOpInv, IdleOpInv, Is, Pending, NoOp,
           Started, ControlInv, PlacesInv, TunnelPlaces, EndPlaces, Releasing, Waiting
      <4>2. OperationFails(c)
        BY <1>4, <3>2, <4>1 DEF OpenCompletes
      <4>3. PICK r \in {"eof", "error"} : op' = [ op EXCEPT ![c].result = r ]
        BY <4>2 DEF OperationFails
      <4> QED BY <1>t, <1>2, <3>2, <4>3 DEF Pending, Op
    <3> QED BY <3>1, <3>2
  <2> QED BY <1>1, <1>3, <2>1, <2>2, LeftAlone DEF TunnelDataInv
<1>5. CASE ReadCompletes(d) /\ d = "main"
  <2>1. pc["main"] = "reading_request" /\ Stream("main") = "request"
    BY <1>2, <1>5, WaitsWhere DEF ReadCompletes, Stream
  <2>2. \A c \in Directions : ~Carrying(c) /\ pc[c] \notin EndPlaces
    BY <2>1 DEF IInv, ControlInv, StartInv, Carrying, EndPlaces, Releasing
  <2>3. \A c \in Directions : reads'[c] = reads[c]
    BY <1>t, <1>5, <2>1 DEF ReadCompletes, Streams
  <2>4. delivered' = delivered
    BY <1>5 DEF ReadCompletes
  <2> QED BY <1>1, <1>3, <1>5, <2>2, <2>3, <2>4, LeftAlone DEF TunnelDataInv
<1>6. CASE WriteSome(d) /\ d = "main"
  <2>1. delivered' = delivered
    BY <1>t, <1>2, <1>6, WaitsWhere, OwnBytes DEF WriteSome
  <2>2. UNCHANGED << reads, buffer >>
    BY <1>6 DEF WriteSome
  <2> QED BY <1>1, <1>3, <1>6, <2>1, <2>2, LeftAlone DEF TunnelDataInv
<1>7. CASE d \in Directions /\ (ReadCompletes(d) \/ WriteSome(d))
  BY <1>7, ReadTunnelData, WriteTunnelData
<1> QED BY <1>4, <1>5, <1>6, <1>7 DEF NetworkCompletes

\* Before the tunnel nothing has been read or delivered.
LEMMA InitTunnelData == Init => TunnelDataInv
<1> SUFFICES ASSUME Init, NEW c \in Directions PROVE DirectionOK(c)
  BY DEF TunnelDataInv
<1>1. reads[c] = 0 /\ delivered[Sink(c)] = << >> /\ pc[c] = "idle"
  BY DEF Init, Streams, Sink
<1> QED BY <1>1, NoBytes DEF DirectionOK, Carrying, Sent, EndPlaces, Releasing

\* Every step keeps the tunnel's data in order.
LEMMA StepTunnelData == IInv /\ WayInv /\ TunnelDataInv /\ [Next]_vars => TunnelDataInv'
<1> SUFFICES ASSUME IInv, WayInv, TunnelDataInv, [Next]_vars PROVE TunnelDataInv'
  OBVIOUS
<1>m. method' = method
  BY SameMethod
<1>1. CASE method # Connect
  BY <1>m, <1>1 DEF TunnelDataInv
<1>2. CASE method = Connect /\ UNCHANGED vars
  <2>1. UNCHANGED << pc, op, reads, buffer, delivered >>
    BY <1>2 DEF vars, control, conns, data
  <2> QED BY <1>m, <2>1, LeftAlone DEF TunnelDataInv
<1>3. CASE method = Connect /\ ~UNCHANGED vars
  BY <1>m, <1>3, MainTunnelData, TunnelTunnelData, EndingTunnelData, CallerTunnelData,
     NetworkTunnelData DEF Next, Finished
<1> QED BY <1>1, <1>2, <1>3

\* The two directions of a tunnel deliver what they read, in order, up to a point
\* in their last read.
THEOREM TunnelsKeepOrder == Spec => []TunnelInOrder
<1>1. IInv /\ TunnelDataInv => TunnelInOrder
  <2> SUFFICES ASSUME IInv, TunnelDataInv, method = Connect, NEW c \in Directions
               PROVE  \E k \in reads[c] - InHand(c) .. reads[c] : Sent(c, k)
    BY DEF TunnelInOrder, InHand, Sent
  <2>1. DirectionOK(c) /\ reads[c] \in Nat /\ InHand(c) \in Nat
    BY DataTyped DEF TunnelDataInv
  <2>2. CASE Carrying(c)
    <3>1. InHand(c) \in 1 .. reads[c] /\ Out(c) \in 0 .. InHand(c)
          /\ Sent(c, reads[c] - InHand(c) + Out(c))
      BY <2>1, <2>2 DEF DirectionOK
    <3>2. reads[c] - InHand(c) + Out(c) \in reads[c] - InHand(c) .. reads[c]
      BY <2>1, <3>1
    <3> QED BY <3>1, <3>2
  <2>3. CASE ~Carrying(c)
    BY <2>1, <2>3 DEF DirectionOK
  <2> QED BY <2>2, <2>3
<1>2. Spec => []TunnelDataInv
  <2>1. EndInv => WayInv
    BY DEF EndInv
  <2> QED BY <2>1, Invariant, EndsInvariant, InitTunnelData, StepTunnelData, PTL DEF Spec
<1> QED BY <1>1, <1>2, Invariant, PTL

--------------------------------------------------------------------------------
\* The data of a plain exchange.

\* raw_input_ holds the response as far as it was read, and a client gets it byte
\* by byte, as far as the write of it has come.
Response(n) == Bytes("response", n)
Reading     == pc["main"] \in {"read_response", "reading_response"}
ReadOne     == pc["main"] = "reading_response" /\ Result("main") = "ok"

CollectInv ==
  method # Connect =>
    /\ pc["main"] \in (MainWorks \ PlainPlaces) \cup {"send_request", "sending_request"} =>
         reads["response"] = 0
    /\ Reading /\ ~ReadOne => raw_input = Response(reads["response"])
    /\ ReadOne => reads["response"] > 0 /\ InputSoFar = Response(reads["response"])
    /\ pc["main"] \in {"send_response", "sending_response"} =>
         reads["response"] > 0 /\ raw_input = Response(reads["response"])

HasAll == reads["response"] > 0 /\ delivered["client"] = Response(reads["response"])

RelayInv ==
  method # Connect =>
    /\ delivered["remote"] = << >>
    /\ pc["main"] \in MainWorks \ {"sending_response"} => delivered["client"] = << >>
    /\ pc["main"] = "sending_response" =>
         /\ op["main"].sent \in 0 .. reads["response"]
         /\ delivered["client"] = Response(op["main"].sent)
         /\ Pending("main") => op["main"].sent < reads["response"]
         /\ Result("main") = "ok" => op["main"].sent = reads["response"]
    /\ \E n \in 0 .. reads["response"] : delivered["client"] = Response(n)
    /\ Over("main") /\ Failed = 0 => HasAll

PlainDataInv == CollectInv /\ RelayInv

\* One sequence behind another.
LEMMA Joined ==
  ASSUME NEW S, NEW a \in Seq(S), NEW q \in Seq(S)
  PROVE  /\ a \o q \in Seq(S)
         /\ Len(a \o q) = Len(a) + Len(q)
         /\ \A i \in 1 .. Len(a) : (a \o q)[i] = a[i]
         /\ \A i \in Len(a) + 1 .. Len(a) + Len(q) : (a \o q)[i] = q[i - Len(a)]
  OBVIOUS

\* What follows the first m bytes of a stream makes them the first m + n.
LEMMA BytesJoin ==
  ASSUME NEW s, NEW m \in Nat, NEW n \in Nat, NEW q \in Seq(Byte), Len(q) = n,
         s \in Streams, \A i \in 1 .. n : q[i] = << s, m + i >>
  PROVE  Bytes(s, m) \o q = Bytes(s, m + n)
<1>1. \A k \in Nat : Bytes(s, k) \in Seq(Byte) /\ Len(Bytes(s, k)) = k
                     /\ \A i \in 1 .. k : Bytes(s, k)[i] = << s, i >>
  BY DEF Bytes, Byte
<1> DEFINE a == Bytes(s, m)
           b == Bytes(s, m + n)
<1>2. /\ a \in Seq(Byte) /\ Len(a) = m /\ \A i \in 1 .. m : a[i] = << s, i >>
      /\ b \in Seq(Byte) /\ Len(b) = m + n /\ \A i \in 1 .. m + n : b[i] = << s, i >>
  BY <1>1
<1> HIDE DEF a, b
<1>3. /\ a \o q \in Seq(Byte) /\ Len(a \o q) = m + n
      /\ \A i \in 1 .. m : (a \o q)[i] = a[i]
      /\ \A i \in m + 1 .. m + n : (a \o q)[i] = q[i - m]
  BY <1>2, Joined
<1>4. ASSUME NEW i \in 1 .. m + n PROVE (a \o q)[i] = b[i]
  <2>1. CASE i <= m
    <3>1. i \in 1 .. m
      BY <2>1
    <3> QED BY <1>2, <1>3, <3>1
  <2>2. CASE i > m
    <3>1. i \in m + 1 .. m + n /\ i - m \in 1 .. n /\ m + (i - m) = i
      BY <2>2
    <3>2. q[i - m] = << s, m + (i - m) >>
      BY <3>1
    <3> QED BY <1>2, <1>3, <3>1, <3>2
  <2>3. i \in Nat /\ (i <= m \/ i > m)
    OBVIOUS
  <2> QED BY <2>1, <2>2, <2>3
<1>5. \A t, u \in Seq(Byte) : Len(t) = Len(u) /\ (\A i \in 1 .. Len(t) : t[i] = u[i]) => t = u
  OBVIOUS
<1>6. a \o q = b
  BY <1>2, <1>3, <1>4, <1>5
<1> QED BY <1>6 DEF a, b

\* In a plain exchange main is the only chain, and it works at its own places.
LEMMA MainAlone ==
  ASSUME IInv, WayInv, method # Connect
  PROVE  /\ \A c \in Directions : ~TunnelStep(c) /\ ~EndingStep(c) /\ ~NetworkCompletes(c)
         /\ MainStep => pc["main"] \in MainWorks
<1>1. ASSUME NEW c \in Directions PROVE ~TunnelStep(c) /\ ~EndingStep(c) /\ ~NetworkCompletes(c)
  <2>1. pc[c] = "idle" /\ op[c] = NoOp
    BY DEF WayInv, IInv, OpInv, IdleOpInv, Waiting
  <2> QED BY <2>1 DEF TunnelStep, OnTunnelRead, Forward, OnTunnelWritten, Loop, Returned,
        EndingStep, AcquireForRelease, CloseConnections, ResetPointers, RecordFailure,
        ReportFailure, ReportCompletion, NetworkCompletes, ReadCompletes, WriteSome,
        OpenCompletes, OperationFails, Pending, NoOp
<1>2. MainStep => pc["main"] \in MainWorks
  BY MainMoves DEF IInv, ControlInv, PlacesInv, MainWorks, WayInv, ReplyPlaces
<1> QED BY <1>1, <1>2

\* Until it sends the response, main has sent the client nothing.
LEMMA MainPlainData ==
  ASSUME IInv, WayInv, PlainDataInv, method # Connect, method' = method, MainStep
  PROVE  PlainDataInv'
<1>t. /\ pc \in [Chains -> Places] /\ op \in [Chains -> Op]
      /\ reads \in [Streams -> Nat] /\ raw_input \in Seq(Byte)
  BY DataTyped
<1>w. pc["main"] \in MainWorks /\ pc["main"] \notin ReplyPlaces
  BY MainAlone DEF WayInv
<1>1. UNCHANGED << reads, buffer, delivered >>
  BY DEF MainStep, Begin, ReadClientRequest, OnClientRequestRead, OnRemoteOpened,
     SendClientRequestToRemote, OnRequestSent, ReadRemoteResponse, OnRemoteResponseRead,
     SendRemoteResponseToClient, OnResponseSent, SendConnectReply, OnConnectReplySent, StartUp,
     StartDown, LockedStart, ReadForTunnel, data
<1> DEFINE n == reads["response"]
<1>n. n \in Nat /\ reads'["response"] = n /\ delivered' = delivered /\ buffer' = buffer
  BY <1>t, <1>1 DEF Streams
<1>r. delivered["remote"] = << >>
  BY DEF PlainDataInv, RelayInv
\* A step that goes on with nothing sent, and one that gives up.
<1>2. ASSUME NEW x \in MainPlaces, At("main", x), x \notin EndPlaces,
             delivered["client"] = << >>,
             x \in {"sending_response", "reading_response"} =>
               op'["main"].result = "pending" /\ op'["main"].sent = 0,
             x \in (MainWorks \ PlainPlaces) \cup {"send_request", "sending_request"} => n = 0,
             x \in {"read_response", "reading_response"} => raw_input' = Response(n),
             x \in {"send_response", "sending_response"} => n > 0 /\ raw_input' = Response(n)
      PROVE  PlainDataInv'
  <2>1. pc'["main"] = x
    BY <1>t, <1>2 DEF At
  <2>2. CollectInv'
    BY <1>2, <1>n, <2>1 DEF CollectInv, Reading, ReadOne, Result, Response, Bytes
  <2>3. delivered["client"] = Response(0) /\ 0 \in 0 .. n
    BY <1>2, <1>n, NoBytes DEF Response
  <2>4. RelayInv'
    BY <1>2, <1>n, <1>r, <2>1, <2>3 DEF RelayInv, Result, Pending, Over, Owes, EndPlaces, Releasing,
       Response, Bytes
  <2> QED BY <2>2, <2>4 DEF PlainDataInv
<1>3. ASSUME At("main", "release"), ret' = [ ret EXCEPT !["main"] = "fail" ]
      PROVE  PlainDataInv'
  <2>1. pc'["main"] = "release" /\ ret'["main"] = "fail"
    BY <1>t, <1>3 DEF At, IInv, TypeOK
  <2>2. \E k \in 0 .. reads'["response"] : delivered'["client"] = Response(k)
    BY <1>n DEF PlainDataInv, RelayInv
  <2> QED BY <1>3, <1>n, <1>r, <2>1, <2>2 DEF PlainDataInv, CollectInv, RelayInv, Reading, ReadOne, Over,
        Owes, MainWorks, EndPlaces, Releasing, PlainPlaces, Response, Bytes
<1>4. pc["main"] # "sending_response" => delivered["client"] = << >>
  BY <1>w DEF PlainDataInv, RelayInv
<1>5. CASE Begin \/ OnClientRequestRead \/ OnRemoteOpened
  <2>1. n = 0 /\ delivered["client"] = << >>
    BY <1>w, <1>4, <1>5 DEF PlainDataInv, CollectInv, Begin, OnClientRequestRead, OnRemoteOpened,
       Returned, PlainPlaces
  <2>2. \/ \E x \in {"read_request", "opening", "send_request"} : At("main", x)
        \/ At("main", "release") /\ ret' = [ ret EXCEPT !["main"] = "fail" ]
    BY <1>5 DEF Begin, OnClientRequestRead, OnRemoteOpened, RequestParsed, ReadFailed, Goto,
       FailWith, ReleaseThen, At
  <2> QED BY <1>2, <1>3, <2>1, <2>2 DEF MainPlaces, EndPlaces, Releasing
<1>6. CASE ReadClientRequest \/ SendClientRequestToRemote
  <2>1. n = 0 /\ delivered["client"] = << >>
    BY <1>w, <1>4, <1>6 DEF PlainDataInv, CollectInv, ReadClientRequest, SendClientRequestToRemote,
       LockedStart, PlainPlaces
  <2>2. \/ \E x \in {"reading_request", "sending_request"} : At("main", x)
        \/ At("main", "release") /\ ret' = [ ret EXCEPT !["main"] = "fail" ]
    BY <1>6 DEF ReadClientRequest, SendClientRequestToRemote, LockedStart, Goto,
       FailWith, ReleaseThen, At
  <2> QED BY <1>2, <1>3, <2>1, <2>2 DEF MainPlaces, EndPlaces, Releasing
<1>7. CASE OnRequestSent
  <2>1. n = 0 /\ delivered["client"] = << >>
    BY <1>4, <1>7 DEF PlainDataInv, CollectInv, OnRequestSent, Returned
  <2>2. \/ At("main", "read_response") /\ raw_input' = << >>
        \/ At("main", "release") /\ ret' = [ ret EXCEPT !["main"] = "fail" ]
    BY <1>7 DEF OnRequestSent, Goto, FailWith, ReleaseThen, At
  <2>3. Response(0) = << >>
    BY NoBytes DEF Response
  <2> QED BY <1>2, <1>3, <2>1, <2>2, <2>3 DEF MainPlaces, EndPlaces, Releasing, MainWorks, PlainPlaces
<1>8. CASE ReadRemoteResponse
  <2>1. raw_input = Response(n) /\ delivered["client"] = << >>
    BY <1>4, <1>8 DEF PlainDataInv, CollectInv, ReadRemoteResponse, LockedStart, Reading, ReadOne
  <2>2. \/ /\ At("main", "reading_response") /\ raw_input' = raw_input
           /\ op'["main"].result = "pending" /\ op'["main"].sent = 0
        \/ At("main", "release") /\ ret' = [ ret EXCEPT !["main"] = "fail" ]
    BY <1>t, <1>8 DEF ReadRemoteResponse, LockedStart, Goto, FailWith, ReleaseThen, At, Read, Started, data
  <2> QED BY <1>2, <1>3, <2>1, <2>2 DEF MainPlaces, EndPlaces, Releasing, MainWorks, PlainPlaces
<1>9. CASE OnRemoteResponseRead
  <2>1. delivered["client"] = << >>
    BY <1>4, <1>9 DEF OnRemoteResponseRead, Returned
  <2>2. CASE Result("main") = "ok"
    <3>1. n > 0 /\ InputSoFar = Response(n)
      BY <1>9, <2>2 DEF PlainDataInv, CollectInv, OnRemoteResponseRead, Returned, ReadOne
    <3>3. raw_input' = Response(n)
      BY <1>9, <2>2, <3>1 DEF OnRemoteResponseRead, ReadFailed
    <3>4. \/ \E x \in {"read_response", "send_response"} : At("main", x)
          \/ At("main", "release") /\ ret' = [ ret EXCEPT !["main"] = "fail" ]
      BY <1>9, <2>2 DEF OnRemoteResponseRead, ResponseParsed, ReadFailed, Goto, FailWith,
         ReleaseThen, At
    <3> QED BY <1>2, <1>3, <2>1, <3>1, <3>3, <3>4 DEF MainPlaces, EndPlaces, Releasing, MainWorks,
          PlainPlaces
  <2>3. CASE Result("main") # "ok"
    BY <1>3, <1>9, <2>1, <2>3 DEF OnRemoteResponseRead, ReadFailed, FailWith, ReleaseThen, At
  <2> QED BY <2>2, <2>3
<1>10. CASE SendRemoteResponseToClient
  <2>1. n > 0 /\ raw_input = Response(n) /\ delivered["client"] = << >>
    BY <1>4, <1>10 DEF PlainDataInv, CollectInv, SendRemoteResponseToClient, LockedStart
  <2>2. \/ /\ At("main", "sending_response") /\ raw_input' = raw_input
           /\ op'["main"].result = "pending" /\ op'["main"].sent = 0
        \/ At("main", "release") /\ ret' = [ ret EXCEPT !["main"] = "fail" ]
    BY <1>t, <1>10 DEF SendRemoteResponseToClient, LockedStart, Goto, FailWith, ReleaseThen, At,
       Write, Started, data
  <2> QED BY <1>2, <1>3, <2>1, <2>2 DEF MainPlaces, EndPlaces, Releasing, MainWorks, PlainPlaces
<1>11. CASE OnResponseSent
  <2>1. CASE Result("main") = "ok"
    <3>1. HasAll
      BY <1>11, <1>w, <2>1 DEF PlainDataInv, CollectInv, RelayInv, OnResponseSent, Returned, HasAll
    <3>2. HasAll'
      BY <1>n, <3>1 DEF HasAll, Response, Bytes
    <3>3. pc'["main"] = "release"
      BY <1>t, <1>11, <2>1 DEF OnResponseSent, ReleaseThen
    <3>4. \E k \in 0 .. reads'["response"] : delivered'["client"] = Response(k)
      BY <1>n DEF PlainDataInv, RelayInv
    <3> QED BY <1>n, <1>r, <3>2, <3>3, <3>4 DEF PlainDataInv, CollectInv, RelayInv, Reading, ReadOne,
          MainWorks, EndPlaces, Releasing, PlainPlaces, Response, Bytes
  <2>2. CASE Result("main") # "ok"
    BY <1>3, <1>4, <1>11, <2>2 DEF OnResponseSent, FailWith, ReleaseThen, At
  <2> QED BY <2>1, <2>2
<1> QED BY <1>w, <1>5, <1>6, <1>7, <1>8, <1>9, <1>10, <1>11 DEF MainStep, SendConnectReply,
      OnConnectReplySent, StartUp, StartDown, LockedStart, Returned, ReplyPlaces

\* An ending that has not failed has relayed the response.
LEMMA EndingPlainData ==
  ASSUME IInv, WayInv, PlainDataInv, method # Connect, method' = method, EndingStep("main")
  PROVE  PlainDataInv'
<1>t. /\ pc \in [Chains -> Places] /\ ret \in [Chains -> {"fail", "complete", "done"}]
      /\ Failed \in Nat /\ reads["response"] \in Nat /\ TypeOK
  BY DataTyped, CountsTyped DEF IInv, TypeOK, Streams
<1>1. UNCHANGED << reads, buffer, raw_input, delivered >>
  BY DEF EndingStep, AcquireForRelease, CloseConnections, ResetPointers, RecordFailure,
     ReportFailure, ReportCompletion, data
<1>2. pc["main"] \in EndPlaces /\ pc'["main"] \in EndPlaces
  BY <1>t DEF EndingStep, AcquireForRelease, CloseConnections, ResetPointers, RecordFailure,
     ReportFailure, ReportCompletion, Goto, ReleaseThen, EndPlaces, Releasing
<1>s. \E n \in 0 .. reads'["response"] : delivered'["client"] = Response(n)'
  BY <1>1 DEF PlainDataInv, RelayInv, Response, Bytes
<1>3. CASE ReportFailure("main")
  <2>1. Failed' = Failed + 1
    BY <1>t, <1>3 DEF ReportFailure, Raise, Failed, Signals, TypeOK
  <2> QED BY <1>t, <1>1, <1>2, <1>s, <2>1 DEF PlainDataInv, CollectInv, RelayInv, HasAll, Reading, ReadOne,
        Response, Bytes, MainWorks, EndPlaces, Releasing, PlainPlaces
<1>4. CASE ~ReportFailure("main")
  <2>1. Failed' = Failed
    BY <1>t, <1>4 DEF EndingStep, AcquireForRelease, CloseConnections, ResetPointers,
       RecordFailure, ReportCompletion, Raise, Failed, Signals, TypeOK, notif
  <2>2. Over("main")' => Over("main")
    BY <1>t, <1>4 DEF EndingStep, AcquireForRelease, CloseConnections, ResetPointers,
       RecordFailure, ReportCompletion, Goto, Over, Owes, Releasing, WayInv
  <2> QED BY <1>t, <1>1, <1>2, <1>s, <2>1, <2>2 DEF PlainDataInv, CollectInv, RelayInv, HasAll, Reading,
        ReadOne, Response, Bytes, MainWorks, EndPlaces, Releasing, PlainPlaces
<1> QED BY <1>3, <1>4

\* What is aborted leaves the data as they are: so does the return of the function
\* that handed a connection over.
LEMMA CallerPlainData ==
  ASSUME IInv, PlainDataInv, method' = method, NEW e \in Ends, CallerReturns(e)
  PROVE  PlainDataInv'
<1>1. /\ UNCHANGED << pc, ret, reads, buffer, raw_input, delivered, raised >>
      /\ \E ends : op' = Aborted(ends)
  BY DEF CallerReturns, control, data, notif
<1>2. op \in [Chains -> Op]
  BY DataTyped
<1>3. /\ Result("main")' = "ok" <=> Result("main") = "ok"
      /\ Pending("main")' => Pending("main")
      /\ op'["main"].sent = op["main"].sent
  BY <1>1, <1>2, AbortedSent DEF Result, Pending
<1>4. /\ Reading' <=> Reading
      /\ ReadOne' <=> ReadOne
      /\ InputSoFar' = InputSoFar
      /\ HasAll' <=> HasAll
      /\ Over("main")' <=> Over("main")
      /\ Failed' = Failed
  BY <1>1, <1>3 DEF Reading, ReadOne, InputSoFar, HasAll, Over, Owes, Failed, Response, Bytes
<1>5. CollectInv'
  BY <1>1, <1>4 DEF PlainDataInv, CollectInv, Response, Bytes
<1>6. RelayInv'
  BY <1>1, <1>3, <1>4 DEF PlainDataInv, RelayInv, Response, Bytes
<1> QED BY <1>5, <1>6 DEF PlainDataInv

\* What main waits for in a plain exchange, and what the client has till then.
LEMMA MainWaits ==
  ASSUME IInv, WayInv, PlainDataInv, method # Connect, Pending("main")
  PROVE  /\ pc["main"] \in MainWorks /\ pc["main"] \in Waiting /\ ~Over("main")
         /\ pc["main"] # "sending_response" => delivered["client"] = << >>
         /\ delivered["remote"] = << >>
         /\ reads["response"] \in Nat
<1>1. pc["main"] \in Waiting
  BY DEF IInv, OpInv, IdleOpInv, Pending, NoOp, Started, PlacesInv, ControlInv, MainPlaces,
     EndPlaces, Releasing
<1>2. pc["main"] \in MainWorks /\ ~Over("main")
  BY <1>1 DEF IInv, ControlInv, PlacesInv, MainPlaces, MainWorks, Waiting, EndPlaces, Releasing,
     Over, Owes
<1> QED BY <1>1, <1>2, DataTyped DEF PlainDataInv, RelayInv, Streams

\* A failed operation, and the opening of the remote end, bring no data.
LEMMA FailedPlainData ==
  ASSUME IInv, WayInv, PlainDataInv, method # Connect, method' = method,
         OpenCompletes("main") \/ OperationFails("main")
  PROVE  PlainDataInv'
<1>t. op \in [Chains -> Op]
  BY DataTyped
<1>1. /\ UNCHANGED << pc, ret, raised, reads, buffer, raw_input, delivered >>
      /\ Pending("main")
  BY DEF OpenCompletes, OperationFails, control, notif, data
<1>2. pc["main"] \in MainWorks /\ ~Over("main")
  BY <1>1, MainWaits
<1>3. PICK r \in {"ok", "eof", "error"} : op' = [ op EXCEPT !["main"].result = r ]
  BY DEF OpenCompletes, OperationFails
<1>4. op'["main"].result = r /\ op'["main"].sent = op["main"].sent
  BY <1>t, <1>3 DEF Op
<1>5. pc["main"] \in {"reading_response", "sending_response"} => r # "ok"
  <2>1. pc["main"] \in {"reading_response", "sending_response"} => op["main"].kind # "open"
    BY DEF IInv, OpInv, MainOpInv, Is
  <2>2. OperationFails("main") => op'["main"].result # "ok"
    BY <1>t DEF OperationFails
  <2> QED BY <1>4, <2>1, <2>2 DEF OpenCompletes
<1>6. ~ReadOne /\ ~ReadOne' /\ (Reading' <=> Reading) /\ ~Over("main")'
  BY <1>1, <1>2, <1>4, <1>5 DEF ReadOne, Reading, Result, Pending, Over, Owes
<1>7. CollectInv'
  BY <1>1, <1>6 DEF PlainDataInv, CollectInv, Response, Bytes
<1>8. RelayInv'
  BY <1>1, <1>4, <1>5, <1>6 DEF PlainDataInv, RelayInv, Response, Bytes, Result, Pending
<1> QED BY <1>7, <1>8 DEF PlainDataInv

\* What is read of a response goes behind what raw_input_ holds.
LEMMA ReadPlainData ==
  ASSUME IInv, WayInv, PlainDataInv, method # Connect, method' = method,
         ReadCompletes("main")
  PROVE  PlainDataInv'
<1>t. /\ op \in [Chains -> Op] /\ reads \in [Streams -> Nat]
      /\ buffer \in [Buffers -> Seq(Byte)] /\ raw_input \in Seq(Byte)
      /\ buffer' \in [Buffers -> Seq(Byte)]
  BY DataTyped, StepTyped DEF IInv, TypeOK, Next, NetworkCompletes
<1>1. /\ UNCHANGED << pc, ret, raised, raw_input, delivered >> /\ Pending("main")
      /\ op'["main"].result = "ok"
  BY <1>t DEF ReadCompletes, control, notif
<1>2. /\ op["main"].buf = "read_buffer_" /\ "read_buffer_" \in Buffers
      /\ pc["main"] \in {"reading_request", "reading_response"}
  BY <1>1, WaitsWhere DEF ReadCompletes, Buffers
<1>3. PICK n \in Nat \ {0} :
        /\ reads' = [ reads EXCEPT ![Stream("main")] = @ + n ]
        /\ Len(buffer'["read_buffer_"]) = n
        /\ \A i \in 1 .. n :
             buffer'["read_buffer_"][i] = << Stream("main"), reads[Stream("main")] + i >>
  <2>1. op["main"].buf \in Buffers
    BY <1>2
  <2>2. \E n \in Nat \ {0} :
           /\ reads' = [ reads EXCEPT ![Stream("main")] = @ + n ]
           /\ buffer' = [ buffer EXCEPT ![op["main"].buf] = Arriving(Stream("main"), n) ]
           /\ Len(buffer'[op["main"].buf]) = n
           /\ \A i \in 1 .. n : buffer'[op["main"].buf][i]
                                  = << Stream("main"), reads[Stream("main")] + i >>
    BY <2>1, ReadBytes
  <2> QED BY <1>2, <2>2, Zenon
<1>4. /\ pc["main"] \in MainWorks \ {"sending_response"} /\ ~Over("main") /\ ~Over("main")'
      /\ delivered["client"] = << >> /\ delivered["remote"] = << >>
      /\ reads["response"] \in Nat
  BY <1>1, <1>2, MainWaits DEF Over, Owes
<1>5. reads'["response"] \in Nat
  BY <1>t, <1>3 DEF Stream, Streams
<1>6. RelayInv'
  <2>1. delivered'["client"] = Response(0) /\ 0 \in 0 .. reads'["response"]
    BY <1>1, <1>4, <1>5, NoBytes DEF Response
  <2> QED BY <1>1, <1>4, <2>1 DEF RelayInv, Response, Bytes
<1>7. CASE pc["main"] = "reading_request"
  <2>1. reads'["response"] = reads["response"]
    BY <1>t, <1>3, <1>7 DEF Streams, Stream
  <2>2. CollectInv'
    BY <1>1, <1>4, <1>7, <2>1 DEF PlainDataInv, CollectInv, Reading, ReadOne, PlainPlaces
  <2> QED BY <1>6, <2>2 DEF PlainDataInv
<1>8. CASE pc["main"] = "reading_response"
  <2> DEFINE m == reads["response"]
             q == buffer'["read_buffer_"]
  <2>1. Stream("main") = "response" /\ "response" \in Streams
    BY <1>8 DEF Stream, Streams
  <2>2. reads'["response"] = m + n /\ m + n > 0
    BY <1>t, <1>3, <1>4, <2>1
  <2>3. raw_input = Response(m)
    BY <1>1, <1>8 DEF PlainDataInv, CollectInv, Reading, ReadOne, Pending, Result
  <2>4. q \in Seq(Byte) /\ Len(q) = n /\ \A i \in 1 .. n : q[i] = << "response", m + i >>
    BY <1>t, <1>2, <1>3, <2>1
  <2>5. Bytes("response", m) \o q = Bytes("response", m + n)
    <3> HIDE DEF m, q
    <3>1. m \in Nat /\ n \in Nat
      BY <1>4 DEF m
    <3> QED BY <2>1, <2>4, <3>1, BytesJoin
  <2>6. InputSoFar' = Response(reads["response"])'
    BY <1>1, <2>2, <2>3, <2>5 DEF InputSoFar, Response
  <2>7. CollectInv'
    BY <1>1, <1>8, <2>2, <2>6 DEF CollectInv, Reading, ReadOne, Result, MainWorks, PlainPlaces
  <2> QED BY <1>6, <2>7 DEF PlainDataInv
<1> QED BY <1>2, <1>7, <1>8

\* What is written of the response is the byte that follows.
LEMMA WritePlainData ==
  ASSUME IInv, WayInv, PlainDataInv, method # Connect, method' = method,
         WriteSome("main")
  PROVE  PlainDataInv'
<1>t. /\ op \in [Chains -> Op] /\ delivered \in [Ends -> Seq(Byte)] /\ raw_input \in Seq(Byte)
  BY DataTyped
<1>1. UNCHANGED << pc, ret, raised, reads, buffer, raw_input >> /\ Pending("main")
  BY DEF WriteSome, control, notif
<1>2. pc["main"] \in {"sending_request", "sending_response"}
  BY <1>1, MainWaits DEF WriteSome, IInv, ControlInv, PlacesInv, OpInv, MainOpInv, MainPlaces,
     EndPlaces, Releasing, Waiting, Is, WayInv, ReplyPlaces
<1>3. /\ pc["main"] \in MainWorks /\ ~Over("main")' /\ reads["response"] \in Nat
      /\ delivered["remote"] = << >>
  BY <1>1, MainWaits DEF Over, Owes
<1>4. CollectInv'
  BY <1>1, <1>2 DEF PlainDataInv, CollectInv, Reading, ReadOne, Response, Bytes
<1>5. CASE pc["main"] = "sending_request"
  <2>1. delivered' = delivered
    BY <1>t, <1>5, OwnBytes DEF IInv, OpInv, MainOpInv, Is
  <2>2. RelayInv'
    BY <1>1, <1>3, <1>5, <2>1 DEF PlainDataInv, RelayInv, Response, Bytes
  <2> QED BY <1>4, <2>2 DEF PlainDataInv
<1>6. CASE pc["main"] = "sending_response"
  <2> DEFINE m == op["main"].sent + 1
             n == reads["response"]
  <2>1. op["main"].buf = "raw_input_" /\ op["main"].end = "client"
    BY <1>6 DEF IInv, OpInv, MainOpInv, Is
  <2>2. Payload(op["main"].buf) = raw_input /\ raw_input = Response(n)
    BY <1>6, <2>1 DEF Payload, PlainDataInv, CollectInv
  <2>3. /\ op["main"].sent \in 0 .. n /\ op["main"].sent < n
        /\ delivered["client"] = Response(op["main"].sent)
    BY <1>1, <1>6 DEF PlainDataInv, RelayInv
  <2>4. m \in 1 .. n /\ m \in Nat \ {0} /\ m - 1 = op["main"].sent
    BY <1>3, <2>3
  <2>5. Len(Response(n)) = n /\ m \in DOMAIN Response(n) /\ Response(n)[m] = << "response", m >>
    BY <1>3, <2>4 DEF Response, Bytes
  <2>6. delivered' = [ delivered EXCEPT !["client"] = Append(@, << "response", m >>) ]
    BY <2>1, <2>2, <2>5 DEF WriteSome
  <2>7. delivered'["client"] = Response(m) /\ delivered'["remote"] = << >>
    <3>1. delivered["client"] = Bytes("response", m - 1)
      BY <2>3, <2>4 DEF Response
    <3>2. /\ delivered'["client"] = Append(Bytes("response", m - 1), << "response", m >>)
          /\ delivered'["remote"] = delivered["remote"]
      BY <1>t, <2>6, <3>1
    <3> HIDE DEF m
    <3> QED BY <1>3, <2>4, <3>2, BytesGrow DEF Response
  <2>8. /\ op'["main"].sent = m
        /\ op'["main"].result = IF m < n THEN "pending" ELSE "ok"
    BY <1>t, <2>2, <2>5, WriteOp
  <2>9. RelayInv'
    <3>1. m \in 0 .. n /\ (op'["main"].result = "pending" => m < n)
          /\ (op'["main"].result = "ok" => m = n)
      BY <1>3, <2>4, <2>8
    <3>2. reads'["response"] = n /\ pc'["main"] = "sending_response"
      BY <1>1, <1>6
    <3> HIDE DEF m
    <3> QED BY <1>3, <2>7, <2>8, <3>1, <3>2 DEF RelayInv, Result, Pending, Response, Bytes
  <2> QED BY <1>4, <2>9 DEF PlainDataInv
<1> QED BY <1>2, <1>5, <1>6

\* Before the exchange nothing has been read or delivered.
LEMMA InitPlainData == Init => PlainDataInv
<1> SUFFICES ASSUME Init PROVE PlainDataInv
  OBVIOUS
<1>1. /\ reads["response"] = 0 /\ delivered["client"] = << >> /\ delivered["remote"] = << >>
      /\ pc["main"] = "begin"
  BY DEF Init, Streams
<1>2. delivered["client"] = Response(0) /\ 0 \in 0 .. reads["response"]
  BY <1>1, NoBytes DEF Response
<1> QED BY <1>1, <1>2 DEF PlainDataInv, CollectInv, RelayInv, Reading, ReadOne, Over, Owes, Releasing

\* Every step keeps to one response, relayed from its first byte on.
LEMMA StepPlainData == IInv /\ WayInv /\ PlainDataInv /\ [Next]_vars => PlainDataInv'
<1> SUFFICES ASSUME IInv, WayInv, PlainDataInv, [Next]_vars PROVE PlainDataInv'
  OBVIOUS
<1>m. method' = method
  BY SameMethod
<1>1. CASE method = Connect
  BY <1>m, <1>1 DEF PlainDataInv, CollectInv, RelayInv
<1>2. CASE method # Connect /\ UNCHANGED vars
  BY <1>2 DEF vars, control, conns, notif, data, parse, PlainDataInv, CollectInv, RelayInv,
     HasAll, Reading, ReadOne, InputSoFar, Response, Bytes, Result, Pending, Over, Owes, Failed
<1>3. CASE method # Connect /\ NetworkCompletes("main")
  BY <1>m, <1>3, FailedPlainData, ReadPlainData, WritePlainData DEF NetworkCompletes
<1>4. CASE method # Connect /\ ~UNCHANGED vars /\ ~NetworkCompletes("main")
  BY <1>m, <1>4, MainAlone, MainPlainData, EndingPlainData, CallerPlainData DEF Next, Finished
<1> QED BY <1>1, <1>2, <1>3, <1>4

\* A plain exchange relays the bytes of one response in order, and all it has read
\* of it unless it fails.
THEOREM ResponsesAreRelayed == Spec => []ResponseRelayed
<1>1. IInv /\ EndInv /\ PlainDataInv => ResponseRelayed
  <2> SUFFICES ASSUME IInv, EndInv, PlainDataInv, method # Connect PROVE ResponseRelayed
    BY DEF ResponseRelayed
  <2>1. /\ delivered["remote"] = << >>
        /\ \E n \in 0 .. reads["response"] : delivered["client"] = Bytes("response", n)
    BY DEF PlainDataInv, RelayInv, Response
  <2>2. ASSUME Endings = 1, AllStopped
        PROVE  reads["response"] > 0 /\ Len(delivered["client"]) = reads["response"]
    <3>1. pc["main"] = "done"
      BY <2>2 DEF AllStopped, Stopped, IInv, ControlInv, PlacesInv, MainPlaces, EndPlaces, Releasing
    <3>2. Completed = 1 /\ Failed \in Nat
      BY <3>1, CountsTyped DEF EndInv, EndingsInv, One, IInv
    <3>3. Failed = 0
      BY <2>2, <3>2 DEF Endings, Completed, Failed
    <3>4. HasAll /\ reads["response"] \in Nat
      BY <3>1, <3>3, DataTyped DEF PlainDataInv, RelayInv, Over, Streams
    <3> QED BY <3>4 DEF HasAll, Response, Bytes
  <2> QED BY <2>1, <2>2 DEF ResponseRelayed
<1>2. Spec => []PlainDataInv
  <2>1. EndInv => WayInv
    BY DEF EndInv
  <2> QED BY <2>1, Invariant, EndsInvariant, InitPlainData, StepPlainData, PTL DEF Spec
<1> QED BY <1>1, <1>2, Invariant, EndsInvariant, PTL

================================================================================

------------------------------- MODULE Transaction -------------------------------
(***************************************************************************)
(* One proxied exchange (class Transaction), from begin() to the release   *)
(* of its connections.  The handlers run on the worker threads of one      *)
(* io_context; what runs concurrently is one chain of handlers per         *)
(* outstanding operation:                                                  *)
(*   main  reads the request, opens the remote end, and for plain HTTP     *)
(*         relays one request and one response; for CONNECT it answers the *)
(*         client and starts the two directions of the tunnel;             *)
(*   up    carries client bytes to the remote end of a tunnel;             *)
(*   down  carries remote bytes to the client.                             *)
(* pc names the function a chain is in, or the operation it waits for.     *)
(***************************************************************************)
EXTENDS Notifications, Sequences

CONSTANTS Methods,    \* request methods a client may send
          Connect,    \* the one the code compares with "CONNECT"
          MaxBytes    \* bound: bytes read per stream

ASSUME MethodsAssumption  == Connect \in Methods

Directions == {"up", "down"}
Chains     == {"main"} \cup Directions
Ends       == {"client", "remote"}
Streams    == {"request", "response"} \cup Directions
Buffers    == {"read_buffer_", "remote_buffer_"}
Free       == "free"            \* no chain holds mutex_

ASSUME MaxBytesAssumption == MaxBytes \in [Streams -> Nat \ {0}]

VARIABLES
  pc, ret, err,       \* per chain: where it is; where release_connections
                      \* returns to; the ec it carries
  mutex,              \* the chain that holds mutex_, or Free
  seen,               \* the pointers release_connections found not null
  ptr, lent,          \* per end: client_/remote_ # nullptr; whether the
                      \* function that handed the connection over still runs
                      \* and holds a reference of its own
  sock, open,         \* per end: its socket; whether close() has yet to set
                      \* the connection's open_ flag
  op,                 \* per chain: its outstanding operation
  ns, error, raised,  \* notification_state_, error_; signals raised so far
  method, request_parse_phase, response_parse_phase,
  reads,              \* bytes read per stream
  buffer,             \* what each read buffer holds
  raw_input,          \* raw_input_: the response as read so far
  delivered           \* what each peer has been sent of the other's stream

control == << pc, ret, err >>
conns   == << ptr, lent, sock, open, op >>
notif   == << ns, error, raised >>
parse   == << method, request_parse_phase, response_parse_phase >>
data    == << reads, buffer, raw_input, delivered >>
vars    == << control, mutex, seen, conns, notif, parse, data >>

Failures == { "ClientDisconnected", "RemoteDisconnected", "MalformedRequest",
              "MalformedResponse", "network", "operation_aborted" }
NoError  == "none"

\* The k-th byte of a stream; a read brings one or more of them.
Byte == Streams \X Nat

Waiting == { "reading_request", "opening", "sending_request",
             "reading_response", "sending_response", "sending_reply",
             "reading", "writing" }
Places  == Waiting \cup
           { "begin", "read_request", "send_request", "read_response",
             "send_response", "send_reply", "start_up", "start_down",
             "idle", "forward", "loop",
             "release", "closing", "resetting", "fail", "failed", "complete",
             "done" }

Results == {"pending", "ok", "eof", "error", "aborted"}
Kinds   == {"none", "open", "read", "write"}
Op      == [ kind : Kinds, end : Ends, buf : Buffers \cup {"raw_input_", "own"},
             sent : Nat, result : Results ]

\* An operation just started; sent is how far a write has come.
Started(k, e, b) ==
  [ kind |-> k, end |-> e, buf |-> b, sent |-> 0, result |-> "pending" ]

NoOp        == [ Started("none", "client", "own") EXCEPT !.result = "ok" ]
Read(e, b)  == Started("read", e, b)
Write(e, b) == Started("write", e, b)
OpenRemote  == Started("open", "remote", "own")

Pending(c)      == op[c].result = "pending"
Returned(c, at) == pc[c] = at /\ ~Pending(c)
Result(c)       == op[c].result

\* Each direction reads one end and writes the other, through its own buffer.
Source(c)       == IF c = "up" THEN "client" ELSE "remote"
Sink(c)         == IF c = "up" THEN "remote" ELSE "client"
OneBuffer(c)    == "read_buffer_"
TunnelBuffer(c) == IF c = "up" THEN "read_buffer_" ELSE "remote_buffer_"

Stream(c) == IF c \in Directions THEN c
             ELSE IF pc[c] = "reading_request" THEN "request" ELSE "response"

--------------------------------------------------------------------------------
\* The constructor.  The accept handler and Proxy::on_client_connected, which
\* calls begin(), hold the client's connection as well.
Init ==
  /\ pc = [ c \in Chains |-> IF c = "main" THEN "begin" ELSE "idle" ]
  /\ ret = [ c \in Chains |-> "done" ]
  /\ err = [ c \in Chains |-> NoError ]
  /\ mutex = Free
  /\ seen = [ c \in Chains |-> {} ]
  /\ ptr = [ e \in Ends |-> e = "client" ]
  /\ lent = [ e \in Ends |-> e = "client" ]
  /\ sock = [ e \in Ends |-> e = "client" ]
  /\ open = [ e \in Ends |-> e = "client" ]
  /\ op = [ c \in Chains |-> NoOp ]
  /\ ns = None
  /\ error = NoError
  /\ raised = [ s \in Signals |-> 0 ]
  /\ method \in Methods
  /\ request_parse_phase = Start
  /\ response_parse_phase = Start
  /\ reads = [ s \in Streams |-> 0 ]
  /\ buffer = [ b \in Buffers |-> << >> ]
  /\ raw_input = << >>
  /\ delivered = [ e \in Ends |-> << >> ]

Raise(S) == raised' = [ s \in Signals |-> raised[s] + IF s \in S THEN 1 ELSE 0 ]

\* do_notification(target).
Notify(target) == /\ ns' = Advanced(ns, target)
                  /\ Raise(Raised(ns, target))
                  /\ UNCHANGED error

Goto(c, place) == /\ pc' = [ pc EXCEPT ![c] = place ]
                  /\ UNCHANGED << ret, err >>

\* Call release_connections and go on at place; on the way to a failure the
\* chain carries its error code.
ReleaseThen(c, place, ec) == /\ pc' = [ pc EXCEPT ![c] = "release" ]
                             /\ ret' = [ ret EXCEPT ![c] = place ]
                             /\ err' = [ err EXCEPT ![c] = ec ]

FailWith(c, ec) == ReleaseThen(c, "fail", ec)

ErrorOf(result) == IF result = "aborted" THEN "operation_aborted" ELSE "network"

Forget(c) == op' = [ op EXCEPT ![c] = NoOp ]

--------------------------------------------------------------------------------
\* begin() and the plain HTTP exchange.

Begin ==
  /\ pc["main"] = "begin"
  /\ Raise({"on_transaction_start"})
  /\ raw_input' = << >>
  /\ Goto("main", "read_request")
  /\ UNCHANGED << mutex, seen, conns, ns, error, parse, reads, buffer, delivered >>

\* The functions that take mutex_, check the pointers and start operation o.
\* The error branch calls notify_failure with mutex_ still held, and
\* notify_failure takes mutex_ again.
LockedStart(at, needed, o, then) ==
  /\ pc["main"] = at
  /\ mutex = Free
  /\ IF \A e \in needed : ptr[e]
       THEN /\ op' = [ op EXCEPT !["main"] = o ]
            /\ Goto("main", then)
            /\ UNCHANGED mutex
       ELSE /\ mutex' = "main"
            /\ FailWith("main", "ClientDisconnected")
            /\ UNCHANGED op
  /\ UNCHANGED << seen, ptr, lent, sock, open, notif, parse, data >>

ReadClientRequest ==
  LockedStart("read_request", {"client"},
              Read("client", "read_buffer_"), "reading_request")

\* A read handler's error branches; disconnected is the error for an eof.
ReadFailed(disconnected) ==
  /\ Result("main") # "ok"
  /\ FailWith("main", IF Result("main") = "eof" THEN disconnected
                                               ELSE ErrorOf(Result("main")))
  /\ UNCHANGED << notif, parse, raw_input >>

\* The phases a buffer passes are notified one by one, in order.
PhaseNotified(phase, o) ==
  IF o.reached > phase THEN PhaseTarget(ns, o.reached) ELSE None

RequestParsed(o) ==
  /\ request_parse_phase' = PhaseAfter(o)
  /\ \/ /\ o.verdict = "Incomplete"
        /\ Notify(PhaseNotified(request_parse_phase, o))
        /\ Goto("main", "read_request")
        /\ Forget("main")
     \/ /\ o.verdict = "Invalid"
        /\ Notify(PhaseNotified(request_parse_phase, o))
        /\ FailWith("main", "MalformedRequest")
        /\ Forget("main")
     \/ /\ o.verdict = "Valid"
        /\ method = Connect
        /\ Notify(PhaseNotified(request_parse_phase, o))
        /\ Goto("main", "opening")
        /\ op' = [ op EXCEPT !["main"] = OpenRemote ]
     \/ /\ o.verdict = "Valid"
        /\ method # Connect
        /\ Notify(RequestComplete)
        /\ \/ /\ Goto("main", "opening")
              /\ op' = [ op EXCEPT !["main"] = OpenRemote ]
           \/ /\ FailWith("main", "MalformedRequest")     \* no Host header
              /\ Forget("main")

OnClientRequestRead ==
  /\ Returned("main", "reading_request")
  /\ \/ /\ ReadFailed("ClientDisconnected")
        /\ Forget("main")
     \/ /\ Result("main") = "ok"
        /\ \E o \in ParseOutcomes(request_parse_phase) : RequestParsed(o)
        /\ UNCHANGED << method, response_parse_phase, raw_input >>
  /\ UNCHANGED << mutex, seen, ptr, lent, sock, open, reads, buffer, delivered >>

\* remote_ = conn, once there is one.
ForgetRemote == UNCHANGED ptr
KeepRemote   == ptr' = [ ptr EXCEPT !["remote"] = (Result("main") = "ok") ]

\* The callbacks open_remote_connection and establish_tls_tunnel give
\* try_open.  The first fails without a remote end; the second answers the
\* client either way, and its reply's handler captures the ec.
OnRemoteOpened ==
  /\ Returned("main", "opening")
  /\ KeepRemote
  /\ LET ec == IF Result("main") = "ok" THEN NoError ELSE "network"
     IN  \/ /\ method = Connect
            /\ pc' = [ pc EXCEPT !["main"] = "send_reply" ]
            /\ err' = [ err EXCEPT !["main"] = ec ]
            /\ UNCHANGED ret
         \/ /\ method # Connect
            /\ ec = NoError
            /\ Goto("main", "send_request")
         \/ /\ method # Connect
            /\ ec # NoError
            /\ FailWith("main", ec)
  /\ Forget("main")
  /\ UNCHANGED << mutex, seen, lent, sock, open, notif, parse, data >>

SendClientRequestToRemote ==
  LockedStart("send_request", Ends, Write("remote", "own"), "sending_request")

\* raw_input_.clear() and parser_.resetForResponse(): the response starts
\* with an empty buffer and phases of its own.
OnRequestSent ==
  /\ Returned("main", "sending_request")
  /\ \/ /\ Result("main") = "ok"
        /\ raw_input' = << >>
        /\ Goto("main", "read_response")
     \/ /\ Result("main") # "ok"
        /\ FailWith("main", ErrorOf(Result("main")))
        /\ UNCHANGED raw_input
  /\ Forget("main")
  /\ UNCHANGED << mutex, seen, ptr, lent, sock, open, notif, parse, reads, buffer,
                  delivered >>

ReadRemoteResponse ==
  LockedStart("read_response", Ends,
              Read("remote", "read_buffer_"), "reading_response")

ResponseParsed(o) ==
  /\ response_parse_phase' = PhaseAfter(o)
  /\ \/ /\ o.verdict = "Incomplete"
        /\ Notify(PhaseNotified(response_parse_phase, o))
        /\ Goto("main", "read_response")
     \/ /\ o.verdict = "Invalid"
        /\ Notify(PhaseNotified(response_parse_phase, o))
        /\ FailWith("main", "MalformedResponse")
     \/ /\ o.verdict = "Valid"
        /\ Notify(ResponseComplete)
        /\ Goto("main", "send_response")

\* raw_input_.insert: what was just read, behind what was read before.
LastReadOnly == buffer["read_buffer_"]
InputSoFar   == raw_input \o buffer["read_buffer_"]

OnRemoteResponseRead ==
  /\ Returned("main", "reading_response")
  /\ \/ ReadFailed("RemoteDisconnected")
     \/ /\ Result("main") = "ok"
        /\ raw_input' = InputSoFar
        /\ \E o \in ParseOutcomes(response_parse_phase) : ResponseParsed(o)
        /\ UNCHANGED << method, request_parse_phase >>
  /\ Forget("main")
  /\ UNCHANGED << mutex, seen, ptr, lent, sock, open, reads, buffer, delivered >>

SendRemoteResponseToClient ==
  LockedStart("send_response", {"client"},
              Write("client", "raw_input_"), "sending_response")

\* complete_transaction releases first, then reports.
CompleteUnreleased ==
  /\ Returned("main", "sending_response")
  /\ \/ Result("main") = "ok" /\ Goto("main", "complete")
     \/ Result("main") # "ok" /\ FailWith("main", ErrorOf(Result("main")))
  /\ Forget("main")
  /\ UNCHANGED << mutex, seen, ptr, lent, sock, open, notif, parse, data >>

OnResponseSent ==
  /\ Returned("main", "sending_response")
  /\ \/ Result("main") = "ok" /\ ReleaseThen("main", "complete", NoError)
     \/ Result("main") # "ok" /\ FailWith("main", ErrorOf(Result("main")))
  /\ Forget("main")
  /\ UNCHANGED << mutex, seen, ptr, lent, sock, open, notif, parse, data >>

--------------------------------------------------------------------------------
\* CONNECT: the reply, and the tunnel's two directions.

SendConnectReply ==
  LockedStart("send_reply", {"client"}, Write("client", "own"), "sending_reply")

\* The failing branch passes on try_open's ec, whatever the write's was.
OnConnectReplySent ==
  /\ Returned("main", "sending_reply")
  /\ \/ /\ err["main"] = NoError
        /\ Result("main") = "ok"
        /\ Goto("main", "start_up")
     \/ /\ err["main"] # NoError \/ Result("main") # "ok"
        /\ FailWith("main", err["main"])
  /\ Forget("main")
  /\ UNCHANGED << mutex, seen, ptr, lent, sock, open, notif, parse, data >>

\* The check both directions start with.
Unchecked  == TRUE
TunnelOpen == ptr["client"] /\ ptr["remote"]

\* send_client_request_via_tunnel and send_server_response_via_tunnel up to
\* their async_read: with an end gone they return without a word.  main calls
\* one after the other, so the first may be running when the second starts.
ReadForTunnel(c, pcOfOthers) ==
  /\ mutex = Free
  /\ IF TunnelOpen
       THEN /\ pc' = [ pcOfOthers EXCEPT ![c] = "reading" ]
            /\ op' = [ op EXCEPT ![c] = Read(Source(c), TunnelBuffer(c)) ]
       ELSE /\ pc' = [ pcOfOthers EXCEPT ![c] = "done" ]
            /\ Forget(c)
  /\ UNCHANGED << ret, err, mutex, seen, ptr, lent, sock, open, notif, parse, data >>

StartUp == /\ pc["main"] = "start_up"
           /\ ReadForTunnel("up", [ pc EXCEPT !["main"] = "start_down" ])

StartDown == /\ pc["main"] = "start_down"
             /\ ReadForTunnel("down", [ pc EXCEPT !["main"] = "done" ])

Loop(c) == pc[c] = "loop" /\ ReadForTunnel(c, pc)

\* Any failed read has num_bytes_read = 0, which the first branch takes for a
\* normal end; the branch for other errors below it is never reached.
StopUnreleased(c) ==
  /\ Returned(c, "reading")
  /\ IF Result(c) = "ok" THEN Goto(c, "forward") /\ UNCHANGED op
                         ELSE Goto(c, "done") /\ Forget(c)
  /\ UNCHANGED << mutex, seen, ptr, lent, sock, open, notif, parse, data >>

OnTunnelRead(c) ==
  /\ Returned(c, "reading")
  /\ \/ /\ Result(c) = "ok"
        /\ Goto(c, "forward")
        /\ UNCHANGED op
     \/ /\ Result(c) # "ok"
        /\ ReleaseThen(c, "done", NoError)
        /\ Forget(c)
  /\ UNCHANGED << mutex, seen, ptr, lent, sock, open, notif, parse, data >>

\* The rest of the read handler, once it has mutex_.
Forward(c) ==
  /\ pc[c] = "forward"
  /\ mutex = Free
  /\ IF ptr[Sink(c)]
       THEN /\ op' = [ op EXCEPT ![c] = Write(Sink(c), TunnelBuffer(c)) ]
            /\ Goto(c, "writing")
       ELSE /\ Forget(c)
            /\ Goto(c, "done")
  /\ UNCHANGED << mutex, seen, ptr, lent, sock, open, notif, parse, data >>

OnTunnelWritten(c) ==
  /\ Returned(c, "writing")
  /\ \/ Result(c) = "ok" /\ Goto(c, "loop")
     \/ Result(c) # "ok" /\ FailWith(c, ErrorOf(Result(c)))
  /\ Forget(c)
  /\ UNCHANGED << mutex, seen, ptr, lent, sock, open, notif, parse, data >>

--------------------------------------------------------------------------------
\* release_connections, notify_failure and complete_transaction, which every
\* chain may run.

\* Closing a socket completes its outstanding operations, with an error.
Aborted(ends) ==
  [ c \in Chains |->
      IF Pending(c) /\ op[c].kind # "open" /\ op[c].end \in ends
        THEN [ op[c] EXCEPT !.result = "aborted" ] ELSE op[c] ]

ReleaseUnguarded(c) ==
  /\ pc[c] = "release"
  /\ mutex' = c
  /\ seen' = [ seen EXCEPT ![c] = { e \in Ends : ptr[e] } ]
  /\ Goto(c, "closing")
  /\ UNCHANGED << conns, notif, parse, data >>

AcquireForRelease(c) ==
  /\ pc[c] = "release"
  /\ mutex = Free
  /\ mutex' = c
  /\ seen' = [ seen EXCEPT ![c] = { e \in Ends : ptr[e] } ]
  /\ Goto(c, "closing")
  /\ UNCHANGED << conns, notif, parse, data >>

\* IConnection::close does nothing on a connection whose open_ is FALSE.  It
\* leaves it FALSE, but no constructor sets it, so the first call may find either
\* value.
CloseConnections(c) ==
  \E closing \in SUBSET { e \in seen[c] : open[e] } :
    /\ pc[c] = "closing"
    /\ open' = [ e \in Ends |-> open[e] /\ e \notin seen[c] ]
    /\ sock' = [ e \in Ends |-> sock[e] /\ e \notin closing ]
    /\ op' = Aborted(closing)
    /\ Goto(c, "resetting")
    /\ UNCHANGED << mutex, seen, ptr, lent, notif, parse, data >>

\* Where the reset pointer was the last reference to a connection, its
\* destructor closes the socket if close() did not.
ResetPointers(c) ==
  LET dropped == { e \in Ends : ptr[e] /\ ~lent[e] }
  IN  /\ pc[c] = "resetting"
      /\ ptr' = [ e \in Ends |-> FALSE ]
      /\ sock' = [ e \in Ends |-> sock[e] /\ e \notin dropped ]
      /\ op' = Aborted(dropped)
      /\ mutex' = Free
      /\ seen' = [ seen EXCEPT ![c] = {} ]
      /\ Goto(c, ret[c])
      /\ UNCHANGED << lent, open, notif, parse, data >>

\* The functions that hand a connection over have started its first operation
\* when they return: begin() its read of the client, and the callback of
\* try_open its write to either end.
HandedOver(e) ==
  IF e = "client"
    THEN pc["main"] \notin {"begin", "read_request"} \/ reads["request"] > 0
    ELSE pc["main"] \notin {"opening", "send_request", "send_reply"}

\* The function that handed the connection over returns, on its own thread.
CallerReturns(e) ==
  LET dropped == { e } \ { d \in Ends : ptr[d] }
  IN  /\ lent[e]
      /\ HandedOver(e)
      /\ lent' = [ lent EXCEPT ![e] = FALSE ]
      /\ sock' = [ d \in Ends |-> sock[d] /\ d \notin dropped ]
      /\ op' = Aborted(dropped)
      /\ UNCHANGED << control, mutex, seen, ptr, open, notif, parse, data >>

\* notify_failure after its release: error_ and notification_state_ are
\* written outside mutex_, and the signal is raised after both.
RecordFailure(c) ==
  /\ pc[c] = "fail"
  /\ error' = err[c]
  /\ ns' = Error
  /\ Goto(c, "failed")
  /\ UNCHANGED << mutex, seen, conns, raised, parse, data >>

ReportFailureOnly(c) ==
  /\ pc[c] = "failed"
  /\ Raise({"on_transaction_failed"})
  /\ Goto(c, "done")
  /\ UNCHANGED << mutex, seen, conns, ns, error, parse, data >>

ReportFailure(c) ==
  /\ pc[c] = "failed"
  /\ Raise({"on_transaction_failed"})
  /\ ReleaseThen(c, "complete", err[c])
  /\ UNCHANGED << mutex, seen, conns, ns, error, parse, data >>

ReportCompletion(c) ==
  /\ pc[c] = "complete"
  /\ Raise({"on_transaction_complete"})
  /\ Goto(c, "done")
  /\ UNCHANGED << mutex, seen, conns, ns, error, parse, data >>

--------------------------------------------------------------------------------
\* The network and the peers: how an outstanding operation may end.

\* The next n bytes of a stream.
Arriving(s, n) == [ i \in 1 .. n |-> << s, reads[s] + i >> ]

ReadCompletes(c) ==
  /\ Pending(c)
  /\ op[c].kind = "read"
  /\ op' = [ op EXCEPT ![c].result = "ok" ]
  /\ \E n \in 1 .. MaxBytes[Stream(c)] - reads[Stream(c)] :
       /\ reads' = [ reads EXCEPT ![Stream(c)] = @ + n ]
       /\ buffer' = [ buffer EXCEPT ![op[c].buf] = Arriving(Stream(c), n) ]
  /\ UNCHANGED << control, mutex, seen, ptr, lent, sock, open, notif, parse,
                  raw_input, delivered >>

\* What a write carries is what its buffer holds while it is written out; the
\* bytes the transaction makes itself are not followed.
Payload(b) == CASE b = "raw_input_" -> raw_input
                [] b = "own"        -> << >>
                [] OTHER            -> buffer[b]

\* async_write is composed: the peer has one byte more, and the write goes on
\* until the last, or until it fails or its socket is closed half-way.
WriteSome(c) ==
  LET bytes == Payload(op[c].buf)
      next  == op[c].sent + 1
  IN  /\ Pending(c)
      /\ op[c].kind = "write"
      /\ op' = [ op EXCEPT
                   ![c].sent = next,
                   ![c].result = IF next < Len(bytes) THEN "pending" ELSE "ok" ]
      /\ delivered' =
           [ delivered EXCEPT
               ![op[c].end] = IF next \in DOMAIN bytes THEN Append(@, bytes[next])
                                                       ELSE @ ]
      /\ UNCHANGED << control, mutex, seen, ptr, lent, sock, open, notif, parse,
                      reads, buffer, raw_input >>

OpenCompletes(c) ==
  /\ Pending(c)
  /\ op[c].kind = "open"
  /\ op' = [ op EXCEPT ![c].result = "ok" ]
  /\ sock' = [ sock EXCEPT !["remote"] = TRUE ]
  /\ lent' = [ lent EXCEPT !["remote"] = TRUE ]
  /\ open' = [ open EXCEPT !["remote"] = TRUE ]
  /\ UNCHANGED << control, mutex, seen, ptr, notif, parse, data >>

OperationFails(c) ==
  /\ Pending(c)
  /\ \E r \in {"eof", "error"} :
       /\ r = "eof" => op[c].kind = "read"
       /\ op' = [ op EXCEPT ![c].result = r ]
  /\ UNCHANGED << control, mutex, seen, ptr, lent, sock, open, notif, parse, data >>

NetworkCompletes(c) == \/ ReadCompletes(c)
                       \/ WriteSome(c)
                       \/ OpenCompletes(c)
                       \/ OperationFails(c)

--------------------------------------------------------------------------------
MainStep == \/ Begin
            \/ ReadClientRequest
            \/ OnClientRequestRead
            \/ OnRemoteOpened
            \/ SendClientRequestToRemote
            \/ OnRequestSent
            \/ ReadRemoteResponse
            \/ OnRemoteResponseRead
            \/ SendRemoteResponseToClient
            \/ OnResponseSent
            \/ SendConnectReply
            \/ OnConnectReplySent
            \/ StartUp
            \/ StartDown

TunnelStep(c) == \/ OnTunnelRead(c)
                 \/ Forward(c)
                 \/ OnTunnelWritten(c)
                 \/ Loop(c)

EndingStep(c) == \/ AcquireForRelease(c)
                 \/ CloseConnections(c)
                 \/ ResetPointers(c)
                 \/ RecordFailure(c)
                 \/ ReportFailure(c)
                 \/ ReportCompletion(c)

Stopped(c) == pc[c] \in {"idle", "done"}
AllStopped == \A c \in Chains : Stopped(c)

\* Nothing is left to run: the last handler has dropped its reference.
Finished == AllStopped /\ UNCHANGED vars

Next == \/ MainStep
        \/ \E c \in Directions : TunnelStep(c)
        \/ \E c \in Chains : EndingStep(c) \/ NetworkCompletes(c)
        \/ \E e \in Ends : CallerReturns(e)
        \/ Finished

Spec == Init /\ [][Next]_vars

\* The workers of the io_context run every handler that is ready, a chain that
\* waits for mutex_ gets it, and a function that has handed a connection over
\* returns: nothing in it waits.
HandlerFairness == /\ WF_vars(MainStep)
                   /\ \A c \in Directions : WF_vars(TunnelStep(c))
                   /\ \A c \in Chains : WF_vars(EndingStep(c))
                   /\ \A e \in Ends : WF_vars(CallerReturns(e))

\* Nothing in the code times an operation out: that every one of them ends is
\* an assumption about the peers and the network.
NetworkFairness == \A c \in Chains : WF_vars(NetworkCompletes(c))

HandlerSpec == Spec /\ HandlerFairness

================================================================================

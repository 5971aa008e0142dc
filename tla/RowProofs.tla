--------------------------------- MODULE RowProofs ---------------------------------
(***************************************************************************)
(* For every set of methods and every number of reads: the row of the      *)
(* window ends up with what its transaction has to show, and then listens  *)
(* no more.  The argument has two halves: what the transaction shows is    *)
(* final once it has raised a signal the row listens to (StateInv,         *)
(* HeadInv), and of such a signal the row always has a call to come or has *)
(* made a refresh (ViewInv).                                               *)
(***************************************************************************)
EXTENDS TransactionModel, TransactionProofs, FiniteSetTheorems

\* What main has reported and parsed, from where it is.
Asking  == pc["main"] \in {"begin", "read_request", "reading_request"}
Relayed == \/ pc["main"] \in {"send_response", "sending_response"}
           \/ Over("main") /\ Failed = 0
Seen(phase) == phase >= ReceivedMessageLine

\* The transaction's state while main asks, while it exchanges, and at the end.
StateInv ==
  /\ Asking => ns < RequestComplete
  /\ method # Connect /\ pc["main"] \in {"opening"} \cup PlainPlaces =>
       ns >= RequestComplete /\ Seen(request_parse_phase)
  /\ method # Connect /\ Relayed => ns = ResponseComplete
  /\ \A c \in Chains : pc[c] = "failed" => ns = Error
  /\ Failed > 0 => ns = Error

\* Progress is raised only once a response has begun.
Progressing == \/ raised["on_request_read"] > 0
               \/ raised["on_response_headers_read"] > 0

HeadInv == /\ raised["on_response_read"] = 0
           /\ Progressing => Seen(request_parse_phase) /\ Seen(response_parse_phase)

\* The row has something to show, and the transaction has ended for it.
Told  == \E i \in DOMAIN Listened : raised[Listened[i]] > 0
Ended == Failed > 0 \/ Completed > 0

\* Of what the row has been told it has made a refresh that is final, or has a
\* call to come; and it stops listening only after it has been told.
ViewInv ==
  /\ updates \in Nat
  /\ viewing \in {"idle", "refreshed"}
  /\ connected \in BOOLEAN
  /\ updates > 0 \/ viewing = "refreshed" \/ ~connected => Told
  /\ Told => updates > 0 \/ shown = Visible
  /\ Ended => ~connected \/ updates > 0 \/ viewing = "refreshed"

USE DEF Chains, Directions, Ends

--------------------------------------------------------------------------------
\* The transaction's side.

\* While main works nothing has ended.
LEMMA WorkingIsNotOver ==
  ASSUME IInv, EndInv, pc["main"] \in MainWorks
  PROVE  Failed = 0 /\ Completed = 0 /\ ~Over("main") /\ \A c \in Directions : pc[c] = "idle"
<1>1. pc["main"] \notin {"start_down", "done"} /\ ~Over("main") /\ ~Owes("main")
  BY DEF MainWorks, MainPlaces, EndPlaces, Releasing, Over, Owes
<1>2. \A c \in Directions : pc[c] = "idle" /\ ~Owes(c)
  BY <1>1 DEF IInv, ControlInv, StartInv, Owes, Releasing
<1>3. Failed = 0 /\ Completed = 0
  BY <1>1, <1>2, CountsTyped DEF EndInv, EndingsInv, One, IInv
<1> QED BY <1>1, <1>2, <1>3

\* A request's phases raise nothing.
LEMMA QuietPhases ==
  ASSUME TypeOK, NEW target \in None .. RequestComplete, Notify(target)
  PROVE  raised' = raised /\ ns' = IF ns < target THEN target ELSE ns
<1>1. Raised(ns, target) = {}
  BY DEF Raised, RaisedOnLeaving, TypeOK, NotificationState, None, Error, RequestComplete,
         ResponseHeaders, ResponseComplete
<1> QED BY <1>1 DEF Notify, Raise, Advanced, TypeOK

\* What the parser makes of a buffer never takes back a phase.
LEMMA PhasesGrow ==
  ASSUME NEW phase \in ParsePhase, NEW o \in ParseOutcomes(phase)
  PROVE  /\ PhaseAfter(o) \in ParsePhase
         /\ PhaseAfter(o) >= phase
         /\ o.reached \in Start .. ReceivedHeaders
         /\ o.reached > 0 => Seen(PhaseAfter(o))
         /\ o.verdict = "Valid" => Seen(PhaseAfter(o))
  BY DEF ParseOutcomes, PhaseAfter, ParsePhase, Start, ReceivedHeaders, ReceivedFullMessage,
         ReceivedMessageLine, Seen

\* The read handler of the request, after which main asks again, opens the
\* remote end, or gives up.
LEMMA RequestState ==
  ASSUME IInv, EndInv, ProgressInv, StateInv, HeadInv, OnClientRequestRead
  PROVE  StateInv' /\ HeadInv' /\ (Told => Visible' = Visible)
<1>t. /\ TypeOK /\ pc \in [Chains -> Places] /\ ret \in [Chains -> {"fail", "complete", "done"}]
      /\ request_parse_phase \in ParsePhase /\ ns \in Nat
  BY DEF IInv, TypeOK, NotificationState, None, Error
<1>w. pc["main"] = "reading_request" /\ pc["main"] \in MainWorks /\ ns < RequestComplete
  BY DEF OnClientRequestRead, Returned, MainWorks, MainPlaces, EndPlaces, Releasing, StateInv, Asking
<1>1. Failed = 0 /\ Completed = 0 /\ \A c \in Directions : pc[c] = "idle"
  BY <1>w, WorkingIsNotOver
<1>2. raised["on_request_read"] = 0 /\ raised["on_response_headers_read"] = 0
  BY <1>t, <1>w DEF ProgressInv, Progressed, One, RequestComplete, ResponseHeaders
<1>3. ~Told
  BY <1>1, <1>2 DEF Told, Listened, HeadInv, Failed, Completed
<1>m. method' = method
  BY SameMethod DEF Next, MainStep
<1>4. ASSUME raised' = raised, NEW x \in {"read_request", "opening"}, At("main", x),
             x = "read_request" => ns' < RequestComplete,
             x = "opening" /\ method # Connect => ns' >= RequestComplete /\ Seen(request_parse_phase')
      PROVE  StateInv' /\ HeadInv'
  <2>1. pc'["main"] = x /\ \A c \in Directions : pc'[c] = "idle"
    BY <1>t, <1>1, <1>4 DEF At
  <2>2. Failed' = 0
    BY <1>1, <1>4 DEF Failed
  <2> QED BY <1>2, <1>4, <1>m, <2>1, <2>2 DEF StateInv, HeadInv, Progressing, Asking, Relayed, Over,
        Owes, Releasing, PlainPlaces
<1>5. ASSUME raised' = raised, At("main", "release"), ret' = [ ret EXCEPT !["main"] = "fail" ]
      PROVE  StateInv' /\ HeadInv'
  <2>1. pc'["main"] = "release" /\ ret'["main"] = "fail" /\ \A c \in Directions : pc'[c] = "idle"
    BY <1>t, <1>1, <1>5 DEF At
  <2>2. Failed' = 0
    BY <1>1, <1>5 DEF Failed
  <2> QED BY <1>2, <1>5, <2>1, <2>2 DEF StateInv, HeadInv, Progressing, Asking, Relayed, Over,
        Owes, Releasing, PlainPlaces
<1>6. CASE ReadFailed("ClientDisconnected")
  <2>1. raised' = raised /\ At("main", "release") /\ ret' = [ ret EXCEPT !["main"] = "fail" ]
    BY <1>6 DEF ReadFailed, FailWith, ReleaseThen, At, notif
  <2> QED BY <1>3, <1>5, <2>1
<1>7. ASSUME NEW o \in ParseOutcomes(request_parse_phase), RequestParsed(o)
      PROVE  StateInv' /\ HeadInv'
  <2>1. PhaseNotified(request_parse_phase, o) \in None .. RequestBody
    BY <1>t, <1>w, PhasesGrow DEF PhaseNotified, PhaseTarget, RequestStates, None, RequestLine,
       RequestHeaders, RequestBody, RequestComplete, Start, ReceivedHeaders, ParsePhase
  <2>2. CASE Notify(PhaseNotified(request_parse_phase, o)) /\ (o.verdict = "Valid" => method = Connect)
    <3>1. raised' = raised /\ ns' < RequestComplete
      BY <1>t, <1>w, <2>1, <2>2, QuietPhases DEF None, RequestBody, RequestComplete
    <3>2. \/ At("main", "read_request")
          \/ At("main", "release") /\ ret' = [ ret EXCEPT !["main"] = "fail" ]
          \/ method = Connect /\ At("main", "opening")
      BY <1>7, <2>2 DEF RequestParsed, Goto, FailWith, ReleaseThen, At
    <3> QED BY <1>4, <1>5, <3>1, <3>2
  <2>3. CASE Notify(RequestComplete) /\ o.verdict = "Valid"
    <3>1. RequestComplete \in None .. RequestComplete
      BY DEF None, RequestComplete
    <3>2. raised' = raised /\ ns' = RequestComplete /\ Seen(request_parse_phase')
      BY <1>t, <1>w, <1>7, <2>3, <3>1, QuietPhases, PhasesGrow DEF RequestParsed
    <3>3. ns' >= RequestComplete
      BY <3>2 DEF RequestComplete
    <3>4. \/ At("main", "opening")
          \/ At("main", "release") /\ ret' = [ ret EXCEPT !["main"] = "fail" ]
          \/ method = Connect
      BY <1>7, <2>3 DEF RequestParsed, Goto, FailWith, ReleaseThen, At
    <3>5. CASE method = Connect
      <4>1. Notify(PhaseNotified(request_parse_phase, o))
        BY <1>7, <2>3, <3>5 DEF RequestParsed
      <4> QED BY <2>2, <3>5, <4>1
    <3> QED BY <1>4, <1>5, <3>2, <3>3, <3>4, <3>5
  <2> QED BY <1>7, <2>2, <2>3 DEF RequestParsed
<1> QED BY <1>3, <1>6, <1>7 DEF OnClientRequestRead

\* The read handler of the response: what it raises it raises once the response
\* has begun, and what the row has been told of stays as it is.
LEMMA ResponseState ==
  ASSUME IInv, EndInv, ProgressInv, StateInv, HeadInv, OnRemoteResponseRead
  PROVE  StateInv' /\ HeadInv' /\ (Told => Visible' = Visible)
<1>t. /\ TypeOK /\ pc \in [Chains -> Places] /\ ret \in [Chains -> {"fail", "complete", "done"}]
      /\ request_parse_phase \in ParsePhase /\ response_parse_phase \in ParsePhase
      /\ raised \in [Signals -> Nat]
  BY DEF IInv, TypeOK
<1>w. pc["main"] = "reading_response" /\ pc["main"] \in MainWorks
  BY DEF OnRemoteResponseRead, Returned, MainWorks, MainPlaces, EndPlaces, Releasing
<1>1. Failed = 0 /\ Completed = 0 /\ \A c \in Directions : pc[c] = "idle"
  BY <1>w, WorkingIsNotOver
<1>2. method # Connect /\ method' = method
  BY <1>w, SameMethod DEF EndInv, WayInv, PlainPlaces, Next, MainStep
<1>3. /\ ns \in RequestComplete .. ResponseComplete
      /\ Seen(request_parse_phase) /\ request_parse_phase' = request_parse_phase
  BY <1>t, <1>w, <1>2 DEF ProgressInv, Progressed, StateInv, PlainPlaces, OnRemoteResponseRead,
     ReadFailed, parse, None, RequestComplete, ResponseComplete
<1>4. \/ At("main", "read_response")
      \/ At("main", "send_response") /\ Notify(ResponseComplete)
      \/ At("main", "release") /\ ret' = [ ret EXCEPT !["main"] = "fail" ]
  BY DEF OnRemoteResponseRead, ResponseParsed, ReadFailed, Goto, FailWith, ReleaseThen, At
<1>5. CASE ReadFailed("RemoteDisconnected")
  <2>1. UNCHANGED << notif, parse >> /\ At("main", "release")
        /\ ret' = [ ret EXCEPT !["main"] = "fail" ]
    BY <1>5 DEF ReadFailed, FailWith, ReleaseThen, At
  <2>2. pc'["main"] = "release" /\ ret'["main"] = "fail" /\ \A c \in Directions : pc'[c] = "idle"
    BY <1>t, <1>1, <2>1 DEF At
  <2>3. Failed' = 0 /\ Visible' = Visible
    BY <1>1, <2>1 DEF Failed, notif, parse, Visible
  <2> QED BY <2>1, <2>2, <2>3 DEF StateInv, HeadInv, Progressing, Asking, Relayed, Over, Owes,
        Releasing, PlainPlaces, notif, parse
<1>6. ASSUME NEW o \in ParseOutcomes(response_parse_phase), ResponseParsed(o)
      PROVE  StateInv' /\ HeadInv' /\ (Told => Visible' = Visible)
  <2> DEFINE target == IF o.verdict = "Valid" THEN ResponseComplete
                       ELSE PhaseNotified(response_parse_phase, o)
  <2>1. /\ Notify(target)
        /\ response_parse_phase' = PhaseAfter(o)
    BY <1>6 DEF ResponseParsed
  <2>2. /\ target \in None .. ResponseComplete
        /\ target > RequestComplete => Seen(PhaseAfter(o))
    BY <1>t, <1>3, PhasesGrow DEF PhaseNotified, PhaseTarget, RequestStates, ResponseStates, None,
       RequestComplete, ResponseHeaders, ResponseBody, ResponseComplete, Start, ReceivedHeaders,
       ParsePhase
  <2>3. Seen(response_parse_phase) => Seen(PhaseAfter(o))
    BY <1>t, PhasesGrow DEF Seen, ParsePhase, Start, ReceivedFullMessage, ReceivedMessageLine
  <2> HIDE DEF target
  <2>4. Failed' = 0 /\ Completed' = 0
    BY <1>t, <1>1, <2>1, <2>2, PhasesEndNothing
  <2>5. /\ raised'["on_response_read"] = raised["on_response_read"]
        /\ target <= RequestComplete => raised' = raised
    <3>1. /\ "on_response_read" \notin Raised(ns, target)
          /\ target <= RequestComplete => Raised(ns, target) = {}
      BY <1>3, <2>2 DEF Raised, RaisedOnLeaving, None, RequestComplete, ResponseHeaders,
         ResponseComplete
    <3> QED BY <1>t, <2>1, <3>1 DEF Notify, Raise, Signals
  <2>6. HeadInv'
    <3>1. CASE target > RequestComplete
      BY <1>3, <2>1, <2>2, <2>5, <3>1 DEF HeadInv, Seen
    <3>2. CASE ~(target > RequestComplete)
      <4>1. target <= RequestComplete
        BY <2>2, <3>2 DEF None, RequestComplete, ResponseComplete
      <4> QED BY <1>3, <2>1, <2>3, <2>5, <4>1 DEF HeadInv, Progressing, Seen
    <3> QED BY <3>1, <3>2
  <2>7. Told => Visible' = Visible
    <3> SUFFICES ASSUME Told PROVE Visible' = Visible
      OBVIOUS
    <3>1. Progressing
      BY <1>1 DEF Told, Listened, HeadInv, Failed, Completed, Progressing
    <3>2. Seen(request_parse_phase') /\ Seen(response_parse_phase')
          /\ Seen(request_parse_phase) /\ Seen(response_parse_phase)
      BY <1>3, <2>1, <2>3, <3>1 DEF HeadInv
    <3> QED BY <3>2 DEF Visible, Seen
  <2>8. /\ ns' >= RequestComplete
        /\ target = ResponseComplete => ns' = ResponseComplete
    BY <1>3, <2>1, <2>2 DEF Notify, Advanced, None, RequestComplete, ResponseComplete
  <2>9. StateInv'
    <3>1. \A c \in Directions : pc'[c] = "idle"
      BY <1>t, <1>1, <1>4 DEF At
    <3>2. CASE At("main", "read_response")
      <4>1. pc'["main"] = "read_response"
        BY <1>t, <3>2 DEF At
      <4> QED BY <1>3, <2>4, <2>8, <3>1, <4>1 DEF StateInv, Asking, Relayed, Over, Owes, Releasing,
            Seen
    <3>3. CASE At("main", "send_response")
      <4>1. pc'["main"] = "send_response"
        BY <1>t, <3>3 DEF At
      <4>2. o.verdict = "Valid"
        <5>1. o.verdict # "Valid" => pc'["main"] # "send_response"
          BY <1>t, <1>6 DEF ResponseParsed, Goto, FailWith, ReleaseThen, ParseOutcomes, Verdicts
        <5> QED BY <4>1, <5>1
      <4>3. ns' = ResponseComplete
        BY <2>8, <4>2 DEF target
      <4> QED BY <1>3, <2>4, <2>8, <3>1, <4>1, <4>3 DEF StateInv, Asking, Relayed, Over, Owes,
            Releasing, Seen
    <3>4. CASE At("main", "release") /\ ret' = [ ret EXCEPT !["main"] = "fail" ]
      <4>1. pc'["main"] = "release" /\ ret'["main"] = "fail"
        BY <1>t, <3>4 DEF At
      <4> QED BY <2>4, <3>1, <4>1 DEF StateInv, Asking, Relayed, Over, Owes, Releasing, PlainPlaces
    <3> QED BY <1>4, <3>2, <3>3, <3>4
  <2> QED BY <2>6, <2>7, <2>9
<1> QED BY <1>5, <1>6 DEF OnRemoteResponseRead

\* main's other steps report no progress, and parse nothing.
LEMMA MainState ==
  ASSUME IInv, EndInv, StateInv, HeadInv, MainStep, ~OnClientRequestRead, ~OnRemoteResponseRead
  PROVE  StateInv' /\ HeadInv' /\ (Told => Visible' = Visible)
<1>t. /\ TypeOK /\ pc \in [Chains -> Places] /\ ret \in [Chains -> {"fail", "complete", "done"}]
      /\ raised \in [Signals -> Nat]
  BY DEF IInv, TypeOK
<1>1. UNCHANGED parse /\ ns' = ns
  BY DEF MainStep, Begin, ReadClientRequest, OnRemoteOpened, SendClientRequestToRemote,
     OnRequestSent, ReadRemoteResponse, SendRemoteResponseToClient, OnResponseSent,
     SendConnectReply, OnConnectReplySent, StartUp, StartDown, LockedStart, ReadForTunnel, notif
<1>2. \A s \in Signals \ {"on_transaction_start"} : raised'[s] = raised[s]
  <2>1. CASE Begin
    BY <1>t, <2>1 DEF Begin, Raise
  <2>2. CASE ~Begin
    BY <2>2 DEF MainStep, ReadClientRequest, OnRemoteOpened, SendClientRequestToRemote,
       OnRequestSent, ReadRemoteResponse, SendRemoteResponseToClient, OnResponseSent,
       SendConnectReply, OnConnectReplySent, StartUp, StartDown, LockedStart, ReadForTunnel, notif
  <2> QED BY <2>1, <2>2
<1>3. HeadInv' /\ Visible' = Visible /\ Failed' = Failed
  BY <1>1, <1>2 DEF HeadInv, Progressing, Visible, parse, Signals, Failed
<1>4. /\ Asking' => Asking
      /\ pc'["main"] \in {"opening"} \cup PlainPlaces =>
           method = Connect \/ pc["main"] \in {"opening"} \cup PlainPlaces
      /\ method # Connect /\ Relayed' => Relayed
      /\ \A c \in Chains : pc'[c] = "failed" => pc[c] = "failed"
  <2> USE <1>t DEF Asking, Relayed, PlainPlaces, Over, Owes, Releasing, Goto, FailWith,
                   ReleaseThen, Returned
  <2>1. CASE Begin
    BY <1>3, <2>1 DEF Begin
  <2>2. CASE ReadClientRequest \/ SendClientRequestToRemote \/ ReadRemoteResponse
             \/ SendRemoteResponseToClient \/ SendConnectReply
    BY <1>3, <2>2 DEF ReadClientRequest, SendClientRequestToRemote, ReadRemoteResponse,
       SendRemoteResponseToClient, SendConnectReply, LockedStart
  <2>3. CASE OnRemoteOpened
    BY <1>3, <2>3 DEF OnRemoteOpened
  <2>4. CASE OnRequestSent
    BY <1>3, <2>4 DEF OnRequestSent
  <2>5. CASE OnResponseSent
    BY <1>3, <2>5 DEF OnResponseSent
  <2>6. CASE OnConnectReplySent
    BY <1>3, <2>6 DEF OnConnectReplySent
  <2>7. CASE StartUp
    BY <1>3, <2>7 DEF StartUp, ReadForTunnel, EndInv, WayInv, ReplyPlaces
  <2>8. CASE StartDown
    BY <1>3, <2>8 DEF StartDown, ReadForTunnel, EndInv, WayInv, ReplyPlaces
  <2> QED BY <2>1, <2>2, <2>3, <2>4, <2>5, <2>6, <2>7, <2>8 DEF MainStep
<1> QED BY <1>1, <1>3, <1>4 DEF StateInv, parse

\* The directions and the network neither report nor parse.
LEMMA OtherState ==
  ASSUME IInv, StateInv, HeadInv,
         \/ \E c \in Directions : TunnelStep(c)
         \/ Outside
  PROVE  StateInv' /\ HeadInv' /\ (Told => Visible' = Visible)
<1>t. pc \in [Chains -> Places] /\ ret \in [Chains -> {"fail", "complete", "done"}]
  BY DEF IInv, TypeOK
<1> DEFINE Quiet == /\ UNCHANGED << notif, parse >>
                    /\ pc'["main"] = pc["main"] /\ ret'["main"] = ret["main"]
                    /\ \A c \in Directions : pc'[c] = "failed" => pc[c] = "failed"
<1>1. Quiet
  <2>1. ASSUME NEW c \in Directions, TunnelStep(c) PROVE Quiet
    BY <1>t, <2>1 DEF TunnelStep, OnTunnelRead, Forward, OnTunnelWritten, Loop, ReadForTunnel,
       Goto, FailWith, ReleaseThen
  <2>2. ASSUME NEW c \in Chains, NetworkCompletes(c) PROVE Quiet
    BY <2>2 DEF NetworkCompletes, ReadCompletes, WriteSome, OpenCompletes, OperationFails,
       control
  <2>3. ASSUME NEW e \in Ends, CallerReturns(e) PROVE Quiet
    BY <2>3 DEF CallerReturns, control
  <2>4. CASE UNCHANGED vars
    BY <2>4 DEF vars, control
  <2> QED BY <2>1, <2>2, <2>3, <2>4 DEF Outside
<1> QED BY <1>1 DEF StateInv, HeadInv, Progressing, Asking, Relayed, Over, Owes, Failed, notif, parse,
      Visible

\* What a transaction's state is once it has ended: final, as the slot asks.
LEMMA EndingState ==
  ASSUME IInv, EndInv, StateInv, HeadInv, NEW c \in Chains, EndingStep(c)
  PROVE  StateInv' /\ HeadInv' /\ (Told => Visible' = Visible)
<1>t. /\ TypeOK /\ pc \in [Chains -> Places] /\ ret \in [Chains -> {"fail", "complete", "done"}]
      /\ raised \in [Signals -> Nat] /\ Failed \in Nat
  BY CountsTyped DEF IInv, TypeOK
<1>1. UNCHANGED parse
  BY DEF EndingStep, AcquireForRelease, CloseConnections, ResetPointers, RecordFailure,
     ReportFailure, ReportCompletion
<1>m. method' = method
  BY <1>1 DEF parse
<1>2. \A s \in Signals \ {"on_transaction_failed", "on_transaction_complete"} : raised'[s] = raised[s]
  <2>1. CASE UNCHANGED raised
    BY <2>1
  <2>2. CASE ReportFailure(c)
    BY <1>t, <2>2 DEF ReportFailure, Raise
  <2>3. CASE ReportCompletion(c)
    BY <1>t, <2>3 DEF ReportCompletion, Raise
  <2> QED BY <2>1, <2>2, <2>3 DEF EndingStep, AcquireForRelease, CloseConnections, ResetPointers,
        RecordFailure, notif
<1>3. HeadInv' /\ Visible' = Visible
  BY <1>1, <1>2 DEF HeadInv, Progressing, Visible, parse, Signals
<1>4. /\ pc["main"] \notin MainWorks /\ pc'["main"] \notin MainWorks
      /\ method # Connect => c = "main"
  <2>1. pc[c] \in EndPlaces
    BY DEF EndingStep, AcquireForRelease, CloseConnections, ResetPointers, RecordFailure,
       ReportFailure, ReportCompletion, EndPlaces, Releasing
  <2>2. \E x \in EndPlaces : pc' = [ pc EXCEPT ![c] = x ]
    BY <1>t DEF EndingStep, AcquireForRelease, CloseConnections, ResetPointers, RecordFailure,
       ReportFailure, ReportCompletion, Goto, ReleaseThen, EndPlaces, Releasing
  <2>3. c # "main" => pc[c] # "idle"
    BY <2>1 DEF EndPlaces, Releasing
  <2> QED BY <1>t, <2>1, <2>2, <2>3 DEF IInv, ControlInv, StartInv, MainWorks, EndPlaces, Releasing,
        EndInv, WayInv
<1>5. ~Asking' /\ pc'["main"] \notin {"opening"} \cup PlainPlaces
  BY <1>4 DEF Asking, MainWorks, MainPlaces, EndPlaces, Releasing, PlainPlaces
<1>6. /\ method # Connect /\ Relayed' => ns' = ResponseComplete
      /\ \A d \in Chains : pc'[d] = "failed" => ns' = Error
      /\ Failed' > 0 => ns' = Error
  <2>1. CASE AcquireForRelease(c) \/ CloseConnections(c) \/ ResetPointers(c)
    <3>1. UNCHANGED notif /\ Failed' = Failed
      BY <2>1 DEF AcquireForRelease, CloseConnections, ResetPointers, notif, Failed
    <3>2. \A d \in Chains : pc'[d] = "failed" => pc[d] = "failed"
      BY <1>t, <2>1 DEF AcquireForRelease, CloseConnections, ResetPointers, Goto
    <3>3. method # Connect /\ Relayed' => Relayed
      BY <1>t, <1>5, <2>1, <3>1 DEF AcquireForRelease, CloseConnections, ResetPointers, Goto, Relayed,
         Over, Owes, Releasing, PlainPlaces, EndInv, WayInv
    <3> QED BY <1>m, <3>1, <3>2, <3>3 DEF StateInv, notif
  <2>2. CASE RecordFailure(c)
    <3>1. ns' = Error /\ pc' = [ pc EXCEPT ![c] = "failed" ]
      BY <2>2 DEF RecordFailure, Goto
    <3>2. method # Connect => pc'["main"] = "failed"
      BY <1>t, <1>4, <3>1
    <3> QED BY <3>1, <3>2 DEF Relayed, Over, Owes, Releasing
  <2>3. CASE ReportFailure(c)
    <3>1. ns' = ns /\ ns = Error
      BY <2>3 DEF ReportFailure, StateInv
    <3>2. Failed' = Failed + 1
      BY <1>t, <2>3 DEF ReportFailure, Raise, Failed, Signals
    <3> QED BY <1>t, <1>5, <3>1, <3>2 DEF Relayed, PlainPlaces
  <2>4. CASE ReportCompletion(c)
    <3>1. ns' = ns /\ Failed' = Failed /\ pc' = [ pc EXCEPT ![c] = "done" ] /\ pc[c] = "complete"
      BY <1>t, <2>4 DEF ReportCompletion, Raise, Failed, Signals, Goto
    <3>2. \A d \in Chains : pc'[d] = "failed" => pc[d] = "failed"
      BY <1>t, <3>1
    <3>3. method # Connect /\ Relayed' => Relayed
      BY <1>t, <1>4, <1>5, <3>1 DEF Relayed, Over, Owes, Releasing, PlainPlaces
    <3> QED BY <1>m, <3>1, <3>2, <3>3 DEF StateInv
  <2> QED BY <2>1, <2>2, <2>3, <2>4 DEF EndingStep
<1> QED BY <1>3, <1>5, <1>6, <1>m DEF StateInv

\* Every step keeps the states, and leaves alone what the row has been told of.
LEMMA StepState ==
  ASSUME IInv, EndInv, ProgressInv, StateInv, HeadInv, [Next]_vars
  PROVE  StateInv' /\ HeadInv' /\ (Told => Visible' = Visible)
BY RequestState, ResponseState, MainState, OtherState, EndingState DEF Next, Finished,
   Outside

LEMMA InitState == Init => StateInv /\ HeadInv
<1> SUFFICES ASSUME Init PROVE StateInv /\ HeadInv
  OBVIOUS
<1>1. /\ ns = None /\ pc["main"] = "begin" /\ \A s \in Signals : raised[s] = 0
      /\ \A c \in Chains : pc[c] # "failed"
  BY DEF Init
<1> QED BY <1>1 DEF StateInv, HeadInv, Progressing, Asking, Relayed, Over, Owes, Releasing, Failed,
      PlainPlaces, Signals, None, RequestComplete

\* An ending is a final state, so the slot that looks again stops listening.
LEMMA EndedIsFinal ==
  ASSUME IInv, EndInv, StateInv, Ended
  PROVE  Final(ns)
<1>1. CASE Failed > 0
  BY <1>1 DEF StateInv, Final
<1>2. CASE ~(Failed > 0)
  <2>1. Failed = 0 /\ Completed > 0 /\ Completed \in Nat
    BY <1>2, CountsTyped DEF Ended, IInv
  <2>2. method # Connect
    BY <2>1 DEF EndInv, EndingsInv, One
  <2>3. pc["main"] = "done"
    BY <2>1, <2>2 DEF EndInv, EndingsInv, One
  <2>4. ns = ResponseComplete
    BY <2>1, <2>2, <2>3 DEF StateInv, Relayed, Over
  <2> QED BY <2>4 DEF Final
<1> QED BY <1>1, <1>2

--------------------------------------------------------------------------------
\* The row's side.

\* Signals are only ever raised.
LEMMA RaisedGrows ==
  ASSUME TypeOK, [Next]_vars
  PROVE  raised' \in [Signals -> Nat] /\ \A s \in Signals : raised'[s] >= raised[s]
<1>t. raised \in [Signals -> Nat]
  BY DEF TypeOK
<1>1. ASSUME NEW S, Raise(S)
      PROVE  raised' \in [Signals -> Nat] /\ \A s \in Signals : raised'[s] >= raised[s]
  BY <1>t, <1>1 DEF Raise
<1>2. CASE raised' = raised
  BY <1>t, <1>2
<1>3. raised' = raised \/ \E S : Raise(S)
  <2>1. CASE MainStep
    <3>1. CASE OnClientRequestRead \/ OnRemoteResponseRead
      BY <3>1, HandlersNotify DEF Notify, notif
    <3>2. CASE ~OnClientRequestRead /\ ~OnRemoteResponseRead
      BY <2>1, <3>2 DEF MainStep, Begin, ReadClientRequest, OnRemoteOpened, OnRequestSent,
         SendClientRequestToRemote, ReadRemoteResponse, SendRemoteResponseToClient,
         OnResponseSent, SendConnectReply, OnConnectReplySent, StartUp, StartDown, LockedStart,
         ReadForTunnel, notif
    <3> QED BY <3>1, <3>2
  <2>2. ASSUME NEW c \in Chains, EndingStep(c) PROVE raised' = raised \/ \E S : Raise(S)
    BY <2>2 DEF EndingStep, AcquireForRelease, CloseConnections, ResetPointers, RecordFailure,
       ReportFailure, ReportCompletion, notif
  <2>3. ASSUME NEW c \in Directions, TunnelStep(c) PROVE raised' = raised
    BY <2>3 DEF TunnelStep, OnTunnelRead, Forward, OnTunnelWritten, Loop, ReadForTunnel, notif
  <2>4. ASSUME NEW c \in Chains, NetworkCompletes(c) PROVE raised' = raised
    BY <2>4 DEF NetworkCompletes, ReadCompletes, WriteSome, OpenCompletes, OperationFails,
       notif
  <2>5. ASSUME NEW e \in Ends, CallerReturns(e) PROVE raised' = raised
    BY <2>5 DEF CallerReturns, notif
  <2>6. CASE UNCHANGED vars
    BY <2>6 DEF vars, notif
  <2> QED BY <2>1, <2>2, <2>3, <2>4, <2>5, <2>6 DEF Next, Finished
<1> QED BY <1>1, <1>2, <1>3

\* The calls a step queues: none exactly when no signal the row listens to is raised.
LEMMA RaisesCounts ==
  /\ Raises \in Nat
  /\ Raises = 0 <=> \A i \in DOMAIN Listened : ~(raised'[Listened[i]] > raised[Listened[i]])
<1> DEFINE new == { i \in DOMAIN Listened : raised'[Listened[i]] > raised[Listened[i]] }
<1>1. DOMAIN Listened = 1 .. 6
  BY DEF Listened
<1>2. IsFiniteSet(1 .. 6)
  <2>1. 1 \in Int /\ 6 \in Int
    OBVIOUS
  <2> QED BY ONLY <2>1, FS_Interval, Zenon
<1>3. IsFiniteSet(new)
  BY <1>1, <1>2, FS_Subset
<1>4. Cardinality(new) \in Nat /\ (Cardinality(new) = 0 <=> new = {})
  BY <1>3, FS_CardinalityType, FS_EmptySet
<1> QED BY <1>4 DEF Raises

\* A step of the transaction queues a call, or tells the row nothing new.
LEMMA TransactionView ==
  ASSUME TypeOK, HeadInv, HeadInv', [Next]_vars, Told => Visible' = Visible,
         EndInv, StateInv, ViewInv, TransactionStep
  PROVE  ViewInv'
<1>t. raised \in [Signals -> Nat] /\ raised' \in [Signals -> Nat]
      /\ \A s \in Signals : raised'[s] >= raised[s]
  BY RaisedGrows DEF TypeOK
<1>l. \A i \in DOMAIN Listened : Listened[i] \in Signals
  BY DEF Listened, Signals
<1>1. Told => Told'
  BY <1>t, <1>l DEF Told
<1>2. /\ UNCHANGED << connected, viewing, shown >>
      /\ updates' = updates + (IF connected THEN Raises ELSE 0)
      /\ updates \in Nat /\ updates' \in Nat /\ updates' >= updates
  BY RaisesCounts DEF TransactionStep, ViewInv
<1>3. CASE ~connected
  <2>1. Told
    BY <1>3 DEF ViewInv
  <2> QED BY <1>1, <1>2, <1>3, <2>1 DEF ViewInv
<1>4. CASE connected /\ Raises = 0
  <2>1. \A i \in DOMAIN Listened : raised'[Listened[i]] = raised[Listened[i]]
    BY <1>t, <1>l, <1>4, RaisesCounts
  <2>2. (Told' => Told) /\ (Ended' => Ended)
    <3>1. Told' => Told
      BY <2>1 DEF Told
    <3>2. Failed' = Failed /\ Completed' = Completed
      BY <2>1 DEF Listened, Failed, Completed
    <3> QED BY <3>1, <3>2 DEF Ended
  <2> QED BY <1>1, <1>2, <1>4, <2>2 DEF ViewInv
<1>5. CASE connected /\ Raises # 0
  <2>1. updates' > 0
    BY <1>2, <1>5, RaisesCounts
  <2>2. PICK i \in DOMAIN Listened : raised'[Listened[i]] > raised[Listened[i]]
    BY <1>5, RaisesCounts
  <2>3. Told'
    BY <1>t, <1>l, <2>2 DEF Told
  <2> QED BY <1>2, <2>1, <2>3 DEF ViewInv
<1> QED BY <1>3, <1>4, <1>5

\* The slot's own two steps: the refresh, and the look at the state after it.
LEMMA SlotView ==
  ASSUME IInv, EndInv, StateInv, ViewInv, Refresh \/ Unsubscribe
  PROVE  ViewInv'
<1>1. Visible' = Visible /\ (Told' <=> Told) /\ (Ended' <=> Ended)
  BY DEF Refresh, Unsubscribe, vars, parse, notif, Visible, Told, Ended, Failed, Completed
<1>2. CASE Refresh
  BY <1>1, <1>2 DEF Refresh, ViewInv
<1>3. CASE Unsubscribe
  BY <1>1, <1>3, EndedIsFinal DEF Unsubscribe, ViewInv
<1> QED BY <1>2, <1>3

RowInv == StateInv /\ HeadInv /\ ViewInv

\* Every step of the two threads keeps what the row rests on.
LEMMA StepRow == IInv /\ EndInv /\ ProgressInv /\ RowInv /\ [ModelNext]_modelVars => RowInv'
<1> SUFFICES ASSUME IInv, EndInv, ProgressInv, RowInv, [ModelNext]_modelVars PROVE RowInv'
  OBVIOUS
<1>1. [Next]_vars
  BY DEF ModelNext, TransactionStep, Refresh, Unsubscribe, modelVars
<1>2. StateInv' /\ HeadInv' /\ (Told => Visible' = Visible)
  BY <1>1, StepState DEF RowInv
<1>3. CASE TransactionStep
  BY <1>1, <1>2, <1>3, TransactionView DEF RowInv, IInv
<1>4. CASE Refresh \/ Unsubscribe
  BY <1>2, <1>4, SlotView DEF RowInv
<1>5. CASE UNCHANGED modelVars
  <2>1. ViewInv'
    BY <1>5 DEF modelVars, view, vars, parse, notif, Visible, Told, Ended, Failed, Completed,
       RowInv, ViewInv
  <2> QED BY <1>2, <2>1 DEF RowInv
<1> QED BY <1>3, <1>4, <1>5 DEF ModelNext

\* A row that has just been connected has nothing to show and nothing to do.
LEMMA InitRow == ModelInit => RowInv
<1> SUFFICES ASSUME ModelInit PROVE RowInv
  OBVIOUS
<1>1. StateInv /\ HeadInv
  BY InitState DEF ModelInit
<1>2. ~Told /\ ~Ended
  BY DEF ModelInit, Init, Told, Ended, Listened, Failed, Completed, Signals
<1> QED BY <1>1, <1>2 DEF ModelInit, RowInv, ViewInv

\* The window never interferes: under the model a transaction runs as it does alone,
\* so all that is proved of one holds here.
THEOREM TransactionRunsAsBefore == ModelSpec => Spec
<1>1. ModelInit => Init
  BY DEF ModelInit
<1>2. [ModelNext]_modelVars => [Next]_vars
  BY DEF ModelNext, TransactionStep, Refresh, Unsubscribe, modelVars
<1> QED BY <1>1, <1>2, PTL DEF ModelSpec, Spec

\* What the row rests on holds in every state of the two threads.
THEOREM RowInvariant == ModelSpec => []RowInv
  BY TransactionRunsAsBefore, Invariant, EndsInvariant, ProgressInvariant, InitRow, StepRow, PTL
     DEF ModelSpec

\* An exchange that is over has told its row.
LEMMA SettledIsEnded ==
  ASSUME IInv, EndInv, RowInv, Settled
  PROVE  Ended /\ Told
<1>1. Ended
  <2>1. CASE method # Connect
    <3>1. pc["main"] = "done"
      BY <2>1 DEF Settled, AllStopped, Stopped, IInv, ControlInv, PlacesInv, MainPlaces, EndPlaces,
         Releasing
    <3> QED BY <2>1, <3>1 DEF EndInv, EndingsInv, One, Ended
  <2>2. CASE method = Connect
    BY <2>2 DEF Settled, Ended, Failed
  <2> QED BY <2>1, <2>2
<1>2. Told
  BY <1>1 DEF Ended, Told, Listened, Failed, Completed
<1> QED BY <1>1, <1>2

\* However the slot and the workers interleave, the row ends up with what its
\* transaction has to show (TransactionModel::transactionUpdated).
THEOREM RowsSettle == ModelSpec => []RowSettles
<1>1. IInv /\ EndInv /\ RowInv => RowSettles
  BY SettledIsEnded DEF RowSettles, RowInv, ViewInv, Settled
<1> QED BY <1>1, TransactionRunsAsBefore, Invariant, EndsInvariant, RowInvariant, PTL

\* And the row listens to a transaction that is over no more.
THEOREM RowsUnsubscribe == ModelSpec => []RowUnsubscribes
<1>1. IInv /\ EndInv /\ RowInv => RowUnsubscribes
  BY SettledIsEnded DEF RowUnsubscribes, RowInv, ViewInv, Settled
<1> QED BY <1>1, TransactionRunsAsBefore, Invariant, EndsInvariant, RowInvariant, PTL

====

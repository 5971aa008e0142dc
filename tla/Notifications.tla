----------------------------- MODULE Notifications -----------------------------
(***************************************************************************)
(* The states a Transaction reports (enum NotificationState), the phases   *)
(* the HTTP parser reports (enum ParsePhase), and which Qt signals moving  *)
(* from one to the next raises.  Constant-level: no variables.             *)
(***************************************************************************)
EXTENDS Naturals

\* enum class NotificationState; the code compares states by their number.
None             == 0
RequestLine      == 1
RequestHeaders   == 2
RequestBody      == 3
RequestComplete  == 4
ResponseHeaders  == 5
ResponseBody     == 6
ResponseComplete == 7
TLSTunnel        == 8
Error            == 9

NotificationState == None .. Error

\* enum class ParsePhase.
Start               == 0
ReceivedMessageLine == 1
ReceivedHeaders     == 2
ReceivedBody        == 3
ReceivedFullMessage == 4

ParsePhase == Start .. ReceivedFullMessage

Signals == { "on_transaction_start", "on_request_read",
             "on_response_headers_read", "on_response_read",
             "on_transaction_complete", "on_transaction_failed" }

--------------------------------------------------------------------------------
\* do_notification advances one state at a time, and its switch is over the
\* state that is being left, not the one that is entered.
RaisedOnLeaving ==
  { << RequestComplete,  "on_request_read" >>,
    << ResponseHeaders,  "on_response_headers_read" >>,
    << ResponseComplete, "on_response_read" >>,
    << ResponseComplete, "on_transaction_complete" >> }

\* do_notification(target), called in state ns: the state it stops in, and
\* the signals it has raised by then (each state is left at most once).
Advanced(ns, target) == IF ns < target THEN target ELSE ns

Raised(ns, target) ==
  { s \in Signals : \E n \in ns .. (target - 1) : << n, s >> \in RaisedOnLeaving }

\* notify_phase_change(phase), called in state ns: the state it asks
\* do_notification for.  One parser serves both messages, so ns tells the
\* request's phases from the response's; a response line is not reported.
RequestStates  == << RequestLine, RequestHeaders, RequestBody, RequestComplete >>
ResponseStates == << None, ResponseHeaders, ResponseBody, ResponseComplete >>

PhaseTarget(ns, phase) ==
  IF ns < RequestComplete THEN RequestStates[phase] ELSE ResponseStates[phase]

--------------------------------------------------------------------------------
\* What parsing one buffer can report to the read handlers: the phases it
\* passes one after another, each in a call of parse() of its own, and then
\* the verdict that ends the buffer.  The parser stops at ReceivedHeaders
\* (get_phase_for_state_transition knows no later phase) and parse() itself
\* stores ReceivedFullMessage with Valid, so no pass of the loop reports it.
Verdicts == {"Incomplete", "Invalid", "Valid"}

ParseOutcomes(phase) ==
  { o \in [ reached : Start .. ReceivedHeaders, verdict : Verdicts ] :
      /\ o.reached >= phase
      /\ o.verdict = "Valid" => o.reached >= ReceivedMessageLine }

PhaseAfter(o) ==
  IF o.verdict = "Valid" THEN ReceivedFullMessage ELSE o.reached

================================================================================

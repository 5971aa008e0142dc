-------------------------- MODULE TransactionLifecycle --------------------------
(***************************************************************************)
(* What a Transaction promises whoever listens to its signals, with none   *)
(* of its sockets, threads or parsing: it starts once; it reports progress *)
(* only while it holds its connections, in order and at most once; it      *)
(* reports an ending only when it has let go of them; and every failure it *)
(* reports is followed by a completion.                                    *)
(***************************************************************************)
EXTENDS Notifications

VARIABLES held,    \* the transaction still owns connections
          raised   \* how often each signal has been raised

vars == << held, raised >>

TypeOK == /\ held \in BOOLEAN
          /\ raised \in [Signals -> Nat]

Started  == raised["on_transaction_start"] = 1
Failures == raised["on_transaction_failed"]
Endings  == raised["on_transaction_complete"]

Raise(S) == raised' = [ s \in Signals |-> raised[s] + IF s \in S THEN 1 ELSE 0 ]

--------------------------------------------------------------------------------
Init == /\ held = TRUE
        /\ raised = [ s \in Signals |-> 0 ]

Begin == /\ held
         /\ ~Started
         /\ Raise({"on_transaction_start"})
         /\ UNCHANGED held

\* One buffer of the response may take the transaction past both reports.
Progress(S) ==
  /\ held
  /\ Started
  /\ \A s \in S : raised[s] = 0
  /\ "on_response_headers_read" \in S =>
       "on_request_read" \in S \/ raised["on_request_read"] = 1
  /\ Raise(S)
  /\ UNCHANGED held

Release == /\ held
           /\ Started
           /\ held' = FALSE
           /\ UNCHANGED raised

Fail == /\ ~held
        /\ Failures < 2
        /\ Endings <= Failures
        /\ Raise({"on_transaction_failed"})
        /\ UNCHANGED held

Complete == /\ ~held
            /\ Endings < Failures \/ (Failures = 0 /\ Endings = 0)
            /\ Raise({"on_transaction_complete"})
            /\ UNCHANGED held

Next == \/ Begin
        \/ \E S \in (SUBSET {"on_request_read", "on_response_headers_read"}) \ {{}} :
             Progress(S)
        \/ Release
        \/ Fail
        \/ Complete

\* A completion that is owed to a reported failure is eventually reported.
Spec == /\ Init
        /\ [][Next]_vars
        /\ WF_vars(Complete /\ Endings < Failures)

================================================================================

----------------------------- MODULE TransactionModel -----------------------------
(***************************************************************************)
(* One row of TransactionModel, the table of the window, while its         *)
(* transaction runs: the composition of Transaction, whose chains run on   *)
(* the workers, with the slot transactionUpdated, which the GUI thread     *)
(* runs later for each signal that was raised.  Which row a call finds is  *)
(* the subject of module Server.                                           *)
(***************************************************************************)
EXTENDS Transaction, FiniteSets

VARIABLES
  updates,     \* calls of transactionUpdated queued for the GUI thread
  connected,   \* the row is connected to its transaction
  viewing,     \* where the GUI thread is in transactionUpdated
  shown        \* what the row showed when it was last refreshed

view      == << updates, connected, viewing, shown >>
modelVars == << vars, view >>

\* The signals transactionStarted connects, one of them twice.
ListenedUntilRead == << "on_response_headers_read", "on_request_read",
                        "on_response_headers_read", "on_response_read" >>
Listened == << "on_response_headers_read", "on_request_read",
               "on_response_headers_read", "on_response_read",
               "on_transaction_failed", "on_transaction_complete" >>

\* data(): method and uri of the request; status and message of the response.
Visible == [ request  |-> request_parse_phase >= ReceivedMessageLine,
             response |-> response_parse_phase >= ReceivedMessageLine ]

\* transactionStarted runs before begin().
ModelInit == /\ Init
             /\ updates = 0
             /\ connected = TRUE
             /\ viewing = "idle"
             /\ shown = [ request |-> FALSE, response |-> FALSE ]

\* A step of the transaction queues a call for each connection of each signal.
Raises == Cardinality({ i \in DOMAIN Listened :
                         raised'[Listened[i]] > raised[Listened[i]] })

TransactionStep == /\ Next
                   /\ updates' = updates + (IF connected THEN Raises ELSE 0)
                   /\ UNCHANGED << connected, viewing, shown >>

\* transactionUpdated(tx): refresh the row, then look at tx->state() once more.
\* It is the GUI thread that called begin(): it has returned from there first.
Refresh == /\ viewing = "idle" /\ updates > 0 /\ ~lent["client"]
           /\ updates' = updates - 1
           /\ shown' = Visible
           /\ viewing' = "refreshed"
           /\ UNCHANGED << vars, connected >>

FinalUnlessFailed(state) == state = ResponseComplete
Final(state) == state \in {Error, ResponseComplete}

Unsubscribe == /\ viewing = "refreshed"
               /\ viewing' = "idle"
               /\ connected' = (connected /\ ~Final(ns))
               /\ UNCHANGED << vars, updates, shown >>

ModelNext == TransactionStep \/ Refresh \/ Unsubscribe
ModelSpec == ModelInit /\ [][ModelNext]_modelVars
HandlerModelSpec == ModelSpec /\ HandlerFairness

--------------------------------------------------------------------------------
\* Both threads are done, and the transaction is one that tells its listeners
\* of its end: a tunnel that ends by an end of file alone raises no signal.
Settled == /\ AllStopped /\ updates = 0 /\ viewing = "idle"
           /\ method # Connect \/ raised["on_transaction_failed"] > 0

\* Whatever the slot saw of a transaction that went on in the meantime, and
\* although it stops listening at a state that is newer than the signal it
\* handles, the row ends up with what the transaction has to show.
RowSettles == Settled => shown = Visible

\* Then the model listens no more: on the way the slot has seen a final state.
RowUnsubscribes == Settled => ~connected

================================================================================

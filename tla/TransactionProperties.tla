-------------------------- MODULE TransactionProperties --------------------------
(***************************************************************************)
(* What class Transaction has to get right, over the states of             *)
(* Transaction.  The model checker checks these on small instances, and    *)
(* TransactionProofs proves the invariants for all of them.                *)
(***************************************************************************)
EXTENDS Transaction

\* Every variable has the shape its declaration in Transaction.h gives it.
TypeOK ==
  /\ pc \in [Chains -> Places]
  /\ ret \in [Chains -> {"fail", "complete", "done"}]
  /\ err \in [Chains -> Failures \cup {NoError}]
  /\ mutex \in Chains \cup {Free}
  /\ seen \in [Chains -> SUBSET Ends]
  /\ ptr \in [Ends -> BOOLEAN]
  /\ lent \in [Ends -> BOOLEAN]
  /\ sock \in [Ends -> BOOLEAN]
  /\ open \in [Ends -> BOOLEAN]
  /\ op \in [Chains -> Op]
  /\ ns \in NotificationState
  /\ error \in Failures \cup {NoError}
  /\ raised \in [Signals -> Nat]
  /\ method \in Methods
  /\ request_parse_phase \in ParsePhase
  /\ response_parse_phase \in ParsePhase
  /\ reads \in [Streams -> Nat]
  /\ buffer \in [Buffers -> Seq(Byte)]
  /\ raw_input \in Seq(Byte)
  /\ delivered \in [Ends -> Seq(Byte)]

Transfers(c)  == op[c].kind \in {"read", "write"}
Bytes(s, n)   == [ i \in 1 .. n |-> << s, i >> ]
TimesRaised(s) == raised[s]
Endings       == raised["on_transaction_complete"] + raised["on_transaction_failed"]

--------------------------------------------------------------------------------
\* Invariants.

\* The functions that check the pointers with mutex_ held call notify_failure
\* from there, and notify_failure takes mutex_ again.  No chain ever does: on
\* the paths that lead to those checks the pointers are not null.
NoSelfDeadlock == \A c \in Chains : pc[c] = "release" => mutex # c

\* "Used to guard against double-releasing connections" (Transaction.h): while
\* one chain closes and resets the connections it found, no other chain resets
\* them under its feet.
NoDoubleRelease ==
  \A c \in Chains :
    pc[c] \in {"closing", "resetting"} => seen[c] = { e \in Ends : ptr[e] }

\* Two chains never work on one buffer, nor have two reads or two writes
\* outstanding on one socket: bytes of the two directions of a tunnel, or of
\* two writes, would be mixed.  remote_buffer_ exists for this.
ChainsShareNothing ==
  \A c, d \in Chains :
    c # d /\ Transfers(c) /\ Transfers(d) =>
      /\ op[c].buf = op[d].buf => op[c].buf = "own"
      /\ << op[c].kind, op[c].end >> # << op[d].kind, op[d].end >>

\* An operation never waits on a closed socket: whoever closes a socket, by
\* close() or by dropping the last pointer to it, wakes the handlers.
NoStrandedOperation ==
  \A c \in Chains : Pending(c) /\ Transfers(c) => sock[op[c].end]

\* When no handler is left to run, nothing keeps a connection but the function
\* that handed it over, until it returns: whichever chain ended first, however
\* the two directions of a tunnel raced.
NothingLeaks == AllStopped => \A e \in Ends : ~ptr[e] /\ (sock[e] => lent[e])

\* Each direction of a tunnel delivers what it read, in order, without loss or
\* repetition, up to a point in the read it is working on: wherever a write was
\* cut off, nothing is delivered after the gap.
TunnelInOrder ==
  method = Connect =>
    \A c \in Directions :
      \E k \in reads[c] - Len(buffer[TunnelBuffer(c)]) .. reads[c] :
        delivered[Sink(c)] = Bytes(c, k)

\* What a client of plain HTTP gets is the response from its first byte on, in
\* order and without repetition, wherever the write of it is cut off, and its
\* request is never echoed into it; a transaction that completes without a
\* failure has relayed every byte it read.
ResponseRelayed ==
  method # Connect =>
    /\ delivered["remote"] = << >>
    /\ \E n \in 0 .. reads["response"] : delivered["client"] = Bytes("response", n)
    /\ Endings = 1 /\ AllStopped =>
         reads["response"] > 0 /\ Len(delivered["client"]) = reads["response"]

\* How a transaction ends, for its listeners: a plain exchange completes exactly
\* once and fails at most once; a tunnel completes once for each failure it
\* reports, and reports none when it ends by an end of file alone.
EveryEndingReported ==
  AllStopped =>
    IF method = Connect
      THEN TimesRaised("on_transaction_complete") = TimesRaised("on_transaction_failed")
      ELSE /\ TimesRaised("on_transaction_complete") = 1
           /\ TimesRaised("on_transaction_failed") <= 1

--------------------------------------------------------------------------------
\* Action properties.

\* A failure or a completion is reported only when the transaction has let go of
\* both connections and closed their sockets, so that a listener may forget it.
\* One exception is what the code allows: where close() found open_ FALSE and the
\* function that handed the connection over has yet to return, that function
\* holds the last reference and the socket outlives the report.
ReleasedBeforeReported ==
  [][ Endings' > Endings =>
        \A e \in Ends : ~ptr[e] /\ ~open[e] /\ (sock[e] => lent[e]) ]_vars

\* state() never goes back, so a listener that misses a step can catch up: the
\* parser's phases, notify_failure and the two directions never undo another.
StateAdvances == [][ ns' >= ns ]_vars

--------------------------------------------------------------------------------
\* Liveness, and what the signals promise as a whole.

\* Once a chain has dropped the connections the others stop by themselves: no
\* direction of a tunnel is left waiting for a peer, not even on a socket that
\* outlives the release.
Drains == ~ptr["client"] ~> AllStopped

\* If every operation ends, the transaction ends.
Finishes == NetworkFairness => <> AllStopped

\* The transaction implements the lifecycle its listeners rely on.
Lifecycle == INSTANCE TransactionLifecycle
               WITH held <- ptr["client"], raised <- raised
ImplementsLifecycle == Lifecycle!Spec

--------------------------------------------------------------------------------
\* What the source says of the code and the code does not do.

\* "Failed to establish a remote tunnel, so fail." (Transaction.cpp:506): a
\* transaction that reports a failure has an error to show for it.
FailureHasError == TimesRaised("on_transaction_failed") > 0 => error # NoError

\* "As response data is parsed, events are emitted." (README.md:92), among them
\* on_response_read (Transaction.cpp:723): an exchange that completes without a
\* failure has raised it.
ResponseReadReported ==
  AllStopped /\ method # Connect /\ TimesRaised("on_transaction_failed") = 0 =>
    TimesRaised("on_response_read") = 1

\* "Response data is relayed to the client as it is received." (README.md:92): a
\* transaction that waits for more of a response has sent the client some of what
\* it has read, or is writing it.
RelayedAsReceived ==
  pc["main"] = "reading_response" /\ Pending("main") /\ reads["response"] > 0 =>
    \/ delivered["client"] # << >>
    \/ \E c \in Chains : op[c].kind = "write" /\ op[c].end = "client"

\* "finish abnormally." (Transaction.cpp:534, 589): a tunnel read that ends in
\* an error other than an end of file reports a failure.
TunnelErrorsReported ==
  [][ \A c \in Directions :
        OnTunnelRead(c) /\ op[c].result = "error" => ret'[c] = "fail" ]_vars

================================================================================

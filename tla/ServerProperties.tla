------------------------------ MODULE ServerProperties ------------------------------
(***************************************************************************)
(* What Server, Proxy and TransactionModel have to get right together,     *)
(* over the states of Server.                                              *)
(***************************************************************************)
EXTENDS Server

\* Every variable has the shape its declaration gives it.
TypeOK ==
  /\ gui \in Serving \cup Ending
  /\ starting \in Clients \cup {NoClient}
  /\ heard \in BOOLEAN
  /\ posted \in Seq(Events)
  /\ unheard \subseteq Clients
  /\ missed \in BOOLEAN
  /\ next_id_ \in 1 .. (Cardinality(Clients) + 1)
  /\ owner \in [Clients -> Ids \cup {0}]
  /\ rows \in Seq(Ids)
  /\ tx \in [Ids -> {"none", "waiting", "ready", "running", "over", "abandoned"}]
  /\ updates \in [Ids -> 0 .. MaxUpdates]
  /\ client \in [Clients -> {"away", "backlog", "accepted", "reset"}]
  /\ acceptor \in BOOLEAN
  /\ accept \in {"none", "pending", "ok", "error"}
  /\ socket_ \in Clients \cup {NoClient}
  /\ failed \in BOOLEAN
  /\ signal \in {"none", "pending", "ready"}
  /\ stopped \in BOOLEAN
  /\ worker \in [Workers -> {"idle", "exited"} \cup InHandler]
  /\ job \in [Workers -> Ids \cup {0}]

--------------------------------------------------------------------------------
\* Invariants.

\* The server accepts into its one member socket_, from whichever worker runs
\* the handler: at most one accept is ever outstanding or being handled, and
\* as long as the acceptor is open and no accept has failed there is one.
AcceptUsers == Cardinality({ w \in Workers :
                              worker[w] \in {"accepted", "refused", "make", "arm"} })
               + IF accept = "none" THEN 0 ELSE 1
OneAcceptChain ==
  gui # "destroyed" /\ gui # "gone" =>
    /\ AcceptUsers <= 1
    /\ acceptor /\ ~failed => AcceptUsers = 1

\* A client that was accepted is in one place: in socket_, on its way to the
\* GUI thread, in the hands of on_client_connected, or with its transaction.
Posted(c) == { i \in DOMAIN posted : posted[i] = ClientEvent(c) }
EveryClientAccounted ==
  gui # "destroyed" /\ gui # "gone" =>
    \A c \in Clients :
      client[c] = "accepted" =>
        Cardinality(Posted(c))
        + Cardinality({ p \in {"socket", "proxy", "nobody"} :
                          \/ p = "socket" /\ socket_ = c
                          \/ p = "proxy"  /\ (starting = c \/ owner[c] # 0)
                          \/ p = "nobody" /\ c \in unheard }) = 1

\* Although the server accepts from its constructor on, before Proxy::init, no
\* client is announced while nobody listens, and no transaction raises a signal
\* before TransactionModel is connected to it.
NothingUnheard == unheard = {} /\ ~missed

\* std::lower_bound, halving a span of the rows: r[2] of them from r[1] on.
Spans == { r \in (1 .. (Len(rows) + 1)) \X (0 .. Len(rows)) : r[1] + r[2] <= Len(rows) + 1 }

LowerBound(id) ==
  LET f[r \in Spans] ==
        IF r[2] = 0 THEN r[1]
        ELSE LET half == r[2] \div 2
             IN  IF rows[r[1] + half] < id THEN f[<< r[1] + half + 1, r[2] - half - 1 >>]
                                           ELSE f[<< r[1], half >>]
  IN  f[<< 1, Len(rows) >>]

\* transactionUpdated looks its row up by a binary search, which needs the rows
\* in ascending order of the ids on_client_connected gives out: every signal
\* that is on its way finds the row of its transaction.
UpdatesFindTheirRow ==
  \A i \in DOMAIN posted :
    posted[i].kind = "update" =>
      LET row == LowerBound(posted[i].id)
      IN  row <= Len(rows) /\ rows[row] = posted[i].id

\* No worker is left in a handler, or will ever take one, when the io_context
\* and the sockets of the server go.  It is about the workers only.
JoinedBeforeDestroyed ==
  gui \in {"destroy", "destroyed", "gone"} => \A w \in Workers : worker[w] = "exited"

--------------------------------------------------------------------------------
\* Liveness.

\* Closing the window ends the program's threads, whatever they are doing.
ShutdownEnds == gui = "deinit" ~> gui = "gone"

\* A client in the backlog gets its transaction, unless an accept fails, the
\* acceptor is closed by a signal, or the application quits.
ClientsServed ==
  \A c \in Clients :
    client[c] = "backlog" ~> owner[c] # 0 \/ failed \/ ~acceptor \/ gui \in Ending

================================================================================

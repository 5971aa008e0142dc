---------------------------------- MODULE Server ----------------------------------
(***************************************************************************)
(* The life of the proxy service: Server accepts clients on the workers of *)
(* its io_context, ConnectionPool hands each to the GUI thread as a queued *)
(* event, Proxy makes a transaction of it there and TransactionModel a     *)
(* row, and the window's destructor takes all of it down.                  *)
(*                                                                         *)
(* Threads: the GUI thread (gui names the code it is in) and the workers.  *)
(* A transaction is one handler at a time here; its own handlers are the   *)
(* subject of module Transaction.                                          *)
(***************************************************************************)
EXTENDS Naturals, Sequences, FiniteSets

CONSTANTS Clients,     \* clients that may connect
          NoClient,    \* none of them
          Workers,     \* threads in workers_
          MaxUpdates   \* bound: signals one transaction raises

ASSUME ClientsAssumption    == IsFiniteSet(Clients) /\ NoClient \notin Clients
ASSUME WorkersAssumption    == IsFiniteSet(Workers) /\ Workers # {}
ASSUME MaxUpdatesAssumption == MaxUpdates \in Nat

Ids == 1 .. Cardinality(Clients)

VARIABLES
  gui, starting,     \* the GUI thread; the client it makes a transaction for
  heard,             \* Proxy::on_client_connected is connected
  posted,            \* the events queued for the GUI thread
  unheard, missed,   \* clients, and signals, nobody was connected for
  next_id_, owner,   \* the transaction of each client, 0 before it has one
  rows,              \* TransactionModel::transactions_, by id
  tx, updates,       \* what each transaction does; the signals it has raised
  client,            \* each client, as the kernel sees it
  acceptor,          \* acceptor_.is_open()
  accept, socket_,   \* the outstanding async_accept, and where it accepts to
  failed,            \* an accept has failed
  signal,            \* the outstanding signals_.async_wait
  stopped,           \* io_context_ is stopped
  worker, job        \* what each worker runs, and for which transaction

guiVars    == << gui, starting, heard >>
queue      == << posted, unheard, missed >>
model      == << next_id_, owner, rows >>
txVars     == << tx, updates >>
acceptVars == << client, acceptor, accept, socket_, failed >>
context    == << signal, stopped, worker, job >>
vars       == << guiVars, queue, model, txVars, acceptVars, context >>

ClientEvent(c)  == [ kind |-> "client", client |-> c, id |-> 0 ]
UpdateEvent(id) == [ kind |-> "update", client |-> NoClient, id |-> id ]
Events == { ClientEvent(c) : c \in Clients } \cup { UpdateEvent(id) : id \in Ids }

Serving == {"constructing", "loop", "create", "emit", "begin"}
Ending  == {"deinit", "clear", "close", "stop", "join", "destroy",
            "destroyed", "gone"}

InHandler == {"accepted", "refused", "make", "arm", "signal", "run"}

\* The constructors, up to the end of Server's: it accepts, and its workers run.
Init ==
  /\ gui = "constructing" /\ starting = NoClient /\ heard = FALSE
  /\ posted = << >> /\ unheard = {} /\ missed = FALSE
  /\ next_id_ = 1 /\ owner = [ c \in Clients |-> 0 ] /\ rows = << >>
  /\ tx = [ id \in Ids |-> "none" ] /\ updates = [ id \in Ids |-> 0 ]
  /\ client = [ c \in Clients |-> "away" ]
  /\ acceptor = TRUE /\ accept = "pending" /\ socket_ = NoClient /\ failed = FALSE
  /\ signal = "pending" /\ stopped = FALSE
  /\ worker = [ w \in Workers |-> "idle" ] /\ job = [ w \in Workers |-> 0 ]

--------------------------------------------------------------------------------
\* The network, and the operating system.

Connects(c) ==
  /\ client[c] = "away" /\ acceptor
  /\ client' = [ client EXCEPT ![c] = "backlog" ]
  /\ UNCHANGED << guiVars, queue, model, txVars, acceptor, accept, socket_, failed, context >>

AcceptCompletes ==
  /\ accept = "pending"
  /\ \E c \in Clients :
       /\ client[c] = "backlog"
       /\ client' = [ client EXCEPT ![c] = "accepted" ]
       /\ socket_' = c
  /\ accept' = "ok"
  /\ UNCHANGED << guiVars, queue, model, txVars, acceptor, failed, context >>

AcceptFails ==
  /\ accept = "pending"
  /\ accept' = "error"
  /\ failed' = TRUE
  /\ UNCHANGED << guiVars, queue, model, txVars, client, acceptor, socket_, context >>

OperationEnds(id) ==
  /\ tx[id] = "waiting"
  /\ tx' = [ tx EXCEPT ![id] = "ready" ]
  /\ UNCHANGED << guiVars, queue, model, updates, acceptVars, context >>

\* SIGINT, SIGTERM or SIGQUIT, while signals_ has them.
SignalArrives ==
  /\ signal = "pending"
  /\ gui \in Serving \cup {"deinit", "clear"}
  /\ signal' = "ready"
  /\ UNCHANGED << guiVars, queue, model, txVars, acceptVars, stopped, worker, job >>

--------------------------------------------------------------------------------
\* The workers.  io_context::run returns when the context is stopped, and the
\* context stops by itself when nothing is outstanding: no work_guard keeps it.

Outstanding == \/ accept # "none"
               \/ signal # "none"
               \/ \E id \in Ids : tx[id] \in {"waiting", "ready"}
               \/ \E w \in Workers : worker[w] \in InHandler

Takes(w, place) == /\ worker[w] = "idle" /\ ~stopped
                   /\ worker' = [ worker EXCEPT ![w] = place ]
                   /\ UNCHANGED << stopped, guiVars, queue, model >>

Handles(w, place) == worker[w] = place

Continues(w, place) == /\ worker' = [ worker EXCEPT ![w] = place ]
                       /\ UNCHANGED << signal, stopped, job >>

\* The handler returns (to be the last conjunct of an action).
Returns(w) == /\ worker' = [ worker EXCEPT ![w] = "idle" ]
              /\ job' = [ job EXCEPT ![w] = 0 ]
              /\ stopped' = (stopped \/ ~Outstanding')

TakeAccept(w) ==
  /\ accept \in {"ok", "error"}
  /\ Takes(w, IF accept = "ok" THEN "accepted" ELSE "refused")
  /\ accept' = "none"
  /\ UNCHANGED << txVars, client, acceptor, socket_, failed, signal, job >>

\* do_accept's handler.  On a closed acceptor, and on an error, it only logs.
AbandonAccept(w) ==
  /\ Handles(w, "refused") \/ (Handles(w, "accepted") /\ ~acceptor)
  /\ UNCHANGED << guiVars, queue, model, txVars, acceptVars, signal >>
  /\ Returns(w)

Accepted(w) ==
  /\ Handles(w, "accepted") /\ acceptor
  /\ Continues(w, "make")
  /\ UNCHANGED << guiVars, queue, model, txVars, acceptVars >>

\* do_accept().  async_accept refuses a socket that is open.
Armed(socket) == IF acceptor /\ socket = NoClient THEN "pending" ELSE "error"

\* ConnectionPool::make_connection: its receiver lives on the GUI thread, so
\* the signal is queued.
MakeDirectly(w) ==
  /\ Handles(w, "make")
  /\ IF heard THEN posted' = Append(posted, ClientEvent(socket_)) /\ UNCHANGED unheard
              ELSE unheard' = unheard \cup {socket_} /\ UNCHANGED posted
  /\ socket_' = NoClient
  /\ Continues(w, "arm")
  /\ UNCHANGED << guiVars, missed, model, txVars, client, acceptor, accept, failed >>

MakeTwice(w) ==
  /\ Handles(w, "make")
  /\ posted' = posted \o << ClientEvent(socket_), ClientEvent(socket_) >>
  /\ socket_' = NoClient
  /\ Continues(w, "arm")
  /\ UNCHANGED << guiVars, unheard, missed, model, txVars, client, acceptor, accept, failed >>

MakeArmedFirst(w) ==
  /\ Handles(w, "make")
  /\ accept' = Armed(socket_)
  /\ posted' = Append(posted, ClientEvent(socket_))
  /\ socket_' = NoClient
  /\ UNCHANGED << guiVars, unheard, missed, model, txVars, client, acceptor, failed, signal >>
  /\ Returns(w)

MakeConnection(w) ==
  /\ Handles(w, "make")
  /\ posted' = Append(posted, ClientEvent(socket_))
  /\ socket_' = NoClient
  /\ Continues(w, "arm")
  /\ UNCHANGED << guiVars, unheard, missed, model, txVars, client, acceptor, accept, failed >>

AcceptNoMore(w) ==
  /\ Handles(w, "arm")
  /\ UNCHANGED << guiVars, queue, model, txVars, acceptVars, signal >>
  /\ Returns(w)

AcceptNext(w) ==
  /\ Handles(w, "arm")
  /\ accept' = Armed(socket_)
  /\ UNCHANGED << guiVars, queue, model, txVars, client, acceptor, socket_, failed, signal >>
  /\ Returns(w)

\* acceptor_.close(): the kernel resets the clients that were not accepted, and
\* a pending accept ends in an error.
CloseAcceptor ==
  /\ acceptor' = FALSE
  /\ accept' = IF accept = "pending" THEN "error" ELSE accept
  /\ client' = [ c \in Clients |-> IF client[c] = "backlog" THEN "reset" ELSE client[c] ]
  /\ UNCHANGED << socket_, failed >>

TakeSignal(w) ==
  /\ signal = "ready"
  /\ Takes(w, "signal")
  /\ signal' = "none"
  /\ UNCHANGED << txVars, acceptVars, job >>

OnSignal(w) ==
  /\ Handles(w, "signal")
  /\ CloseAcceptor
  /\ UNCHANGED << guiVars, queue, model, txVars, signal >>
  /\ Returns(w)

TakeOperation(w, id) ==
  /\ tx[id] = "ready"
  /\ Takes(w, "run")
  /\ job' = [ job EXCEPT ![w] = id ]
  /\ tx' = [ tx EXCEPT ![id] = "running" ]
  /\ UNCHANGED << updates, acceptVars, signal >>

\* A handler of a transaction: it may raise a signal TransactionModel listens
\* to, and starts the next operation or ends the transaction.
OnOperation(w) ==
  /\ Handles(w, "run")
  /\ LET id == job[w]
     IN  /\ \E next \in {"waiting", "over"} : tx' = [ tx EXCEPT ![id] = next ]
         /\ \/ UNCHANGED << posted, missed, updates >>
            \/ /\ updates[id] < MaxUpdates
               /\ updates' = [ updates EXCEPT ![id] = @ + 1 ]
               /\ IF \E i \in DOMAIN rows : rows[i] = id
                    THEN posted' = Append(posted, UpdateEvent(id)) /\ UNCHANGED missed
                    ELSE missed' = TRUE /\ UNCHANGED posted
  /\ UNCHANGED << guiVars, unheard, model, acceptVars, signal >>
  /\ Returns(w)

LeaveRun(w) ==
  /\ worker[w] = "idle" /\ stopped
  /\ worker' = [ worker EXCEPT ![w] = "exited" ]
  /\ UNCHANGED << guiVars, queue, model, txVars, acceptVars, signal, stopped, job >>

HandlerStep(w) == \/ AbandonAccept(w) \/ Accepted(w) \/ MakeConnection(w)
                  \/ AcceptNext(w) \/ OnSignal(w) \/ OnOperation(w) \/ LeaveRun(w)

WorkerStep(w) == \/ HandlerStep(w) \/ TakeAccept(w) \/ TakeSignal(w)
                 \/ \E id \in Ids : TakeOperation(w, id)

--------------------------------------------------------------------------------
\* The GUI thread.

From(place, to) == /\ gui = place
                   /\ gui' = to

\* MainWindow's constructor ends with Proxy::init(), before the event loop runs.
InitProxy ==
  /\ From("constructing", "loop")
  /\ heard' = TRUE
  /\ UNCHANGED << starting, queue, model, txVars, acceptVars, context >>

\* The event loop.  Server passes a client on to Proxy, if it is connected;
\* TransactionModel::transactionUpdated refreshes a row.
Deliver ==
  /\ gui = "loop" /\ posted # << >>
  /\ posted' = Tail(posted)
  /\ LET e == Head(posted)
     IN  \/ /\ e.kind = "client" /\ heard
            /\ gui' = "create" /\ starting' = e.client
            /\ UNCHANGED unheard
         \/ /\ e.kind = "client" /\ ~heard
            /\ unheard' = unheard \cup {e.client}
            /\ UNCHANGED << gui, starting >>
         \/ /\ e.kind = "update"
            /\ UNCHANGED << gui, starting, unheard >>
  /\ UNCHANGED << heard, missed, model, txVars, acceptVars, context >>

\* Proxy::on_client_connected, in three parts: workers go on in between.
CreateSkippingAnId ==
  /\ From("create", "emit")
  /\ next_id_' = next_id_ + 2
  /\ owner' = [ owner EXCEPT ![starting] = next_id_ ]
  /\ UNCHANGED << starting, heard, queue, rows, txVars, acceptVars, context >>

CreateTransaction ==
  /\ From("create", "emit")
  /\ next_id_' = next_id_ + 1
  /\ owner' = [ owner EXCEPT ![starting] = next_id_ ]
  /\ UNCHANGED << starting, heard, queue, rows, txVars, acceptVars, context >>

\* TransactionModel::transactionStarted.
WithRowOnTop(id) == << id >> \o rows
WithRow(id)      == Append(rows, id)

EmitStarted ==
  /\ From("emit", "begin")
  /\ rows' = WithRow(owner[starting])
  /\ UNCHANGED << starting, heard, queue, next_id_, owner, txVars, acceptVars, context >>

BeginTransaction ==
  /\ From("begin", "loop")
  /\ tx' = [ tx EXCEPT ![owner[starting]] = "waiting" ]
  /\ starting' = NoClient
  /\ UNCHANGED << heard, queue, model, updates, acceptVars, context >>

\* The application quits: the event loop returns and ~MainWindow runs.
Quit ==
  /\ From("loop", "deinit")
  /\ UNCHANGED << starting, heard, queue, model, txVars, acceptVars, context >>

DeinitProxy ==
  /\ From("deinit", "clear")
  /\ heard' = FALSE
  /\ UNCHANGED << starting, queue, model, txVars, acceptVars, context >>

\* ~Server, reached through the destructors of QObject children: the proxy is
\* the window's child, and the server the proxy's.
ClearSignals ==
  /\ From("clear", "close")
  /\ UNCHANGED << starting, heard, queue, model, txVars, acceptVars, context >>

CloseForGood ==
  /\ From("close", "stop")
  /\ CloseAcceptor
  /\ UNCHANGED << starting, heard, queue, model, txVars, context >>

LeaveRunning ==
  /\ From("stop", "join")
  /\ UNCHANGED << starting, heard, queue, model, txVars, acceptVars, context >>

StopContext ==
  /\ From("stop", "join")
  /\ stopped' = TRUE
  /\ UNCHANGED << starting, heard, queue, model, txVars, acceptVars, signal, worker, job >>

Detached == TRUE
Joined   == \A w \in Workers : worker[w] = "exited"

JoinWorkers ==
  /\ From("join", "destroy")
  /\ Joined
  /\ UNCHANGED << starting, heard, queue, model, txVars, acceptVars, context >>

\* The members: io_context_ destroys the handlers that never ran.  The resolver_ of
\* connection_pool_, a child that goes after the members, and the sockets of the
\* transactions that are still listed outlive it; what becomes of them is left out.
DestroyServer ==
  /\ From("destroy", "destroyed")
  /\ accept' = "none" /\ socket_' = NoClient
  /\ signal' = "none"
  /\ tx' = [ id \in Ids |-> IF tx[id] \in {"waiting", "ready"} THEN "abandoned"
                                                             ELSE tx[id] ]
  /\ UNCHANGED << starting, heard, queue, model, updates, client, acceptor, failed,
                  stopped, worker, job >>

\* The next child of the window is the model; the queue goes with its receivers.
DestroyModel ==
  /\ From("destroyed", "gone")
  /\ rows' = << >> /\ posted' = << >>
  /\ UNCHANGED << starting, heard, unheard, missed, next_id_, owner, txVars,
                  acceptVars, context >>

GuiStep == \/ InitProxy \/ Deliver \/ CreateTransaction \/ EmitStarted
           \/ BeginTransaction
           \/ DeinitProxy \/ ClearSignals \/ CloseForGood \/ StopContext
           \/ JoinWorkers \/ DestroyServer \/ DestroyModel

Gone == gui = "gone" /\ UNCHANGED vars

Next == \/ GuiStep \/ Quit \/ Gone
        \/ \E w \in Workers : WorkerStep(w)
        \/ \E c \in Clients : Connects(c)
        \/ \E id \in Ids : OperationEnds(id)
        \/ AcceptCompletes \/ AcceptFails \/ SignalArrives

Spec == Init /\ [][Next]_vars

\* Threads that can run do run; the context takes ready handlers in the order
\* they became ready, so none of them waits for ever for a worker.
FairSpec == /\ Spec
            /\ WF_vars(GuiStep)
            /\ \A w \in Workers : WF_vars(HandlerStep(w))
            /\ SF_vars(\E w \in Workers : TakeAccept(w))
            /\ WF_vars(AcceptCompletes)

================================================================================

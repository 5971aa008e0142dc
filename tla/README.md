# Amanuensis: specification and proofs

Amanuensis is a desktop application that proxies HTTP: a library `core` accepts
clients, parses what they send, relays it, and reports every exchange by Qt
signals to a window that lists them; platform code points the system's proxy
settings at it, on macOS through a privileged helper (`trusty`). This directory
holds TLA+ modules of its core, the TLC configurations that check them, and
proofs about them for TLAPS.

## 1. Inventory

| Component | State | Operations | Talks to |
|---|---|---|---|
| `Transaction` | `client_`, `remote_`, `read_buffer_`, `remote_buffer_`, `raw_input_`, the two parse phases, `notification_state_`, `error_`, `mutex_` | `begin`, the handlers of each read, write and open, `release_connections`, `notify_failure`, `complete_transaction`, `do_notification`, `notify_phase_change` | connections and pool (asynchronous calls), parser (calls), listeners (signals) |
| `HttpMessageParser` | `state_`, `remaining_`, `buffer_`, `value_buffer_`, the caller's phase | `parse` / `consume`, `resetForResponse` | the message it fills |
| `BaseConnection` | `socket_`, `open_` | `async_read`, `async_write`, `close` | asio |
| `ConnectionPool` | `resolver_` | `try_open`, `make_connection` | asio; `client_connected` signal |
| `Server` | `io_context_`, `acceptor_`, `socket_`, `workers_` | constructor, `do_accept`, signal handler, destructor | pool; `connection_established` |
| `Proxy` | `server_`, `next_id_` | `init`, `deinit`, `on_client_connected` | creates transactions; `transactionStarted` |
| `Headers`, `HttpMessage`, `Request`, `Response` | the message | `insert`, `find_by_name`, `names`, `format` | parser, transaction |
| `TransactionModel` | the list of transactions | `transactionStarted`, `transactionUpdated`, `data` | signals of proxy and transactions, on the GUI thread |
| `TransactionFile` | an SQLite database | `addTransaction` | reads transactions |
| `MacProxy`, `WindowsProxy` | the settings to restore, `enabled_` | `enable`, `disable`, constructor and destructor | system settings; the helper |
| `XpcServiceClient`, `XpcServer`, `AuthorizedService`, `TrustyService` | connections, authorizations, system settings under their lock | Hello, get/set/reset of the proxy state | XPC |
| `ObjectPool` | a stack, two counters | `acquire`, `release` | nobody uses it |
| logging, `CFRef`, `Errors` | none to speak of | formatting | |

What is hard here:

* **Threads.** The handlers of a transaction run on the workers of one
  `io_context`. A plain exchange is one chain of handlers, but a tunnel is two,
  which share the connections, `error_`, `notification_state_` and `mutex_`.
  Only some of the accesses are under `mutex_`.
* **Endings.** Any operation may fail at any time, a write also after a part of
  it, the two directions of a tunnel end each other, a connection is closed by
  `close()` or by the drop of its last pointer, which may be in the hands of the
  function that handed the connection over, and `close()` does nothing when the
  uninitialised flag `open_` happens to be down.
* **Locks.** Five functions call `notify_failure`, which takes `mutex_`, while
  they hold `mutex_`.
* **Buffers.** A message is cut into reads anywhere, one parser parses both
  messages, and it stops whenever the phase changes.
* **Two threads of control in the application.** Signals reach the window
  through the queue of the GUI thread; what it reads is newer than the signal.
* **Three processes and the user.** On macOS the application asks a privileged
  helper, which serves connections side by side, asks the user, edits a store
  that System Settings edit as well, and may end at any time, as may the
  application. What is to be restored is only in the application's memory.
* **A file that fails.** A save is a sequence of database transactions, each of
  whose steps may fail, and whose commit may fail and stay open.

What makes each component correct: a *transaction* releases its connections
once, closes what it opened, reports an ending only afterwards, delivers data
in order and without a gap, and stops; the *parser* says of every buffer what the
read handlers rely on, and frames a body as declared; the *server* keeps accepting,
and when it shuts down its workers have left before the context goes; the *model*
shows the last state of each transaction; of the *system's settings*, nothing
points at this proxy once the window is closed, on Windows they are as before,
and on macOS a proxy that was there is named again; the *helper* does for a client
only what it was authorized for. The hazards, each at its line, are listed in
`PROJECT.json`; those that no property covers have a note saying why.

## 2. Modules

| Module | Role |
|---|---|
| `Notifications` | `NotificationState`, `ParsePhase`, which signals `do_notification` raises, what parsing a buffer may report. No variables. |
| `Transaction` | `class Transaction` with its connections and its three chains of handlers. |
| `TransactionLifecycle` | Abstract: what a listener may rely on, with no sockets, threads or parsing. |
| `TransactionProperties` | What is claimed of `Transaction`; the refinement mapping to the lifecycle. |
| `HttpMessageParser` | `consume` a class of characters at a time, under the loop of the read handlers; its properties. |
| `Server` | `Server`, `Proxy`, `ConnectionPool::make_connection`, the list of `TransactionModel`, and the window's destructor: the GUI thread and the workers. |
| `ServerProperties` | What is claimed of `Server`. |
| `TransactionModel` | One row of the window: `Transaction` composed with the slot the GUI thread runs for its signals. |
| `Helper` | The privileged helper with any clients: `XpcServer`, `AuthorizedService`, `TrustyService`, the client's end `XpcServiceClient`, and the messages between them. |
| `AtomicSettings` | Abstract: the system's settings as one value that changes by whole requests. |
| `SystemProxy` | `MacProxy`, which is a client of `Helper`, and `WindowsProxy`, from constructor to destructor, with crashes and restarts; what is claimed of them. Extends `Helper`. |
| `TransactionFile` | `MainWindow::saveTransactionFile` and `TransactionFile`, over a database that may fail; its properties. |
| `SavedFile` | Abstract: a file that gains whole transactions. |
| `TransactionProofs`, `RowProofs`, `ParserProofs`, `ServerProofs`, `HelperProofs`, `SystemProxyProofs`, `SettingsProofs`, `TransactionFileProofs` | The inductive invariants and the theorems. |
| `MCTransaction`, `MCHttpMessageParser`, `MCServer`, `MCTransactionModel`, `MCSystemProxy`, `MCTransactionFile` | What TLC runs. |

### Transaction

The chains are `main` (the request, the response, the CONNECT reply), `up` and
`down` (the directions of a tunnel). `pc[c]` is the function a chain is in or the
operation it waits for, `op[c]` that operation. One action is one stretch of a
handler that no other chain can see inside:

* a function that takes `mutex_`, checks pointers and starts an operation is one
  action (`LockedStart`, `ReadForTunnel`, `Forward`), enabled when `mutex_` is
  free; its error branch leaves `mutex` held by the chain and goes on to
  `release_connections`, as the code does;
* `release_connections` is three actions (`AcquireForRelease`,
  `CloseConnections`, `ResetPointers`), because other chains run between them;
* `notify_failure` is its release, then `RecordFailure` (the two unprotected
  writes) and `ReportFailure` (the signal), then `complete_transaction`, which
  releases again and reports (`ReportCompletion`). `ret` is where
  `release_connections` returns to;
* a read handler is one action: parsing, the notifications on the way, the
  verdict, the next call. Which phases a buffer passes and how it ends is chosen
  from `ParseOutcomes`, and the parser's module checks that this set covers what
  the parser does (`OutcomeAsPromised`).

The environment completes operations: with success, end of file, an error, or an
abort when a socket is closed under them. Data are the bytes of each stream, by
number. A read brings one or more of them (`Arriving`). `asio::async_write` is a
composed operation: each `WriteSome` gives the peer one byte more and counts it
in `op.sent`, and between any two of them the write may fail or be aborted, so
that a part of it has been delivered. What it carries is what its buffer holds at
that moment, so that a shared buffer would show. As a write that succeeds has written
everything, the comparison of `num_bytes_read` with `num_bytes_written` behind
a tunnel's write is never reached with a difference. The transaction's own
bytes, the formatted request and the CONNECT reply, are not followed.

`sock[e]` is the socket itself, `open[e]` the flag of `BaseConnection`, which no
constructor sets; under C++17 (`CMakeLists.txt:26`) the first `close()` may then
find either value. `ptr[e]` is the transaction's pointer, and `lent[e]` the one of
the function that handed the connection over, which goes on on its own thread:
`Proxy::on_client_connected` has the client's until `begin()` returns
(`Proxy.cpp:60-64`), the callback in `ConnectionPool::try_open` the remote one until
it returns (`ConnectionPool.cpp:67-76`). `CallerReturns` is that return, any time
after the connection's first operation was started (`HandedOver`). A socket is closed
by a `close()` that finds the flag up, or with the last of the two pointers.
A composed write whose connection goes meanwhile is modelled as ending in an abort.

An assertion that ends the program (`qFatal` in a handler, an exception nobody
catches) is not in this module: nothing is left that could be said of the exchange.

### HttpMessageParser

`Arrows` are the transitions the character alone decides, for sets of characters
(`Token`, `is_char`, ...); every other transition of `consume` is an action.
`phase`, `entry`, `reached` and `verdict` follow `parse()` and the loop around
it. `LineStates`, `HeadStates` and `BodyStates` name the states of the first
line, the header fields and the body. `remaining` counts modulo `Modulus`. The observers `digits`, `declared`,
`total`, `chunks` and `startLine` are not in the code; properties compare it with
them. At the end of the header fields `body_.reserve` may throw for a length that
is too large, and nobody catches it: `EndHead` has that outcome, the end of the
program, like any other `Abort`.

### Server

`gui` is where the GUI thread is, `worker[w]` the part of a handler a worker is
in. The handler of `do_accept` is three actions (`Accepted`, `MakeConnection`,
`AcceptNext`) because the acceptor may be closed in between, by the handler of a
termination signal on another worker or by the destructor. `accept` and `signal`
are the outstanding asynchronous operations; `Outstanding` is asio's count of
work: when the last handler returns and nothing is outstanding the context stops
by itself (`Returns`), as nothing in `Server` keeps it running.

`ConnectionPool`, `Server` and `Proxy` are objects of the GUI thread and the
pool's signal is emitted by a worker, so Qt queues it: `posted` is the queue of
the GUI thread, in order, with the clients and the signals of transactions.
`on_client_connected` is three actions (`CreateTransaction`, `EmitStarted`,
`BeginTransaction`). The destructors run from `DeinitProxy` to `DestroyModel`, in
the order of the members and of the QObject children. A transaction here is one
handler at a time, which may raise a signal and goes on or ends.

What is torn down is threads and lists, not memory. Several objects outlive the
`io_context` they were made with: the `resolver_` of the pool, which is a QObject
child and goes after the members, the events that are still queued, with
their connections, and the sockets of the transactions that the window lists. What
their destructors find is asio's business, and no property speaks of it.

### TransactionModel

`TransactionStep` is any step of `Transaction`; for each signal it raises it
queues a call for each connection `transactionStarted` made (`Listened` has one
signal twice, as the code does). The slot is two actions, `Refresh` and
`Unsubscribe`, because it looks at `state()` again after the refresh and the
transaction goes on meanwhile. `shown` keeps whether the row shows a request and
a response, not their text.

### Helper

`open[c]` is the client's end of a connection, `conn[c]` the server's, `known`
the keys of `m_connections`. Each connection has its own handler, at `stage[c]`:
`sent` (a message is on its way), `authorize` (`assert_right`, which may ask the
user), `get`, and the stretches of `set_http_proxy_state`: `lock`, `edit`,
`commit`, `apply`, `unlock`. Handlers of several connections interleave at these
places. Every exit of `set_http_proxy_state` is there: the constructor and
`unlock` of `PreferencesLocker` may throw, a missing service leaves by the end
of the scope or by an exception, a commit or an application that fails is
logged and passed over. `stored` and `applied` are the dictionary as committed
and as in force; `Edited` is what the code makes of it, the null copy for an
empty host included. A get reads `stored` without the lock.

A client waits for the answer to its message before it sends the next
(`Connect`, `Ask`), and may go wherever it is (`HangUp`); what it sent last may
then be served or get lost. For a client that `isClientSignatureValid` turns down
the server only returns, without cancelling the connection
(`XpcServer.cpp:201-205`). That the client's call then ends with an error, as `Drop`
has it, is an assumption about the XPC runtime. `CleanUpConnection` is the finalizer,
which the runtime calls once nothing refers to the connection; a connection of the
model is taken again after it, whereas the ids of the code (`m_nextId++`) never
are, so the model is the stricter of the two. `HelperEnds` is the end of
the process, by a crash (`HelperCrashes`) or because `SMJobBless` replaces it
(`Install`); `SomeoneElseChanges` is System Settings, under the lock.
XPC, launchd and SystemConfiguration are external: each is modelled by what the
code does with its answers, in the action that calls it.

`signing` says whether XPC checks a client's requirement itself (macOS 12 and
later) or `XpcServer` validates the signature. In the first case the code
compares the status with the wrong value, so no client is ever served
(`valid_clients_are_served`); all the runs and theorems cover both.

`ImplementsAtomicSettings` maps `stored` to the value of `AtomicSettings`, and a
request to set the state, from the moment it is sent until its commit, to the
request a client has undecided. A commit is then one atomic change of the value
of that moment.

### SystemProxy

`pc` is the function the GUI thread is in: `construct`, `probe`
(`should_install_helper_tool`), `install` (`bless_helper_program`), `enable`,
`set` (Windows), `running`, `disable` (the destructor). Each answer of the helper is one
action (`ShouldInstall`, `Redirect`, `AlreadyEnabled`, `StateIsSet`,
`CallFails`), with everything the code does before it waits again. `platform`
is chosen at the start. The application may be started again after it closed,
failed or crashed, with another port.

`saved` is what the destructor restores. On macOS that is a host without
whether it was enabled, and for no host the helper drops the whole dictionary.
`CloseGivesBack` claims what a user can rely on all the same: what is stored is in
force, no HTTP proxy is left enabled, and one that was there before (`HadProxy`) is
named again with everything beside it. It does not claim the earlier settings in
general, which the code does not restore (see below). `mishaps` counts the failures, crashes and interventions of a behaviour,
and `calm` remembers the count at the start of an instance if nothing of an earlier
one was under way then: `Untroubled` means that nothing has gone wrong since.

### TransactionFile

A table of the database is the set of transactions that have their rows in it.
`disk` is what is committed, `work` what the connection sees. The five `INSERT`s
are five steps (`After` is their order), each of which may fail, and
`CommitFails` leaves the database's transaction open or undoes it, as SQLite
does for a busy file and for one it cannot write. The old file may fail to go
(`Remove`): the save then goes on into it, and ids of another run of the
application are taken. `Killed` is the end of the process at any place.

## 3. Runs

| Run | Question | Bounds |
|---|---|---|
| `transaction` | over every interleaving: is nothing released twice, shared, stranded or leaked, is data delivered in order and without a gap wherever a write is cut off, is an ending reported once and after the release; does a transaction end if every operation does, does a released one stop whatever the peers do, do its signals follow `TransactionLifecycle`, and does the row of the window settle on what it shows? | GET and CONNECT; `MaxBytes`: request 2, response 3, up 2, down 1 |
| `parser` | outcomes, byte counts and framing | see below |
| `server` | accepting, handing over, listing, shutting down in every order; are clients served, does shutting down end? | two clients, two workers, one signal per transaction |
| `system_proxy` | are the settings redirected, left without this proxy at the end, and left alone by a start that fails; does the helper keep its lock, its records, its answers and other people's updates in order, and implement `AtomicSettings`; does every start and every closing end? | two connections, two addresses, one mishap |
| `transaction_file` | is a file whole whatever fails, complete if nothing does, is it a `SavedFile`, does a save end? | up to three transactions |
| `failure_has_error`, `response_read_reported`, `tunnel_errors_reported`, `relayed_as_received`, `start_line_ends_at_newline`, `valid_clients_are_served`, `version_is_acknowledged` | one statement of the source or the README each, which the code does not keep | as the passing runs |

A read brings one byte or more, so the bytes of a stream bound its reads as well.
Three bytes of a response are enough for one in pieces (first, middle, last), and for
a write that is cut off before, within and before the end of its buffer. Two bytes
upwards give a tunnel a direction that loops, or one read whose write is cut
off half-way, while the other direction ends, and one byte downwards is a read
and a write that race with all of it. The bound has a price: a peer that sends
for ever, each of whose operations ends, is beyond `Finishes`. The run has
141,573 distinct states. The methods matter only as CONNECT or not. The parser runs with radix 2 and a counter modulo
4: three digits wrap (`100`) or carry zeroes (`010`), as 17 hexadecimal digits do
in 64 bits. Buffers of two bytes cut the message at every place, since a buffer
may have one byte or two; two header fields make the choice between two
`Content-Length`, or between it and `Transfer-Encoding`, and `Lengths` has zero
and a value that needs more than one byte.

In `Server` two workers are one in the accept chain and one that closes the
acceptor or runs a transaction under it; two clients are one in `socket_` or on
its way and one with its transaction, and two rows tell an ascending list from
one that is not. The run has no symmetry, because it checks liveness.

In `SystemProxy` two connections are the one of the application and one that an
earlier instance, or a constructor that threw, has left behind. Two addresses are the application's own
and another; a proxy that was there may be either, be disabled, or have no name. One mishap
is a crash, a failure of any call, or a change by System Settings, at any place,
with as many starts after it as one likes; with two mishaps the invariants hold as well
(1.8 million states), but liveness takes too long for a run. In `TransactionFile` three
transactions are one that fails, one before it and one after it; earlier saves to
the same file, by this run of the application or another, are unbounded.

The type invariants of `Transaction`, `HttpMessageParser`, `SystemProxy` and
`TransactionFile`, and some other invariants that theorems establish (`StateAdvances`, `ServedAfterHello`,
`NewFileIsNew`, `OneOfEachId`, `UsesHelperAsSpecified`), are proved and not run
again.

Safety needs no fairness. In `Server` the GUI thread and every worker that is in
a handler go on (weak fairness); a ready accept is taken sooner or later, even
if handlers of transactions compete with it (strong fairness), because the
context runs ready handlers in the order they became ready. Quitting, signals
and the arrival of clients are never forced. `HandlerFairness` is weak fairness of each chain's
handlers, as the workers run `io_context::run` and a chain that waits for `mutex_`
gets it once it stays free, and of `CallerReturns`, as nothing in the
functions that hand a connection over waits. `NetworkFairness`, the premise of `Finishes` only,
says that every operation ends. The code does not ensure it, as no operation has
a timeout: a silent peer holds a transaction for ever.

In `SystemProxy` the GUI thread goes on with each answer and each connection's
handler goes on (weak fairness of both). This includes that the user answers and
that whoever has the preferences' lock gives it back, as the calls that wait for
them have no timeout, and that XPC answers with an error where the server only
returns: `ClosingEnds` and `StartingEnds` rest on these. `FailedStartTouchesNothing`
speaks of starts without a crash or an intervention; what the reads of
uninitialised variables in `bless_helper_program` and `acquire_rights` do counts
as a crash. In `TransactionFile` the GUI thread goes on. That the window is closed, or
that a file is saved, is never forced.

### What the code does not do

* `failure_has_error`: when the reply to CONNECT cannot be written, the failure
  is reported with the error code of the successful open
  (`Transaction.cpp:507`).
* `response_read_reported`: `on_response_read` is raised on leaving
  `ResponseComplete`, which no exchange that succeeds does
  (`Transaction.cpp:722`).
* `tunnel_errors_reported`: a read that fails has transferred no bytes, so the
  check for a normal end of a tunnel takes every error (`Transaction.cpp:525`).
* `relayed_as_received`: a response is collected whole in `raw_input_` before a
  byte of it is sent to the client, where the README of the repository says that it
  is relayed as it is received (`Transaction.cpp:357`).
* `start_line_ends_at_newline`: when the carriage return and line feed of a status
  line follow the blank behind the code at once, both are read into the reason
  phrase, and so is the first header line, whose line feed then ends the status
  line (`HttpMessageParser.cpp:427`).
* `valid_clients_are_served`: from macOS 12 on every client is turned down, as the
  status of the signing check is read the wrong way round (`XpcServer.cpp:236`).
* `version_is_acknowledged`: the version query is answered with a message of
  its own type, where `IMessage.h` (75-77) announces an `Ack`
  (`XpcServer.cpp:355`). Client and server agree with each other, which is what
  `AnswersFit` says.

More things met on the way, which no run is about. In the core, `on_request_read` is
raised on leaving `RequestComplete`, when the response begins
(`Transaction.cpp:714`): a request that gets no response is not reported, nor is
any CONNECT, so the row of a tunnel that ends without an error stays as it was
inserted, and connected (`Settled` leaves it out). `Proxy.h:57` says that
`transactionStarted` is emitted from a background thread; it is emitted on the GUI
thread, always, and the code is the better for it: ids are listed in ascending
order (`UpdatesFindTheirRow`) and a client accepted before `Proxy::init` waits in the
queue (`NothingUnheard`). The length of a chunk is summed up in `remaining_`
without a look at its width (`HttpMessageParser.cpp:635`), so that one of more
than 16 digits wraps; the properties of the parser speak of lengths that fit. An accept that fails ends
accepting for good (`failed` in `OneAcceptChain` and `ClientsServed`). After a
termination signal the workers leave as soon as nothing is outstanding, while the
window stays; a transaction begun after that never goes on.

Around the settings: they are kept in memory only, so after a crash the next instance
on macOS finds its own address and takes it for the user's (`MacProxy.cpp:247`);
closing then removes the proxy, but on Windows the leftovers are
restored as the original. The comment of `IService.h` (57-58) says that an empty host
disables the proxy; what `TrustyService.cpp` (359-362) does for one is to drop
the whole dictionary, and with it the entries for HTTPS, SOCKS and the
exceptions that a user may have had. A proxy that was enabled comes back
disabled, as `MacProxy.cpp:239` passes on the host alone. On Windows the address is fixed (`127.0.0.1:9999`)
whatever port is configured. What an instance that crashed had asked for may
still be carried out while the next one starts, which then keeps the wrong
settings (`calm` leaves this out). A commit that fails is reported to the client
as a success. `XpcServiceClient`'s constructor throws without cancelling its
connection, which stays until the process ends. `error` in
`bless_helper_program` and `pResultRights` in `acquire_rights` are read
uninitialised: the model lets the application end there.

Around a save: a commit that fails may leave a transaction open, and every later
row of that save is then refused (`BeginFails`); nothing of this reaches the
user.

## 4. Proofs

`TransactionProofs` proves, for every set of methods and every number of bytes:
type correctness (`TypeCorrect`), that no chain waits for the mutex it holds
(`NeverSelfDeadlocked`), `NeverReleasedTwice`, `NeverShared`, `NeverStranded`,
`NeverLeaks`, of every step `EndingsAfterRelease` and `NeverGoesBack`, then what
becomes of an exchange: `EndingsAreReported`, `TunnelsKeepOrder`,
`ResponsesAreRelayed`, and that its signals are those of
`TransactionLifecycle` (`ImplementsLifecycleSafely`). The assumptions are those
of `Transaction`: CONNECT is a method, and each stream may have a byte (`MaxBytesAssumption`).

None of these invariants is inductive. That a release never runs under the lock
depends on what `main` has in hand at each check (`HoldInv`), which depends on
nobody else releasing while `main` works, which depends on the directions not
having been started (`StartInv`). That nobody waits on a closed socket depends on
which sockets are open at all (`SocketInv`): a held connection's socket is open
unless some chain is between `close()` and `reset()`, and that chain holds
`mutex_` (`MutexInv`), so nobody starts an operation meanwhile; once it is no longer
held, its socket is open only while the function that handed it over keeps it
(`lent`). That is also what `EndingsAfterRelease` says, and all it can say: where
`close()` found the flag down, an ending may be reported while that function has
not returned and the socket is still open. That nothing
leaks depends on a chain never passing its release without the pointers being
gone (`DropInv`), and on both pointers going together. `OpInv` ties what a chain
waits for to where it is. `IInv` is the conjunction; each of its three parts is
shown to be preserved by main's steps, a direction's, an ending's and the
network's, one step per action.

Three more invariants rest on `IInv`, and are preserved in the same way.

* `EndInv` keeps the account of the endings. A chain *owes* a completion from its
  last release on (`Owes`), also while it is still releasing; in a tunnel the
  failures are at any time the completions plus what is owed (`EndingsInv`). To
  know what a chain owes one has to know where its release returns to, and which
  chains run for which method (`WayInv`). From it follow `EndingsAreReported`, once
  nothing is owed, and that no chain ends twice.
* `ProgressInv` says which signals of progress have been raised, by `ns`, while
  main works. A step of `Transaction` that raises several signals, as a read
  handler does, is one step of the lifecycle, which raises them in one; that none
  is raised twice is `ProgressInv`, that nothing follows the last ending is
  `EndInv`.
* `TunnelDataInv` relates, for each direction, the bytes read, those in its buffer
  and those delivered: a direction that carries a read has it in its own buffer
  until the write is done, whatever the other direction reads (`NeverShared` is
  what this needs of the control), and the peer has everything of before and as
  much of this read as the write has counted (`DirectionOK`). What an ending leaves
  is a prefix, cut anywhere. `PlainDataInv` does the same for a response: what has been
  collected in `raw_input_` while it is read (`CollectInv`), and how far the one write
  of it has come (`RelayInv`); `ResponsesAreRelayed` is that the client has a prefix
  of the response at any time, and all of it if nothing failed.

`RowProofs` composes a transaction with its row, for every set of methods and every
number of bytes: `RowsSettle` and `RowsUnsubscribe`. As the composition restricts
the transaction in nothing (`TransactionRunsAsBefore`), everything above
holds of it. The slot runs late, reads the state of now, and disconnects by a
second look. That this is right has two halves. What the transaction shows is
final once it has raised a signal the row listens to (`StateInv`, `HeadInv`): so
any refresh after that is the last one needed, however early its signal was. And
of every such signal the row has a call to come or has made its refresh
(`ViewInv`). The signals of one step are counted by `Raises`, the cardinality of
the connections they reach, as two of them are of the same signal.

`ParserProofs` proves, for any width of `remaining_` and any radix, any cut into
buffers, and any number of header fields, digits and chunks: `ParserTypes`,
`OutcomesArePromised`, `BytesAreAccountedFor`, `BodiesAreAsDeclared`. The phase
is a function of the part of the message the state is in (`PhaseInv`), and what a
buffer has reached is told by it (`ReachedInv`): that gives the outcomes that
`Transaction` is modelled with. The counter is compared with lengths that cannot
wrap, `declared` and `total`: as long as these are below the modulus, `remaining` is what is still to
come (`CountInv`). When they do not fit nothing is claimed; the code does
not notice. The assumption (`ParserAssumption`) is that the radix is positive and not
above the modulus, as 16 and 2^64 are, and that a `Content-Length` fits, as a conversion
that fails refuses the message.

`ServerProofs` proves, for any number of clients, workers and signals:
`ServerTypes`, `AcceptsOneAtATime`, `NoClientLost`, `EverySignalHeard`,
`WorkersJoined`, `RowsStayInOrder` and `EveryUpdateFindsItsRow`. The invariant `ServerInv` follows a client on its
way: the accept operation or one worker has the chain, and with it `socket_`
(`ChainInv`), so a client never shares it with the next one; an accepted client is in
one place exactly (`ClientInv`), so it is in the queue once, and the GUI thread makes
one transaction of it (`HandInv`); as ids count the clients that have a transaction
(`NumberInv`), the rows are in their order (`RowsInOrder`), and what a worker runs
has a row that listens (`RunInv`). That nothing of this is disturbed while the
window is torn down rests on the workers having left (`JoinedBeforeDestroyed`). The
assumptions are those of `Server`: clients and workers are finite sets, the
workers not empty, `NoClient` is not a client (`ClientsAssumption`,
`WorkersAssumption`), `MaxUpdates` is a number (`MaxUpdatesAssumption`).
The binary search is `LowerBound`, a recursive function on the spans of rows it
may look at (`Spans`). That it finds the row of an id that has one
(`SearchIsRight`) is shown in two steps: the function that gives every span its
answer satisfies the recursion (`SearchDefined`), so there is one that does; and
a function that satisfies it cannot be wrong, since the shortest span it is
wrong on would have a shorter one (`SearchFinds`, by `LeastNumber`, which is
that a set of numbers has a least one). That the updates on their way are of
transactions that have a row is an invariant (`UpdatesHaveRows`).

`HelperProofs` proves, for any number of connections, addresses and mishaps:
type correctness (`HelperTypeCorrect`), `LockIsGivenBack`, `NoUpdateIsLost`,
`RecordsAreOfTheLiving`, `ServedOnlyAfterHello`, `AnswersAlwaysFit`, and that the
helper implements `AtomicSettings` (`HelperIsAtomic`: every step is a request,
its taking effect, its being dropped, an intervention, or a stutter). That no
update is lost rests on the lock: between `edit` and `commit` nobody else is past
`lock`, and System Settings take it too. That the lock is given back rests on
where each handler is (`LockedWhileEditing` is an equivalence), and that only requests
to set the state get there on `OnlySetLocks`. That an answer fits what was asked
includes that a client which is still connected has one or has a handler at
work on it, so that no exit of `set_http_proxy_state` forgets it (`AnswersFit`). `HelperInv` is the conjunction. The
assumptions are those of `Helper`: `NoConnection` is not a connection
(`ConnectionsAssumption`), the empty host is not an address
(`AddressesAssumption`), `MaxMishaps` is a number (`MaxMishapsAssumption`).

`SystemProxyProofs` shows that every step of the application is one of a client
of the helper or none (`AppUsesHelper`), so all of the above holds of the
composition, and its type correctness. It needs that the ports are addresses
(`PortsAssumption`) and where a connection is open (`SessionOK`).

`SettingsProofs` proves what the user sees: `RunningIsPointed`,
`ClosingGivesBack` (which is `CloseGivesBack`: on Windows the options of before,
on macOS no enabled proxy, and the one that was there named again),
`FailingTouchesNothing`. None is inductive: each speaks of one place
and follows from what happened at all places before it. `SettingsInv` says, as long as
nothing has gone wrong since the start, what is stored and in force at each
place of the exchange: the settings found, until the helper's commit; the new
ones stored and the old in force, until they are applied (`Halfway`); the new ones
from there on, and the same once more for the destructor. For this, no handler but that
of the application's own connection may be at work (`Alone`); the answers must
be to what was asked (`Conversation`, from `AnswersFit`); only a Hello may fail, and
not in the destructor, as a helper that served once serves again
(`ServedOnlyIfValid`); and nothing has gone wrong before a step if nothing has after it
(`StaysUndisturbed`). On Windows the same is one step each (`WindowsExchange`).

`TransactionFileProofs` proves, for any number of transactions
(`IdsAssumption`): `FileTypeCorrect`, `FileIsWhole`, `FileIsNew`,
`FileIdsUnique`, `FileIsComplete`, and that the file implements `SavedFile`
(`FileImplementsSavedFile`). The invariant `FileInv` says what the connection
sees while a transaction is under way (`Pending`: the file and, in the tables
already filled, one transaction more) and how far the loop has come in a save
without failures (`Progress`). After a commit that failed the connection may see
anything, but never commits again.

Only model-checked: what must happen. Liveness under fairness and ENABLED are
outside the prover's reach, everywhere, so `Finishes`, `Drains`,
`ClientsServed`, `ShutdownEnds`, `ClosingEnds`, `StartingEnds`, `SaveEnds`, and the
fairness of `TransactionLifecycle` in `ImplementsLifecycle`, are properties of the
runs alone. Every invariant and every action property that a passing run
checks is proved as well. Not proved, because the library's induction theorems take an
operator as a parameter, is anything that a recursive definition computes; the
binary search is the exception, as its recursion can be argued about with the
least counterexample.

## 5. Not modelled, and the plan

See the components and their notes in `PROJECT.json`. What is left, in this
order:

1. `Headers`: insertion, look-up and `Request::format` as operators, checked
   against a reference definition; folded header lines.
2. The parser composed with `Transaction`: bytes left behind in a buffer,
   responses without a body.
3. Proofs of what these two add.

Left out for good: `ObjectPool`, which nothing uses; logging, CoreFoundation
wrappers, widgets, error texts; `reset_proxy_settings` and `say_hi`, which
do nothing or are never called; the data races inside a container or a string (the
map `m_connections`, the messages the view reads), of which every operation
is taken as one step; malformed messages between the application and its
helper; and the SQL of a row.

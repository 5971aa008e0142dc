-------------------------------- MODULE ServerProofs --------------------------------
(***************************************************************************)
(* Proofs about Server: for any number of clients and of workers, by one   *)
(* inductive invariant.                                                    *)
(***************************************************************************)
EXTENDS ServerProperties, FiniteSetTheorems, WellFoundedInduction, TLAPS

\* The server and its sockets are gone.
Over == {"destroyed", "gone"}

\* TypeOK in the parts that are proved apart.
GuiOK     == /\ gui \in Serving \cup Ending
             /\ starting \in Clients \cup {NoClient}
             /\ heard \in BOOLEAN
QueueOK   == /\ posted \in Seq(Events)
             /\ unheard \subseteq Clients /\ missed \in BOOLEAN
ModelOK   == /\ next_id_ \in 1 .. (Cardinality(Clients) + 1)
             /\ owner \in [Clients -> Ids \cup {0}]
             /\ rows \in Seq(Ids)
TxOK      == /\ tx \in [Ids -> {"none", "waiting", "ready", "running", "over", "abandoned"}]
             /\ updates \in [Ids -> 0 .. MaxUpdates]
AcceptOK  == /\ client \in [Clients -> {"away", "backlog", "accepted", "reset"}]
             /\ acceptor \in BOOLEAN
             /\ accept \in {"none", "pending", "ok", "error"}
             /\ socket_ \in Clients \cup {NoClient}
             /\ failed \in BOOLEAN
ContextOK == /\ signal \in {"none", "pending", "ready"}
             /\ stopped \in BOOLEAN
             /\ worker \in [Workers -> {"idle", "exited"} \cup InHandler]
             /\ job \in [Workers -> Ids \cup {0}]

\* The chain of accepts: the operation or one worker has it, and with it socket_.
Accepting(w) == worker[w] \in {"accepted", "refused", "make", "arm"}

ChainInv ==
  /\ \A w, v \in Workers : Accepting(w) /\ Accepting(v) => w = v
  /\ accept # "none" => \A w \in Workers : ~Accepting(w)
  /\ gui \notin Over /\ acceptor /\ ~failed =>
       accept # "none" \/ \E w \in Workers : Accepting(w)
  /\ accept = "error" => failed \/ ~acceptor
  /\ accept = "pending" => socket_ = NoClient
  /\ accept = "ok" => socket_ # NoClient
  /\ \A w \in Workers :
       /\ worker[w] = "refused" => failed \/ ~acceptor
       /\ worker[w] \in {"accepted", "make"} => socket_ # NoClient
       /\ worker[w] = "arm" => socket_ = NoClient

\* Where on_client_connected is, and what it has done for its client.
InHand(c) == starting = c \/ owner[c] # 0

HandInv ==
  /\ gui \in {"create", "emit", "begin"} <=> starting # NoClient
  /\ gui = "create" => owner[starting] = 0
  /\ gui \in {"emit", "begin"} => owner[starting] = next_id_ - 1 /\ owner[starting] # 0
  /\ gui \in {"loop", "create", "emit", "begin", "deinit"} => heard

\* Ids are given out in order, one to each client that has a transaction.
Owners    == { c \in Clients : owner[c] # 0 }
NumberInv == next_id_ = Cardinality(Owners) + 1

\* The rows are those of the ids given out so far, in order.
RowsInOrder ==
  /\ \A i \in DOMAIN rows : rows[i] = i
  /\ gui # "gone" => Len(rows) = IF gui = "emit" THEN next_id_ - 2 ELSE next_id_ - 1

\* What a worker runs, or will run, has its row.
RunInv ==
  /\ \A w \in Workers : worker[w] = "run" => job[w] \in 1 .. Len(rows)
  /\ gui # "gone" =>
       \A id \in Ids : tx[id] \in {"waiting", "ready", "running"} => id <= Len(rows)

\* A client is in one place at most, and nowhere before it is accepted.
Queued(c) == \E i \in DOMAIN posted : posted[i] = ClientEvent(c)

ClientInv ==
  gui \notin Over =>
    \A c \in Clients :
      /\ client[c] = "accepted" <=> Queued(c) \/ socket_ = c \/ InHand(c)
      /\ ~(Queued(c) /\ socket_ = c)
      /\ ~(Queued(c) /\ InHand(c))
      /\ ~(socket_ = c /\ InHand(c))
      /\ \A i, j \in DOMAIN posted :
           posted[i] = ClientEvent(c) /\ posted[j] = ClientEvent(c) => i = j

ServerInv == /\ TypeOK /\ JoinedBeforeDestroyed /\ ChainInv
             /\ HandInv /\ NumberInv /\ RowsInOrder /\ RunInv /\ ClientInv /\ NothingUnheard

--------------------------------------------------------------------------------

LEMMA TypeParts == TypeOK <=> GuiOK /\ QueueOK /\ ModelOK /\ TxOK /\ AcceptOK /\ ContextOK
BY DEF TypeOK, GuiOK, QueueOK, ModelOK, TxOK, AcceptOK, ContextOK

LEMMA ClientsCounted == Cardinality(Clients) \in Nat /\ NoClient \notin Clients
BY ClientsAssumption, FS_CardinalityType

LEMMA EventFacts ==
  /\ \A c \in Clients : ClientEvent(c) \in Events
  /\ \A id \in Ids : UpdateEvent(id) \in Events
  /\ \A c, id : ClientEvent(c) # UpdateEvent(id)
  /\ \A c, d : ClientEvent(c) = ClientEvent(d) => c = d
  /\ \A c : ClientEvent(c).kind = "client" /\ ClientEvent(c).client = c
  /\ \A id : UpdateEvent(id).kind = "update"
BY DEF Events, ClientEvent, UpdateEvent

LEMMA InitServerInv == Init => ServerInv
<1> SUFFICES ASSUME Init PROVE ServerInv
  OBVIOUS
<1> USE DEF Init
<1>1. GuiOK /\ AcceptOK /\ ContextOK
  BY DEF GuiOK, Serving, AcceptOK, ContextOK
<1>2. QueueOK /\ TxOK
  <2>1. QueueOK
    <3>1. posted = << >> /\ << >> \in Seq(Events)
      <4> HIDE DEF Init
      <4>1. << >> \in Seq(Events)
        OBVIOUS
      <4> QED BY <4>1 DEF Init
    <3> QED BY <3>1 DEF QueueOK
  <2>2. tx \in [Ids -> {"none", "waiting", "ready", "running", "over", "abandoned"}]
    OBVIOUS
  <2>3. 0 \in 0 .. MaxUpdates
    BY MaxUpdatesAssumption
  <2> QED BY <2>1, <2>2, <2>3 DEF TxOK
<1>3. ModelOK
  BY ClientsCounted DEF ModelOK
<1>4. TypeOK
  BY <1>1, <1>2, <1>3, TypeParts
<1>5. JoinedBeforeDestroyed /\ ChainInv /\ HandInv /\ RunInv
  BY ClientsCounted, WorkersAssumption DEF JoinedBeforeDestroyed, ChainInv, Accepting, HandInv, RunInv
<1>6. NumberInv
  <2>1. Owners = {}
    BY DEF Owners
  <2> QED BY <2>1, FS_EmptySet DEF NumberInv
<1>7. RowsInOrder /\ ClientInv /\ NothingUnheard
  BY ClientsCounted DEF RowsInOrder, ClientInv, Queued, InHand, NothingUnheard
<1> QED BY <1>4, <1>5, <1>6, <1>7 DEF ServerInv

--------------------------------------------------------------------------------
\* Who does what.

\* Steps of the GUI thread, the network and the operating system do not touch
\* the workers, and only some of them the chain of accepts.
OtherThanChain == \/ InitProxy \/ Deliver \/ CreateTransaction \/ EmitStarted
                  \/ BeginTransaction \/ DeinitProxy \/ ClearSignals \/ StopContext
                  \/ JoinWorkers \/ DestroyModel \/ Quit \/ Gone \/ SignalArrives
                  \/ (\E c \in Clients : Connects(c)) \/ \E id \in Ids : OperationEnds(id)

LEMMA StepKinds ==
  ASSUME Next
  PROVE  \/ OtherThanChain \/ CloseForGood \/ DestroyServer \/ AcceptCompletes \/ AcceptFails
         \/ \E w \in Workers : WorkerStep(w)
BY DEF Next, GuiStep, OtherThanChain

LEMMA OtherSteps ==
  ASSUME OtherThanChain
  PROVE  /\ UNCHANGED << worker, job, acceptor, accept, socket_, failed >>
         /\ gui \in Over => gui' \in Over
<1>1. CASE Deliver
  BY <1>1 DEF Deliver, acceptVars, context, Over
<1>2. CASE (\E c \in Clients : Connects(c)) \/ (\E id \in Ids : OperationEnds(id)) \/ SignalArrives
  BY <1>2 DEF Connects, OperationEnds, SignalArrives, acceptVars, guiVars, context
<1>3. CASE Gone
  BY <1>3 DEF Gone, vars, guiVars, acceptVars, context
<1>4. CASE InitProxy \/ CreateTransaction \/ EmitStarted \/ BeginTransaction
  BY <1>4 DEF InitProxy, CreateTransaction, EmitStarted, BeginTransaction, From, Over,
              acceptVars, context
<1>5. CASE Quit \/ DeinitProxy \/ ClearSignals \/ StopContext \/ JoinWorkers \/ DestroyModel
  BY <1>5 DEF Quit, DeinitProxy, ClearSignals, StopContext, JoinWorkers, DestroyModel, From, Over,
              acceptVars, context
<1> QED BY <1>1, <1>2, <1>3, <1>4, <1>5 DEF OtherThanChain

\* Once a worker has left, it is not a worker any more.
LEMMA WorkerAlive ==
  ASSUME TypeOK, JoinedBeforeDestroyed, NEW w \in Workers, WorkerStep(w)
  PROVE  /\ worker[w] # "exited" /\ UNCHANGED << gui, starting, heard, model, failed >>
         /\ gui \notin {"destroy", "destroyed", "gone"}
         /\ \A v \in Workers : v # w => worker'[v] = worker[v] /\ job'[v] = job[v]
BY DEF TypeOK, JoinedBeforeDestroyed, WorkerStep, HandlerStep, AbandonAccept, Accepted, MakeConnection,
       AcceptNext, OnSignal, OnOperation, LeaveRun, TakeAccept, TakeSignal, TakeOperation,
       Handles, Takes, Continues, Returns, CloseAcceptor, guiVars, acceptVars

LEMMA JoinKept ==
  TypeOK /\ JoinedBeforeDestroyed /\ [Next]_vars => JoinedBeforeDestroyed'
<1> SUFFICES ASSUME TypeOK, JoinedBeforeDestroyed, [Next]_vars PROVE JoinedBeforeDestroyed'
  OBVIOUS
<1>1. CASE UNCHANGED vars
  BY <1>1 DEF vars, context, guiVars, JoinedBeforeDestroyed
<1>2. ASSUME NEW w \in Workers, WorkerStep(w) PROVE JoinedBeforeDestroyed'
  BY <1>2, WorkerAlive DEF JoinedBeforeDestroyed
<1>3. CASE OtherThanChain
  BY <1>3, OtherSteps
     DEF OtherThanChain, InitProxy, Deliver, CreateTransaction, EmitStarted, BeginTransaction,
         DeinitProxy, ClearSignals, StopContext, JoinWorkers, Joined, DestroyModel, Quit, Gone,
         SignalArrives, Connects, OperationEnds, From, vars, guiVars, JoinedBeforeDestroyed
<1>4. CASE CloseForGood \/ DestroyServer \/ AcceptCompletes \/ AcceptFails
  BY <1>4 DEF CloseForGood, DestroyServer, AcceptCompletes, AcceptFails, From, guiVars, context,
              JoinedBeforeDestroyed
<1> QED BY <1>1, <1>2, <1>3, <1>4, StepKinds

--------------------------------------------------------------------------------
\* The chain of accepts.

LEMMA ChainKept == ServerInv /\ [Next]_vars => ChainInv'
<1> SUFFICES ASSUME ServerInv, [Next]_vars PROVE ChainInv'
  OBVIOUS
<1> TypeOK /\ ChainInv /\ JoinedBeforeDestroyed
  BY DEF ServerInv
<1>1. CASE UNCHANGED vars
  BY <1>1 DEF vars, guiVars, acceptVars, context, ChainInv, Accepting
<1>2. CASE OtherThanChain
  BY <1>2, OtherSteps DEF ChainInv, Accepting
<1>3. CASE CloseForGood
  BY <1>3 DEF CloseForGood, CloseAcceptor, From, context, ChainInv, Accepting, Over
<1>4. CASE DestroyServer
  BY <1>4 DEF DestroyServer, From, ChainInv, Accepting, Over, JoinedBeforeDestroyed
<1>5. CASE AcceptCompletes
  BY <1>5, ClientsCounted DEF AcceptCompletes, guiVars, context, ChainInv, Accepting
<1>6. CASE AcceptFails
  BY <1>6 DEF AcceptFails, guiVars, context, ChainInv, Accepting
<1>7. ASSUME NEW w \in Workers, WorkerStep(w) PROVE ChainInv'
  <2> worker \in [Workers -> {"idle", "exited"} \cup InHandler] /\ gui' = gui /\ failed' = failed
    BY <1>7, WorkerAlive DEF TypeOK, guiVars
  <2>1. ASSUME Accepting(w), ~Accepting(w)', accept' = "none" \/ accept = "none",
               \A v \in Workers : v # w => worker'[v] = worker[v]
        PROVE  \A v \in Workers : ~Accepting(v)'
    BY <2>1 DEF ChainInv, Accepting
  <2>2. CASE AbandonAccept(w)
    BY <2>2 DEF AbandonAccept, Handles, Returns, acceptVars, guiVars, ChainInv, Accepting
  <2>3. CASE Accepted(w)
    BY <2>3 DEF Accepted, Handles, Continues, acceptVars, guiVars, ChainInv, Accepting
  <2>4. CASE MakeConnection(w)
    BY <2>4 DEF MakeConnection, Handles, Continues, guiVars, ChainInv, Accepting
  <2>5. CASE AcceptNext(w)
    BY <2>5, <2>1 DEF AcceptNext, Armed, Handles, Returns, guiVars, ChainInv, Accepting
  <2>6. CASE OnSignal(w)
    BY <2>6 DEF OnSignal, CloseAcceptor, Handles, Returns, guiVars, ChainInv, Accepting
  <2>7. CASE OnOperation(w)
    BY <2>7 DEF OnOperation, Handles, Returns, acceptVars, guiVars, ChainInv, Accepting
  <2>8. CASE LeaveRun(w)
    BY <2>8 DEF LeaveRun, acceptVars, guiVars, ChainInv, Accepting
  <2>9. CASE TakeAccept(w)
    BY <2>9 DEF TakeAccept, Takes, guiVars, ChainInv, Accepting
  <2>10. CASE TakeSignal(w)
    BY <2>10 DEF TakeSignal, Takes, acceptVars, guiVars, ChainInv, Accepting
  <2>11. ASSUME NEW id \in Ids, TakeOperation(w, id) PROVE ChainInv'
    BY <2>11 DEF TakeOperation, Takes, acceptVars, guiVars, ChainInv, Accepting
  <2> QED BY <1>7, <2>2, <2>3, <2>4, <2>5, <2>6, <2>7, <2>8, <2>9, <2>10, <2>11
          DEF WorkerStep, HandlerStep
<1> QED BY <1>1, <1>2, <1>3, <1>4, <1>5, <1>6, <1>7, StepKinds

--------------------------------------------------------------------------------
\* on_client_connected, ids and rows.

\* What is queued for the event loop.
LEMMA HeadOfQueue ==
  ASSUME QueueOK, posted # << >>
  PROVE  /\ Head(posted) \in Events /\ Head(posted) = posted[1] /\ 1 \in DOMAIN posted
         /\ Tail(posted) \in Seq(Events)
         /\ DOMAIN Tail(posted) = 1 .. (Len(posted) - 1)
         /\ \A i \in DOMAIN Tail(posted) : Tail(posted)[i] = posted[i + 1] /\ i + 1 \in DOMAIN posted
BY DEF QueueOK

\* The client of a delivery has not been served, and nothing else is in hand.
LEMMA DeliveredClient ==
  ASSUME ServerInv, Deliver
  PROVE  /\ heard /\ starting = NoClient /\ unheard' = unheard /\ Head(posted) \in Events
         /\ \/ /\ gui' = "create" /\ starting' \in Clients /\ Head(posted) = ClientEvent(starting')
               /\ owner[starting'] = 0
            \/ /\ UNCHANGED << gui, starting >> /\ Head(posted).kind = "update"
<1> TypeOK /\ HandInv /\ ClientInv
  BY DEF ServerInv
<1>1. heard /\ starting = NoClient /\ gui \notin Over
  BY DEF Deliver, HandInv, Over
<1>2. Head(posted) \in Events /\ Head(posted) = posted[1] /\ 1 \in DOMAIN posted
  BY HeadOfQueue, TypeParts DEF Deliver
<1>3. ASSUME Head(posted).kind = "client"
      PROVE  /\ gui' = "create" /\ starting' = Head(posted).client /\ unheard' = unheard
             /\ starting' \in Clients /\ Head(posted) = ClientEvent(starting')
  <2>1. PICK c \in Clients : Head(posted) = ClientEvent(c)
    BY <1>2, <1>3, EventFacts DEF Events
  <2>2. c = Head(posted).client
    BY <2>1, EventFacts
  <2> QED BY <1>1, <1>3, <2>1, <2>2 DEF Deliver
<1>4. ASSUME Head(posted).kind = "client" PROVE owner[starting'] = 0
  BY <1>1, <1>2, <1>3, <1>4 DEF ClientInv, Queued, InHand
<1>5. CASE Head(posted).kind = "client"
  BY <1>1, <1>2, <1>3, <1>4, <1>5
<1>6. CASE Head(posted).kind # "client"
  BY <1>1, <1>2, <1>6 DEF Deliver
<1> QED BY <1>5, <1>6

\* An id is left for the next client as long as one has no transaction.
LEMMA NextId ==
  ASSUME ServerInv, CreateTransaction
  PROVE  /\ starting \in Clients /\ owner[starting] = 0 /\ next_id_ \in Ids
         /\ owner' = [owner EXCEPT ![starting] = next_id_]
         /\ NumberInv'
<1> TypeOK /\ HandInv /\ NumberInv
  BY DEF ServerInv
<1>1. starting \in Clients /\ owner[starting] = 0
  BY DEF TypeOK, HandInv, CreateTransaction, From
<1>2. Owners \subseteq Clients /\ starting \notin Owners
  BY <1>1 DEF Owners
<1>3. IsFiniteSet(Owners) /\ IsFiniteSet(Owners \cup {starting})
  BY <1>2, ClientsAssumption, FS_Subset, FS_AddElement
<1>4. Cardinality(Owners \cup {starting}) = Cardinality(Owners) + 1
  BY <1>2, <1>3, FS_AddElement
<1>5. Cardinality(Owners \cup {starting}) <= Cardinality(Clients)
  BY <1>1, <1>2, ClientsAssumption, FS_Subset
<1>6. Cardinality(Owners) \in Nat
  BY <1>3, FS_CardinalityType
<1>7. next_id_ \in Ids
  BY <1>4, <1>5, <1>6, ClientsCounted DEF NumberInv, Ids
<1>8. owner' = [owner EXCEPT ![starting] = next_id_] /\ next_id_' = next_id_ + 1
  BY DEF CreateTransaction
<1>9. Owners' = Owners \cup {starting}
  BY <1>1, <1>7, <1>8 DEF Owners, TypeOK, Ids
<1> QED BY <1>1, <1>4, <1>7, <1>8, <1>9 DEF NumberInv

LEMMA HandKept == ServerInv /\ [Next]_vars => HandInv' /\ NumberInv' /\ RowsInOrder'
<1> SUFFICES ASSUME ServerInv, [Next]_vars PROVE HandInv' /\ NumberInv' /\ RowsInOrder'
  OBVIOUS
<1> TypeOK /\ HandInv /\ NumberInv /\ RowsInOrder /\ JoinedBeforeDestroyed
  BY DEF ServerInv
<1> /\ next_id_ \in Nat \ {0} /\ rows \in Seq(Ids) /\ NoClient \notin Clients
    /\ owner \in [Clients -> Ids \cup {0}] /\ \A id \in Ids : id # 0
  BY ClientsCounted DEF TypeOK, Ids
<1>1. ASSUME UNCHANGED << gui, starting, heard, model >>
      PROVE  HandInv' /\ NumberInv' /\ RowsInOrder'
  BY <1>1 DEF model, HandInv, NumberInv, Owners, RowsInOrder
<1>2. ASSUME UNCHANGED model PROVE NumberInv'
  BY <1>2 DEF model, NumberInv, Owners
<1>3. CASE Deliver
  <2>1. UNCHANGED model
    BY <1>3 DEF Deliver
  <2>2. gui = "loop" /\ heard' = heard /\ UNCHANGED << owner, rows, next_id_ >>
    BY <1>3, <2>1 DEF Deliver, model
  <2>3. HandInv'
    BY <1>3, <2>2, DeliveredClient DEF HandInv
  <2>4. RowsInOrder'
    BY <1>3, <2>2, DeliveredClient DEF RowsInOrder
  <2> QED BY <1>2, <2>1, <2>3, <2>4
<1>4. CASE CreateTransaction
  <2>1. HandInv'
    BY <1>4, NextId DEF CreateTransaction, From, HandInv, TypeOK, Ids
  <2>2. RowsInOrder'
    BY <1>4 DEF CreateTransaction, From, RowsInOrder
  <2> QED BY <1>4, <2>1, <2>2, NextId
<1>5. CASE EmitStarted
  <2>1. /\ gui = "emit" /\ gui' = "begin" /\ rows' = Append(rows, owner[starting])
        /\ UNCHANGED << starting, heard, next_id_, owner >>
    BY <1>5 DEF EmitStarted, From, WithRow
  <2>2. owner[starting] = next_id_ - 1 /\ starting # NoClient /\ heard
    BY <2>1 DEF HandInv
  <2>3. HandInv'
    BY <2>1, <2>2 DEF HandInv
  <2>4. NumberInv'
    BY <2>1 DEF NumberInv, Owners
  <2>5. starting \in Clients /\ owner[starting] \in Ids
    BY <2>1, <2>2 DEF TypeOK, HandInv
  <2>6. RowsInOrder'
    BY <2>1, <2>2, <2>5 DEF RowsInOrder
  <2> QED BY <2>3, <2>4, <2>6
<1>6. CASE InitProxy \/ BeginTransaction \/ Quit \/ DeinitProxy \/ ClearSignals \/ CloseForGood
  BY <1>2, <1>6 DEF InitProxy, BeginTransaction, Quit, DeinitProxy, ClearSignals, CloseForGood,
                    From, model, HandInv, RowsInOrder
<1>7. CASE StopContext \/ JoinWorkers \/ DestroyServer
  BY <1>2, <1>7 DEF StopContext, JoinWorkers, DestroyServer, From, model, HandInv, RowsInOrder
<1>8. CASE DestroyModel
  BY <1>8 DEF DestroyModel, From, HandInv, NumberInv, Owners, RowsInOrder
<1>9. CASE SignalArrives \/ (\E c \in Clients : Connects(c)) \/ (\E id \in Ids : OperationEnds(id))
           \/ AcceptCompletes \/ AcceptFails \/ Gone \/ UNCHANGED vars
  BY <1>1, <1>9 DEF SignalArrives, Connects, OperationEnds, AcceptCompletes, AcceptFails, Gone,
                    vars, guiVars
<1>10. ASSUME NEW w \in Workers, WorkerStep(w) PROVE UNCHANGED << gui, starting, heard, model >>
  BY <1>10, WorkerAlive
<1> QED BY <1>1, <1>3, <1>4, <1>5, <1>6, <1>7, <1>8, <1>9, <1>10, StepKinds DEF OtherThanChain

\* A transaction at work has its row, and its id is one.
LEMMA RowOfJob ==
  ASSUME ServerInv, NEW w \in Workers, worker[w] = "run"
  PROVE  /\ job[w] \in Ids /\ job[w] \in DOMAIN rows /\ rows[job[w]] = job[w]
BY DEF ServerInv, RunInv, RowsInOrder, TypeOK

LEMMA RunKept == ServerInv /\ [Next]_vars => RunInv'
<1> SUFFICES ASSUME ServerInv, [Next]_vars PROVE RunInv'
  OBVIOUS
<1> TypeOK /\ HandInv /\ RowsInOrder /\ RunInv /\ JoinedBeforeDestroyed
  BY DEF ServerInv
<1> /\ tx \in [Ids -> {"none", "waiting", "ready", "running", "over", "abandoned"}]
    /\ worker \in [Workers -> {"idle", "exited"} \cup InHandler]
    /\ job \in [Workers -> Ids \cup {0}] /\ rows \in Seq(Ids)
    /\ next_id_ \in Nat \ {0} /\ \A id \in Ids : id \in Nat \ {0}
  BY ClientsCounted DEF TypeOK, Ids
<1>1. ASSUME UNCHANGED << worker, job, tx, rows >>, gui = "gone" => gui' = "gone" PROVE RunInv'
  BY <1>1 DEF RunInv
<1>2. CASE Deliver
  BY <1>1, <1>2, DeliveredClient DEF Deliver, model, txVars, context
<1>3. CASE InitProxy \/ CreateTransaction \/ Quit \/ DeinitProxy \/ ClearSignals \/ CloseForGood
           \/ StopContext \/ JoinWorkers
  BY <1>1, <1>3 DEF InitProxy, CreateTransaction, Quit, DeinitProxy, ClearSignals, CloseForGood,
                    StopContext, JoinWorkers, From, model, txVars, context
<1>4. CASE EmitStarted
  <2>1. /\ rows' = Append(rows, owner[starting]) /\ UNCHANGED << worker, job, tx >>
        /\ gui # "gone" /\ gui' # "gone"
    BY <1>4 DEF EmitStarted, From, WithRow, txVars, context
  <2>2. Len(rows') = Len(rows) + 1
    BY <2>1
  <2> QED BY <2>1, <2>2 DEF RunInv
<1>5. CASE BeginTransaction
  <2>1. /\ owner[starting] = Len(rows) /\ UNCHANGED << worker, job, rows >>
        /\ gui # "gone" /\ gui' # "gone"
        /\ tx' = [tx EXCEPT ![owner[starting]] = "waiting"]
    BY <1>5 DEF BeginTransaction, From, HandInv, RowsInOrder, context, model
  <2> QED BY <2>1 DEF RunInv
<1>6. CASE DestroyServer
  BY <1>6 DEF DestroyServer, From, model, RunInv
<1>7. CASE DestroyModel
  BY <1>7 DEF DestroyModel, From, context, RunInv, JoinedBeforeDestroyed
<1>8. ASSUME NEW id \in Ids, OperationEnds(id) PROVE RunInv'
  BY <1>8 DEF OperationEnds, guiVars, model, context, RunInv
<1>9. CASE SignalArrives \/ (\E c \in Clients : Connects(c)) \/ AcceptCompletes \/ AcceptFails
           \/ Gone \/ UNCHANGED vars
  BY <1>1, <1>9 DEF SignalArrives, Connects, AcceptCompletes, AcceptFails, Gone, vars, guiVars,
                    model, txVars, context
<1>10. ASSUME NEW w \in Workers, WorkerStep(w) PROVE RunInv'
  <2>1. /\ gui' = gui /\ rows' = rows /\ gui # "gone"
        /\ \A v \in Workers : v # w => worker'[v] = worker[v] /\ job'[v] = job[v]
    BY <1>10, WorkerAlive DEF model
  <2>2. ASSUME worker'[w] # "run", tx' = tx PROVE RunInv'
    BY <2>1, <2>2 DEF RunInv
  <2>3. CASE AbandonAccept(w) \/ Accepted(w) \/ MakeConnection(w) \/ AcceptNext(w) \/ OnSignal(w)
             \/ LeaveRun(w) \/ TakeAccept(w) \/ TakeSignal(w)
    BY <2>2, <2>3 DEF AbandonAccept, Accepted, MakeConnection, AcceptNext, OnSignal, LeaveRun,
                      TakeAccept, TakeSignal, Takes, Continues, Returns, txVars
  <2>4. CASE OnOperation(w)
    <3>1. worker[w] = "run" /\ worker' = [worker EXCEPT ![w] = "idle"]
      BY <2>4 DEF OnOperation, Handles, Returns
    <3>2. job[w] \in Ids /\ job[w] <= Len(rows)
      BY <3>1, RowOfJob
    <3>3. PICK next \in {"waiting", "over"} : tx' = [tx EXCEPT ![job[w]] = next]
      BY <2>4 DEF OnOperation
    <3> QED BY <2>1, <3>1, <3>2, <3>3 DEF RunInv
  <2>5. ASSUME NEW id \in Ids, TakeOperation(w, id) PROVE RunInv'
    BY <2>1, <2>5 DEF TakeOperation, Takes, RunInv
  <2> QED BY <1>10, <2>3, <2>4, <2>5 DEF WorkerStep, HandlerStep
<1> QED BY <1>2, <1>3, <1>4, <1>5, <1>6, <1>7, <1>8, <1>9, <1>10, StepKinds DEF OtherThanChain

--------------------------------------------------------------------------------
\* Clients, and what is announced.

LEMMA ClientKept == ServerInv /\ [Next]_vars => ClientInv'
<1> SUFFICES ASSUME ServerInv, [Next]_vars, gui' \notin Over PROVE ClientInv'
  BY DEF ClientInv
<1> TypeOK /\ HandInv /\ ChainInv /\ ClientInv /\ JoinedBeforeDestroyed
  BY DEF ServerInv
<1> /\ client \in [Clients -> {"away", "backlog", "accepted", "reset"}]
    /\ owner \in [Clients -> Ids \cup {0}] /\ posted \in Seq(Events)
    /\ NoClient \notin Clients /\ 0 \notin Ids
  BY ClientsCounted DEF TypeOK, Ids
<1>1. ASSUME gui \notin Over, UNCHANGED << posted, socket_, starting, owner >>,
             \A c \in Clients : client'[c] = "accepted" <=> client[c] = "accepted"
      PROVE  ClientInv'
  BY <1>1 DEF ClientInv, Queued, InHand
<1>2. CASE InitProxy \/ Quit \/ DeinitProxy \/ ClearSignals \/ StopContext \/ JoinWorkers \/ EmitStarted
  BY <1>1, <1>2 DEF InitProxy, Quit, DeinitProxy, ClearSignals, StopContext, JoinWorkers, EmitStarted,
                    From, Over, queue, model, acceptVars
<1>3. CASE DestroyServer \/ DestroyModel
  BY <1>3 DEF DestroyServer, DestroyModel, From, Over
<1>4. CASE SignalArrives \/ AcceptFails \/ Gone \/ UNCHANGED vars
           \/ (\E id \in Ids : OperationEnds(id)) \/ \E c \in Clients : Connects(c)
  <2>1. UNCHANGED << gui, starting, posted, owner, socket_ >>
    BY <1>4 DEF SignalArrives, AcceptFails, Gone, OperationEnds, Connects, vars, guiVars, queue,
                model, acceptVars
  <2>2. \A c \in Clients : client'[c] = "accepted" <=> client[c] = "accepted"
    BY <1>4 DEF SignalArrives, AcceptFails, Gone, OperationEnds, Connects, vars, acceptVars
  <2> QED BY <1>1, <2>1, <2>2
<1>5. ASSUME CloseAcceptor, UNCHANGED << posted, starting, owner >>, gui \notin Over PROVE ClientInv'
  BY <1>1, <1>5 DEF CloseAcceptor
<1>6. CASE CloseForGood
  BY <1>5, <1>6 DEF CloseForGood, From, Over, queue, model
<1>7. CASE AcceptCompletes
  <2>1. UNCHANGED << gui, starting, posted, owner >> /\ socket_ = NoClient
    BY <1>7 DEF AcceptCompletes, guiVars, queue, model, ChainInv
  <2>2. PICK c \in Clients : /\ client[c] = "backlog" /\ socket_' = c
                             /\ client' = [client EXCEPT ![c] = "accepted"]
    BY <1>7 DEF AcceptCompletes
  <2> QED BY <2>1, <2>2 DEF ClientInv, Queued, InHand
<1>8. CASE Deliver
  <2>1. /\ gui = "loop" /\ posted # << >> /\ posted' = Tail(posted)
        /\ UNCHANGED << client, owner, socket_ >>
    BY <1>8 DEF Deliver, model, acceptVars
  <2>2. /\ Head(posted) = posted[1] /\ 1 \in DOMAIN posted
        /\ DOMAIN posted' = 1 .. (Len(posted) - 1)
        /\ \A i \in DOMAIN posted' : posted'[i] = posted[i + 1] /\ i + 1 \in DOMAIN posted
    BY <2>1, HeadOfQueue, TypeParts
  <2>3. \A i \in DOMAIN posted : i # 1 => i - 1 \in DOMAIN posted' /\ posted'[i - 1] = posted[i]
    BY <2>2
  <2>4. gui \notin Over /\ starting = NoClient
    BY <2>1, <1>8, DeliveredClient DEF Over
  <2>5. ASSUME NEW c \in Clients
        PROVE  /\ posted[1] = ClientEvent(c) => ~Queued(c)'
               /\ posted[1] # ClientEvent(c) => (Queued(c)' <=> Queued(c))
               /\ \A i, j \in DOMAIN posted' :
                    posted'[i] = ClientEvent(c) /\ posted'[j] = ClientEvent(c) => i = j
    <3>1. \A i, j \in DOMAIN posted :
            posted[i] = ClientEvent(c) /\ posted[j] = ClientEvent(c) => i = j
      BY <2>4 DEF ClientInv
    <3>2. posted[1] = ClientEvent(c) => ~Queued(c)'
      BY <2>2, <3>1 DEF Queued
    <3>3. posted[1] # ClientEvent(c) => (Queued(c)' <=> Queued(c))
      BY <2>2, <2>3 DEF Queued
    <3> QED BY <2>2, <3>1, <3>2, <3>3
  <2>6. CASE gui' = "create" /\ starting' \in Clients /\ Head(posted) = ClientEvent(starting')
    <3> SUFFICES ASSUME NEW c \in Clients
                 PROVE  /\ client[c] = "accepted" <=> Queued(c)' \/ socket_ = c \/ InHand(c)'
                        /\ ~(Queued(c)' /\ socket_ = c)
                        /\ ~(Queued(c)' /\ InHand(c)')
                        /\ ~(socket_ = c /\ InHand(c)')
      BY <2>1, <2>5 DEF ClientInv
    <3>1. posted[1] = ClientEvent(c) <=> c = starting'
      BY <2>2, <2>6, EventFacts
    <3>2. Queued(starting')
      BY <2>2, <2>6 DEF Queued
    <3>3. InHand(c)' <=> c = starting' \/ InHand(c)
      BY <2>1, <2>4 DEF InHand
    <3> QED BY <2>4, <2>5, <2>6, <3>1, <3>2, <3>3 DEF ClientInv
  <2>7. CASE starting' = starting /\ Head(posted).kind = "update"
    <3>1. \A c \in Clients : posted[1] # ClientEvent(c)
      BY <2>2, <2>7, EventFacts
    <3>2. \A c \in Clients : (Queued(c)' <=> Queued(c)) /\ (InHand(c)' <=> InHand(c))
      BY <2>1, <2>5, <2>7, <3>1 DEF InHand
    <3> QED BY <2>1, <2>4, <2>5, <3>2 DEF ClientInv
  <2> QED BY <1>8, <2>6, <2>7, DeliveredClient
<1>9. CASE CreateTransaction
  <2>1. /\ gui \notin Over /\ starting \in Clients /\ UNCHANGED << client, posted, socket_, starting >>
        /\ owner' = [owner EXCEPT ![starting] = next_id_] /\ next_id_ \in Ids
    BY <1>9, NextId DEF CreateTransaction, From, Over, queue, acceptVars
  <2>2. \A c \in Clients : InHand(c)' <=> InHand(c)
    BY <2>1 DEF InHand
  <2> QED BY <2>1, <2>2 DEF ClientInv, Queued
<1>10. CASE BeginTransaction
  <2>1. /\ gui \notin Over /\ UNCHANGED << client, posted, socket_, owner >>
        /\ starting' = NoClient /\ starting \in Clients /\ owner[starting] # 0
    BY <1>10 DEF BeginTransaction, From, Over, queue, model, acceptVars, HandInv, TypeOK
  <2>2. \A c \in Clients : InHand(c)' <=> InHand(c)
    BY <2>1 DEF InHand
  <2> QED BY <2>1, <2>2 DEF ClientInv, Queued
<1>11. ASSUME NEW w \in Workers, WorkerStep(w) PROVE ClientInv'
  <2>1. gui \notin Over /\ UNCHANGED << starting, owner >>
    BY <1>11, WorkerAlive DEF Over, model
  <2>2. CASE MakeConnection(w)
    <3>1. /\ socket_ \in Clients /\ client' = client /\ socket_' = NoClient
          /\ posted' = Append(posted, ClientEvent(socket_))
      BY <2>2 DEF MakeConnection, Handles, ChainInv, TypeOK
    <3>2. \A c \in Clients : Queued(c)' <=> Queued(c) \/ c = socket_
      BY <3>1, EventFacts DEF Queued
    <3>3. ASSUME NEW c \in Clients, NEW i \in DOMAIN posted', NEW j \in DOMAIN posted',
                 posted'[i] = ClientEvent(c), posted'[j] = ClientEvent(c)
          PROVE  i = j
      <4>1. CASE c = socket_
        <5>1. \A k \in DOMAIN posted : posted[k] # ClientEvent(c)
          BY <2>1, <4>1 DEF ClientInv, Queued
        <5> QED BY <3>1, <3>3, <5>1
      <4>2. CASE c # socket_
        <5>1. ClientEvent(c) # ClientEvent(socket_)
          BY <4>2, EventFacts
        <5>2. \A k, l \in DOMAIN posted :
                posted[k] = ClientEvent(c) /\ posted[l] = ClientEvent(c) => k = l
          BY <2>1 DEF ClientInv
        <5> QED BY <3>1, <3>3, <5>1, <5>2
      <4> QED BY <4>1, <4>2
    <3>4. \A c \in Clients : InHand(c)' <=> InHand(c)
      BY <2>1 DEF InHand
    <3> QED BY <2>1, <3>1, <3>2, <3>3, <3>4 DEF ClientInv
  <2>3. CASE OnOperation(w)
    <3>1. UNCHANGED << client, socket_ >>
      BY <2>3 DEF OnOperation, acceptVars
    <3>2. posted' = posted \/ posted' = Append(posted, UpdateEvent(job[w]))
      BY <2>3 DEF OnOperation
    <3>3. CASE posted' = Append(posted, UpdateEvent(job[w]))
      <4>1. \A c \in Clients : UpdateEvent(job[w]) # ClientEvent(c)
        BY EventFacts
      <4>2. \A c \in Clients : \A i \in DOMAIN posted' :
              posted'[i] = ClientEvent(c) => i \in DOMAIN posted /\ posted[i] = ClientEvent(c)
        BY <3>3, <4>1
      <4>3. \A i \in DOMAIN posted : i \in DOMAIN posted' /\ posted'[i] = posted[i]
        BY <3>3
      <4>4. \A c \in Clients : Queued(c)' <=> Queued(c)
        BY <4>2, <4>3 DEF Queued
      <4>5. \A c \in Clients : InHand(c)' <=> InHand(c)
        BY <2>1 DEF InHand
      <4> QED BY <2>1, <3>1, <4>2, <4>4, <4>5 DEF ClientInv
    <3> QED BY <1>1, <2>1, <3>1, <3>2, <3>3
  <2>4. CASE OnSignal(w)
    BY <1>5, <2>1, <2>4 DEF OnSignal, queue
  <2>5. CASE AbandonAccept(w) \/ Accepted(w) \/ AcceptNext(w) \/ LeaveRun(w) \/ TakeAccept(w)
             \/ TakeSignal(w) \/ \E id \in Ids : TakeOperation(w, id)
    BY <1>1, <2>1, <2>5 DEF AbandonAccept, Accepted, AcceptNext, LeaveRun, TakeAccept, TakeSignal,
                            TakeOperation, Takes, queue, acceptVars
  <2> QED BY <1>11, <2>2, <2>3, <2>4, <2>5 DEF WorkerStep, HandlerStep
<1> QED BY <1>2, <1>3, <1>4, <1>6, <1>7, <1>8, <1>9, <1>10, <1>11, StepKinds DEF OtherThanChain

LEMMA HeardKept == ServerInv /\ [Next]_vars => UNCHANGED << unheard, missed >>
<1> SUFFICES ASSUME ServerInv, [Next]_vars PROVE UNCHANGED << unheard, missed >>
  OBVIOUS
<1>1. CASE Deliver
  BY <1>1, DeliveredClient DEF Deliver
<1>2. ASSUME NEW w \in Workers, OnOperation(w) PROVE UNCHANGED << unheard, missed >>
  <2>1. \E i \in DOMAIN rows : rows[i] = job[w]
    BY <1>2, RowOfJob DEF OnOperation, Handles
  <2> QED BY <1>2, <2>1 DEF OnOperation
<1>3. ASSUME NEW w \in Workers, WorkerStep(w), ~OnOperation(w) PROVE UNCHANGED << unheard, missed >>
  BY <1>3 DEF WorkerStep, HandlerStep, AbandonAccept, Accepted, MakeConnection, AcceptNext, OnSignal,
              LeaveRun, TakeAccept, TakeSignal, TakeOperation, Takes, queue
<1>4. CASE CloseForGood \/ DestroyServer \/ AcceptCompletes \/ AcceptFails \/ UNCHANGED vars
  BY <1>4 DEF CloseForGood, DestroyServer, AcceptCompletes, AcceptFails, vars, queue
<1>5. CASE InitProxy \/ CreateTransaction \/ EmitStarted \/ BeginTransaction \/ DeinitProxy
           \/ ClearSignals \/ StopContext \/ JoinWorkers \/ DestroyModel \/ Quit
  BY <1>5 DEF InitProxy, CreateTransaction, EmitStarted, BeginTransaction, DeinitProxy, ClearSignals,
              StopContext, JoinWorkers, DestroyModel, Quit, queue
<1>6. CASE Gone \/ SignalArrives \/ (\E c \in Clients : Connects(c)) \/ \E id \in Ids : OperationEnds(id)
  BY <1>6 DEF Gone, SignalArrives, Connects, OperationEnds, vars, queue
<1> QED BY <1>1, <1>2, <1>3, <1>4, <1>5, <1>6, StepKinds DEF OtherThanChain

--------------------------------------------------------------------------------
\* Types.

LEMMA GuiKept == ServerInv /\ [Next]_vars => GuiOK'
<1> SUFFICES ASSUME ServerInv, [Next]_vars PROVE GuiOK'
  OBVIOUS
<1> GuiOK
  BY TypeParts DEF ServerInv
<1>1. CASE UNCHANGED << gui, starting, heard >>
  BY <1>1 DEF GuiOK
<1>2. CASE Deliver
  BY <1>2, DeliveredClient DEF Deliver, GuiOK, Serving
<1>3. CASE InitProxy \/ CreateTransaction \/ EmitStarted \/ BeginTransaction \/ DeinitProxy
           \/ ClearSignals \/ StopContext \/ JoinWorkers \/ DestroyModel \/ Quit
           \/ CloseForGood \/ DestroyServer
  BY <1>3 DEF InitProxy, CreateTransaction, EmitStarted, BeginTransaction, DeinitProxy, ClearSignals,
              StopContext, JoinWorkers, DestroyModel, Quit, CloseForGood, DestroyServer, From,
              GuiOK, Serving, Ending
<1>4. CASE Gone \/ SignalArrives \/ (\E c \in Clients : Connects(c)) \/ AcceptCompletes \/ AcceptFails
           \/ (\E id \in Ids : OperationEnds(id)) \/ UNCHANGED vars
  BY <1>1, <1>4 DEF Gone, SignalArrives, Connects, OperationEnds, AcceptCompletes, AcceptFails,
                    vars, guiVars
<1>5. ASSUME NEW w \in Workers, WorkerStep(w) PROVE UNCHANGED << gui, starting, heard >>
  BY <1>5, WorkerAlive DEF ServerInv
<1> QED BY <1>1, <1>2, <1>3, <1>4, <1>5, StepKinds DEF OtherThanChain

LEMMA QueueKept == ServerInv /\ [Next]_vars => QueueOK'
<1> SUFFICES ASSUME ServerInv, [Next]_vars PROVE QueueOK'
  OBVIOUS
<1>0. SUFFICES posted' \in Seq(Events)
  BY HeardKept, TypeParts DEF QueueOK, ServerInv
<1> TypeOK /\ ChainInv /\ posted \in Seq(Events)
  BY DEF ServerInv, TypeOK
<1>1. CASE Deliver
  BY <1>1, HeadOfQueue, TypeParts DEF Deliver
<1>2. ASSUME NEW w \in Workers, MakeConnection(w) PROVE posted' \in Seq(Events)
  <2>1. socket_ \in Clients /\ posted' = Append(posted, ClientEvent(socket_))
    BY <1>2 DEF MakeConnection, Handles, ChainInv, TypeOK
  <2> QED BY <2>1, EventFacts
<1>3. ASSUME NEW w \in Workers, OnOperation(w) PROVE posted' \in Seq(Events)
  <2>1. job[w] \in Ids
    BY <1>3, RowOfJob DEF OnOperation, Handles
  <2>2. posted' = posted \/ posted' = Append(posted, UpdateEvent(job[w]))
    BY <1>3 DEF OnOperation
  <2> QED BY <2>1, <2>2, EventFacts
<1>4. ASSUME NEW w \in Workers, WorkerStep(w), ~MakeConnection(w), ~OnOperation(w)
      PROVE  posted' = posted
  BY <1>4 DEF WorkerStep, HandlerStep, AbandonAccept, Accepted, AcceptNext, OnSignal, LeaveRun,
              TakeAccept, TakeSignal, TakeOperation, Takes, queue
<1>5. CASE DestroyModel
  <2>1. << >> \in Seq(Events)
    OBVIOUS
  <2> QED BY <1>5, <2>1 DEF DestroyModel
<1>6. CASE CloseForGood \/ DestroyServer \/ AcceptCompletes \/ AcceptFails \/ UNCHANGED vars
  BY <1>6 DEF CloseForGood, DestroyServer, AcceptCompletes, AcceptFails, vars, queue
<1>7. CASE InitProxy \/ CreateTransaction \/ EmitStarted \/ BeginTransaction \/ DeinitProxy
           \/ ClearSignals \/ StopContext \/ JoinWorkers \/ Quit
  BY <1>7 DEF InitProxy, CreateTransaction, EmitStarted, BeginTransaction, DeinitProxy, ClearSignals,
              StopContext, JoinWorkers, Quit, queue
<1>8. CASE Gone \/ SignalArrives \/ (\E c \in Clients : Connects(c)) \/ \E id \in Ids : OperationEnds(id)
  BY <1>8 DEF Gone, SignalArrives, Connects, OperationEnds, vars, queue
<1> QED BY <1>1, <1>2, <1>3, <1>4, <1>5, <1>6, <1>7, <1>8, StepKinds DEF OtherThanChain

LEMMA ModelKept == ServerInv /\ [Next]_vars => ModelOK'
<1> SUFFICES ASSUME ServerInv, [Next]_vars PROVE ModelOK'
  OBVIOUS
<1> TypeOK /\ ModelOK /\ HandInv
  BY TypeParts DEF ServerInv
<1>1. CASE UNCHANGED model
  BY <1>1 DEF model, ModelOK
<1>2. CASE CreateTransaction
  <2>1. /\ next_id_' = next_id_ + 1 /\ rows' = rows /\ next_id_ \in Ids
        /\ owner' = [owner EXCEPT ![starting] = next_id_]
    BY <1>2, NextId DEF CreateTransaction
  <2>2. next_id_' \in 1 .. (Cardinality(Clients) + 1)
    BY <2>1, ClientsCounted DEF Ids
  <2>3. owner' \in [Clients -> Ids \cup {0}] /\ rows' \in Seq(Ids)
    BY <2>1 DEF ModelOK
  <2> QED BY <2>2, <2>3 DEF ModelOK
<1>3. CASE EmitStarted
  <2>1. /\ rows' = Append(rows, owner[starting]) /\ UNCHANGED << next_id_, owner >> /\ gui = "emit"
    BY <1>3 DEF EmitStarted, From, WithRow
  <2>2. owner[starting] \in Ids
    BY <2>1 DEF HandInv, TypeOK
  <2> QED BY <2>1, <2>2 DEF ModelOK
<1>4. CASE DestroyModel
  <2>1. << >> \in Seq(Ids)
    OBVIOUS
  <2> QED BY <1>4, <2>1 DEF DestroyModel, ModelOK
<1>5. CASE InitProxy \/ Deliver \/ BeginTransaction \/ DeinitProxy \/ ClearSignals \/ StopContext
           \/ JoinWorkers \/ Quit \/ CloseForGood \/ DestroyServer \/ AcceptCompletes
           \/ AcceptFails \/ UNCHANGED vars
  BY <1>1, <1>5 DEF InitProxy, Deliver, BeginTransaction, DeinitProxy, ClearSignals, StopContext,
                    JoinWorkers, Quit, CloseForGood, DestroyServer, AcceptCompletes, AcceptFails, vars
<1>6. CASE Gone \/ SignalArrives \/ (\E c \in Clients : Connects(c)) \/ \E id \in Ids : OperationEnds(id)
  BY <1>1, <1>6 DEF Gone, SignalArrives, Connects, OperationEnds, vars
<1>7. ASSUME NEW w \in Workers, WorkerStep(w) PROVE UNCHANGED model
  BY <1>7, WorkerAlive DEF ServerInv
<1> QED BY <1>1, <1>2, <1>3, <1>4, <1>5, <1>6, <1>7, StepKinds DEF OtherThanChain

LEMMA TxKept == ServerInv /\ [Next]_vars => TxOK'
<1> SUFFICES ASSUME ServerInv, [Next]_vars PROVE TxOK'
  OBVIOUS
<1> TypeOK /\ TxOK /\ HandInv
  BY TypeParts DEF ServerInv
<1>1. CASE UNCHANGED txVars
  BY <1>1 DEF txVars, TxOK
<1>2. CASE BeginTransaction
  BY <1>2 DEF BeginTransaction, TxOK
<1>3. CASE DestroyServer
  BY <1>3 DEF DestroyServer, TxOK
<1>4. ASSUME NEW id \in Ids, OperationEnds(id) PROVE TxOK'
  BY <1>4 DEF OperationEnds, TxOK
<1>5. ASSUME NEW w \in Workers, NEW id \in Ids, TakeOperation(w, id) PROVE TxOK'
  BY <1>5 DEF TakeOperation, TxOK
<1>6. ASSUME NEW w \in Workers, OnOperation(w) PROVE TxOK'
  <2>1. PICK next \in {"waiting", "over"} : tx' = [tx EXCEPT ![job[w]] = next]
    BY <1>6 DEF OnOperation
  <2>2. \/ updates' = updates
        \/ updates[job[w]] < MaxUpdates /\ updates' = [updates EXCEPT ![job[w]] = @ + 1]
    BY <1>6 DEF OnOperation
  <2>3. job[w] \in Ids
    BY <1>6, RowOfJob DEF OnOperation, Handles
  <2>4. updates' \in [Ids -> 0 .. MaxUpdates]
    BY <2>2, <2>3, MaxUpdatesAssumption DEF TxOK
  <2> QED BY <2>1, <2>4 DEF TxOK
<1>7. ASSUME NEW w \in Workers, WorkerStep(w), ~OnOperation(w),
             \A id \in Ids : ~TakeOperation(w, id)
      PROVE  UNCHANGED txVars
  BY <1>7 DEF WorkerStep, HandlerStep, AbandonAccept, Accepted, MakeConnection, AcceptNext, OnSignal,
              LeaveRun, TakeAccept, TakeSignal
<1>8. CASE InitProxy \/ Deliver \/ CreateTransaction \/ EmitStarted \/ DeinitProxy \/ ClearSignals
           \/ StopContext \/ JoinWorkers \/ DestroyModel \/ Quit
  BY <1>1, <1>8 DEF InitProxy, Deliver, CreateTransaction, EmitStarted, DeinitProxy, ClearSignals,
                    StopContext, JoinWorkers, DestroyModel, Quit
<1>9. CASE CloseForGood \/ AcceptCompletes \/ AcceptFails \/ Gone \/ SignalArrives
           \/ (\E c \in Clients : Connects(c)) \/ UNCHANGED vars
  BY <1>1, <1>9 DEF CloseForGood, AcceptCompletes, AcceptFails, Gone, SignalArrives, Connects, vars
<1> QED BY <1>1, <1>2, <1>3, <1>4, <1>5, <1>6, <1>7, <1>8, <1>9, StepKinds DEF OtherThanChain

LEMMA AcceptKept == ServerInv /\ [Next]_vars => AcceptOK'
<1> SUFFICES ASSUME ServerInv, [Next]_vars PROVE AcceptOK'
  OBVIOUS
<1> TypeOK /\ AcceptOK
  BY TypeParts DEF ServerInv
<1>1. CASE UNCHANGED acceptVars
  BY <1>1 DEF acceptVars, AcceptOK
<1>2. ASSUME NEW c \in Clients, Connects(c) PROVE AcceptOK'
  BY <1>2 DEF Connects, AcceptOK
<1>3. CASE AcceptCompletes \/ AcceptFails
  BY <1>3 DEF AcceptCompletes, AcceptFails, AcceptOK
<1>4. CASE CloseAcceptor
  BY <1>4 DEF CloseAcceptor, AcceptOK
<1>5. CASE DestroyServer
  BY <1>5 DEF DestroyServer, AcceptOK
<1>6. ASSUME NEW w \in Workers, TakeAccept(w) \/ MakeConnection(w) \/ AcceptNext(w) PROVE AcceptOK'
  BY <1>6 DEF TakeAccept, MakeConnection, AcceptNext, Armed, AcceptOK
<1>7. ASSUME NEW w \in Workers, WorkerStep(w), ~TakeAccept(w), ~MakeConnection(w), ~AcceptNext(w)
      PROVE  UNCHANGED acceptVars \/ CloseAcceptor
  BY <1>7 DEF WorkerStep, HandlerStep, AbandonAccept, Accepted, OnSignal, OnOperation, LeaveRun,
              TakeSignal, TakeOperation
<1>8. CASE InitProxy \/ Deliver \/ CreateTransaction \/ EmitStarted \/ BeginTransaction \/ DeinitProxy
           \/ ClearSignals \/ StopContext \/ JoinWorkers \/ DestroyModel \/ Quit
  BY <1>1, <1>8 DEF InitProxy, Deliver, CreateTransaction, EmitStarted, BeginTransaction, DeinitProxy,
                    ClearSignals, StopContext, JoinWorkers, DestroyModel, Quit
<1>9. CASE CloseForGood \/ Gone \/ SignalArrives \/ (\E id \in Ids : OperationEnds(id))
           \/ UNCHANGED vars
  BY <1>1, <1>4, <1>9 DEF CloseForGood, Gone, SignalArrives, OperationEnds, vars
<1> QED BY <1>1, <1>2, <1>3, <1>4, <1>5, <1>6, <1>7, <1>8, <1>9, StepKinds DEF OtherThanChain

LEMMA ContextKept == ServerInv /\ [Next]_vars => ContextOK'
<1> SUFFICES ASSUME ServerInv, [Next]_vars PROVE ContextOK'
  OBVIOUS
<1> TypeOK /\ ContextOK
  BY TypeParts DEF ServerInv
<1>1. CASE UNCHANGED context
  BY <1>1 DEF context, ContextOK
<1>2. CASE SignalArrives \/ StopContext \/ DestroyServer
  BY <1>2 DEF SignalArrives, StopContext, DestroyServer, ContextOK
<1>3. ASSUME NEW w \in Workers, Returns(w), signal' = signal PROVE ContextOK'
  BY <1>3 DEF Returns, ContextOK
<1>4. ASSUME NEW w \in Workers, Accepted(w) \/ MakeConnection(w) PROVE ContextOK'
  BY <1>4 DEF Accepted, MakeConnection, Continues, ContextOK, InHandler
<1>5. ASSUME NEW w \in Workers, LeaveRun(w) \/ TakeAccept(w) \/ TakeSignal(w) PROVE ContextOK'
  BY <1>5 DEF LeaveRun, TakeAccept, TakeSignal, Takes, ContextOK, InHandler
<1>6. ASSUME NEW w \in Workers, NEW id \in Ids, TakeOperation(w, id) PROVE ContextOK'
  BY <1>6 DEF TakeOperation, Takes, ContextOK, InHandler
<1>7. ASSUME NEW w \in Workers, AbandonAccept(w) \/ AcceptNext(w) \/ OnSignal(w) \/ OnOperation(w)
      PROVE  ContextOK'
  BY <1>3, <1>7 DEF AbandonAccept, AcceptNext, OnSignal, OnOperation
<1>8. CASE InitProxy \/ Deliver \/ CreateTransaction \/ EmitStarted \/ BeginTransaction \/ DeinitProxy
           \/ ClearSignals \/ JoinWorkers \/ DestroyModel \/ Quit
  BY <1>1, <1>8 DEF InitProxy, Deliver, CreateTransaction, EmitStarted, BeginTransaction, DeinitProxy,
                    ClearSignals, JoinWorkers, DestroyModel, Quit
<1>9. CASE CloseForGood \/ AcceptCompletes \/ AcceptFails \/ Gone \/ (\E c \in Clients : Connects(c))
           \/ (\E id \in Ids : OperationEnds(id)) \/ UNCHANGED vars
  BY <1>1, <1>9 DEF CloseForGood, AcceptCompletes, AcceptFails, Gone, Connects, OperationEnds, vars
<1> QED BY <1>2, <1>4, <1>5, <1>6, <1>7, <1>8, <1>9, StepKinds DEF OtherThanChain, WorkerStep, HandlerStep

--------------------------------------------------------------------------------
\* The theorems.

LEMMA NextKeepsServerInv == ServerInv /\ [Next]_vars => ServerInv'
<1> SUFFICES ASSUME ServerInv, [Next]_vars PROVE ServerInv'
  OBVIOUS
<1>1. TypeOK'
  BY GuiKept, QueueKept, ModelKept, TxKept, AcceptKept, ContextKept
     DEF TypeOK, GuiOK, QueueOK, ModelOK, TxOK, AcceptOK, ContextOK
<1>2. NothingUnheard'
  BY HeardKept DEF ServerInv, NothingUnheard
<1>3. JoinedBeforeDestroyed'
  BY JoinKept DEF ServerInv
<1> QED BY <1>1, <1>2, <1>3, ChainKept, HandKept, RunKept, ClientKept DEF ServerInv

LEMMA AlwaysServerInv == Spec => []ServerInv
<1> QED BY InitServerInv, NextKeepsServerInv, PTL DEF Spec

LEMMA OneChain == ServerInv => OneAcceptChain
<1> SUFFICES ASSUME ServerInv, gui # "destroyed", gui # "gone"
             PROVE  AcceptUsers <= 1 /\ (acceptor /\ ~failed => AcceptUsers = 1)
  BY DEF OneAcceptChain
<1> DEFINE S == { w \in Workers : worker[w] \in {"accepted", "refused", "make", "arm"} }
<1> ChainInv /\ gui \notin Over
  BY DEF ServerInv, Over
<1>1. CASE \E w \in Workers : Accepting(w)
  <2>1. PICK w \in Workers : Accepting(w)
    BY <1>1
  <2>2. S = {w} /\ accept = "none"
    BY <2>1 DEF ChainInv, Accepting
  <2>3. Cardinality(S) = 1
    BY <2>2, FS_Singleton
  <2> QED BY <2>2, <2>3 DEF AcceptUsers
<1>2. CASE \A w \in Workers : ~Accepting(w)
  <2>1. S = {}
    BY <1>2 DEF Accepting
  <2>2. Cardinality(S) = 0
    BY <2>1, FS_EmptySet
  <2>3. acceptor /\ ~failed => accept # "none"
    BY <1>2 DEF ChainInv
  <2> QED BY <2>2, <2>3 DEF AcceptUsers
<1> QED BY <1>1, <1>2

LEMMA Accounted == ServerInv => EveryClientAccounted
<1> SUFFICES ASSUME ServerInv, gui # "destroyed", gui # "gone",
                    NEW c \in Clients, client[c] = "accepted"
             PROVE  Cardinality(Posted(c))
                    + Cardinality({ p \in {"socket", "proxy", "nobody"} :
                                      \/ p = "socket" /\ socket_ = c
                                      \/ p = "proxy"  /\ (starting = c \/ owner[c] # 0)
                                      \/ p = "nobody" /\ c \in unheard }) = 1
  BY DEF EveryClientAccounted
<1> DEFINE Held == { p \in {"socket", "proxy", "nobody"} :
                       \/ p = "socket" /\ socket_ = c
                       \/ p = "proxy"  /\ (starting = c \/ owner[c] # 0)
                       \/ p = "nobody" /\ c \in unheard }
<1> ClientInv /\ gui \notin Over /\ unheard = {}
  BY DEF ServerInv, NothingUnheard, Over
<1>1. /\ Queued(c) \/ socket_ = c \/ InHand(c)
      /\ ~(Queued(c) /\ socket_ = c) /\ ~(Queued(c) /\ InHand(c)) /\ ~(socket_ = c /\ InHand(c))
      /\ \A i, j \in DOMAIN posted :
           posted[i] = ClientEvent(c) /\ posted[j] = ClientEvent(c) => i = j
  BY DEF ClientInv
<1>2. Cardinality({}) = 0 /\ \A x : Cardinality({x}) = 1
  BY FS_EmptySet, FS_Singleton
<1>3. CASE Queued(c)
  <2>1. Held = {}
    BY <1>1, <1>3 DEF InHand
  <2>2. PICK i \in DOMAIN posted : posted[i] = ClientEvent(c)
    BY <1>3 DEF Queued
  <2>3. Posted(c) = {i}
    BY <1>1, <2>2 DEF Posted
  <2>4. Cardinality(Posted(c)) = 1 /\ Cardinality(Held) = 0
    BY <1>2, <2>1, <2>3
  <2> QED BY <2>4
<1>4. CASE ~Queued(c)
  <2>1. Posted(c) = {}
    BY <1>4 DEF Queued, Posted
  <2>2. Held = {"socket"} \/ Held = {"proxy"}
    BY <1>1, <1>4 DEF InHand
  <2>3. Cardinality(Posted(c)) = 0 /\ Cardinality(Held) = 1
    BY <1>2, <2>1, <2>2
  <2> QED BY <2>3
<1> QED BY <1>3, <1>4

\* Every variable of the service keeps its shape, for any number of clients and workers.
THEOREM ServerTypes == Spec => []TypeOK
<1>1. ServerInv => TypeOK
  BY DEF ServerInv
<1> QED BY <1>1, AlwaysServerInv, PTL

\* Server::do_accept's chain: whichever workers run its handlers, at most one has
\* socket_ at a time, and an open acceptor that has not failed is being accepted on.
THEOREM AcceptsOneAtATime == Spec => []OneAcceptChain
<1> QED BY OneChain, AlwaysServerInv, PTL

\* From do_accept through ConnectionPool to Proxy::on_client_connected, no client is
\* dropped and none is handed on twice.
THEOREM NoClientLost == Spec => []EveryClientAccounted
<1> QED BY Accounted, AlwaysServerInv, PTL

\* Proxy::init comes before the event loop, and a row before the transaction it is of
\* begins: no signal is raised without its receiver.
THEOREM EverySignalHeard == Spec => []NothingUnheard
<1>1. ServerInv => NothingUnheard
  BY DEF ServerInv
<1> QED BY <1>1, AlwaysServerInv, PTL

\* ~Server joins every worker before io_context_ and the sockets are destroyed.
THEOREM WorkersJoined == Spec => []JoinedBeforeDestroyed
<1>1. ServerInv => JoinedBeforeDestroyed
  BY DEF ServerInv
<1> QED BY <1>1, AlwaysServerInv, PTL

\* The rows of TransactionModel are in the order of the ids Proxy gives out, which is
\* what the binary search of transactionUpdated relies on.
THEOREM RowsStayInOrder == Spec => []RowsInOrder
<1>1. ServerInv => RowsInOrder
  BY DEF ServerInv
<1> QED BY <1>1, AlwaysServerInv, PTL

--------------------------------------------------------------------------------
\* The binary search.

\* A set of natural numbers that is not empty has a least one.
LEMMA LeastNumber ==
  ASSUME NEW T \in SUBSET Nat, T # {}
  PROVE  \E x \in T : \A y \in T : ~(y < x)
<1> DEFINE R == { ss \in Nat \X Nat : ss[1] < ss[2] }
<1>1. IsWellFoundedOn(R, Nat)
  BY NatLessThanWellFounded DEF OpToRel
<1> HIDE DEF R
<1>2. PICK x \in T : \A y \in T : ~(<< y, x >> \in R)
  BY <1>1, WFMin
<1> QED BY <1>2 DEF R

\* Where an id belongs in a span of rows that are in order.
Place(id, r) == IF id < r[1] THEN r[1] ELSE IF id > r[1] + r[2] THEN r[1] + r[2] ELSE id

\* One halving of a span: the two spans it may go on with.
Half(r)  == r[2] \div 2
Above(r) == << r[1] + Half(r) + 1, r[2] - Half(r) - 1 >>
Below(r) == << r[1], Half(r) >>

\* Halving a span of rows in order keeps the place of an id.
LEMMA Halving ==
  ASSUME rows \in Seq(Ids), RowsInOrder, NEW id \in Nat, NEW r \in Spans, r[2] # 0
  PROVE  /\ Above(r) \in Spans /\ Above(r)[2] < r[2]
         /\ Below(r) \in Spans /\ Below(r)[2] < r[2]
         /\ rows[r[1] + Half(r)] = r[1] + Half(r)
         /\ r[1] + Half(r) < id => Place(id, Above(r)) = Place(id, r)
         /\ ~(r[1] + Half(r) < id) => Place(id, Below(r)) = Place(id, r)
<1> DEFINE lo == r[1]
           n == r[2]
           h == n \div 2
<1>1. lo \in Nat \ {0} /\ n \in Nat \ {0} /\ lo + n <= Len(rows) + 1 /\ Len(rows) \in Nat
  BY DEF Spans
<1>2. h \in Nat /\ h < n
  BY <1>1
<1> HIDE DEF h
<1>3. lo + h \in 1 .. Len(rows)
  BY <1>1, <1>2
<1>4. rows[lo + h] = lo + h
  BY <1>3 DEF RowsInOrder
<1>5. /\ << lo + h + 1, n - h - 1 >> \in Spans
      /\ << lo, h >> \in Spans
  BY <1>1, <1>2 DEF Spans
<1>6. Above(r) = << lo + h + 1, n - h - 1 >> /\ Below(r) = << lo, h >> /\ Half(r) = h
  BY DEF Half, Above, Below, h
<1>7. n - h - 1 < n
  BY <1>1, <1>2
<1>8. lo + h < id => Place(id, << lo + h + 1, n - h - 1 >>) = Place(id, r)
  BY <1>1, <1>2 DEF Place
<1>9. ~(lo + h < id) => Place(id, << lo, h >>) = Place(id, r)
  BY <1>1, <1>2 DEF Place
<1> QED BY <1>2, <1>4, <1>5, <1>6, <1>7, <1>8, <1>9

\* The search, as the function it defines.
Searched(id, g) ==
  [ r \in Spans |-> IF r[2] = 0 THEN r[1]
                    ELSE IF rows[r[1] + Half(r)] < id THEN g[Above(r)] ELSE g[Below(r)] ]

\* There is such a function: the one that gives the places.
LEMMA SearchDefined ==
  ASSUME rows \in Seq(Ids), RowsInOrder, NEW id \in Nat
  PROVE  \E g : g = Searched(id, g)
<1> DEFINE g == [ r \in Spans |-> Place(id, r) ]
<1>1. ASSUME NEW r \in Spans PROVE g[r] = Searched(id, g)[r]
  <2>1. CASE r[2] = 0
    BY <2>1 DEF Searched, Place, Spans
  <2>2. CASE r[2] # 0
    BY <2>2, Halving DEF Searched
  <2> QED BY <2>1, <2>2
<1>2. g = Searched(id, g)
  BY <1>1 DEF Searched
<1> QED BY <1>2

\* And it is that one: the least span it would be wrong on has a shorter one.
LEMMA SearchFinds ==
  ASSUME rows \in Seq(Ids), RowsInOrder, NEW id \in Nat, NEW g, g = Searched(id, g)
  PROVE  \A r \in Spans : g[r] = Place(id, r)
<1> DEFINE T == { n \in Nat : \E r \in Spans : r[2] = n /\ g[r] # Place(id, r) }
<1>1. ASSUME T # {} PROVE FALSE
  <2>1. PICK n \in T : \A m \in T : ~(m < n)
    <3>1. T \in SUBSET Nat
      OBVIOUS
    <3> HIDE DEF T
    <3> QED BY <1>1, <3>1, LeastNumber
  <2>2. PICK r \in Spans : r[2] = n /\ g[r] # Place(id, r)
    BY <2>1
  <2>3. g[r] = Searched(id, g)[r]
    OBVIOUS
  <2>4. r[2] # 0
    BY <2>2, <2>3 DEF Searched, Place, Spans
  <2>5. \A s \in Spans : s[2] < n => g[s] = Place(id, s)
    BY <2>1 DEF Spans
  <2>6. /\ Above(r) \in Spans /\ Above(r)[2] < n
        /\ Below(r) \in Spans /\ Below(r)[2] < n
    BY <2>2, <2>4, Halving
  <2>7. Searched(id, g)[r] = Place(id, r)
    BY <2>4, <2>5, <2>6, Halving DEF Searched
  <2> QED BY <2>2, <2>3, <2>7
<1>2. \A r \in Spans : r[2] \in Nat
  BY DEF Spans
<1> QED BY <1>1, <1>2

\* A binary search over rows in order finds the row of an id that has one.
LEMMA SearchIsRight ==
  ASSUME rows \in Seq(Ids), RowsInOrder, NEW id \in 1 .. Len(rows)
  PROVE  LowerBound(id) = id
<1> DEFINE g == CHOOSE f : f = Searched(id, f)
<1>1. g = Searched(id, g)
  BY SearchDefined
<1>2. << 1, Len(rows) >> \in Spans
  BY DEF Spans
<1>3. g[<< 1, Len(rows) >>] = id
  <2> HIDE DEF g
  <2>1. g[<< 1, Len(rows) >>] = Place(id, << 1, Len(rows) >>)
    BY <1>1, <1>2, SearchFinds
  <2> QED BY <2>1 DEF Place
<1>4. LowerBound(id) = g[<< 1, Len(rows) >>]
  BY DEF LowerBound, Searched, Above, Below, Half
<1> QED BY <1>3, <1>4

\* The updates that are on their way are of transactions that have a row.
UpdatesHaveRows ==
  \A i \in DOMAIN posted : posted[i].kind = "update" => posted[i].id \in 1 .. Len(rows)

\* Every step keeps that: a signal is posted only for a row, and rows only grow.
LEMMA UpdatesKept == ServerInv /\ UpdatesHaveRows /\ [Next]_vars => UpdatesHaveRows'
<1> SUFFICES ASSUME ServerInv, UpdatesHaveRows, [Next]_vars PROVE UpdatesHaveRows'
  OBVIOUS
<1>t. posted \in Seq(Events) /\ rows \in Seq(Ids) /\ Len(rows) \in Nat
  BY DEF ServerInv, TypeOK
<1>0. ASSUME UNCHANGED << posted, rows >> PROVE UpdatesHaveRows'
  BY <1>0 DEF UpdatesHaveRows
<1>1. ASSUME NEW e, posted' = Append(posted, e), rows' = rows,
             e.kind = "update" => e.id \in 1 .. Len(rows)
      PROVE  UpdatesHaveRows'
  <2>1. ASSUME NEW i \in DOMAIN posted' PROVE i \in DOMAIN posted \/ posted'[i] = e
    BY <1>t, <1>1
  <2>2. ASSUME NEW i \in DOMAIN posted PROVE posted'[i] = posted[i]
    BY <1>t, <1>1
  <2> QED BY <1>1, <2>1, <2>2 DEF UpdatesHaveRows
<1>2. CASE Deliver
  <2>1. posted # << >> /\ posted' = Tail(posted) /\ rows' = rows
    BY <1>2 DEF Deliver, model
  <2>2. ASSUME NEW i \in DOMAIN posted' PROVE i + 1 \in DOMAIN posted /\ posted'[i] = posted[i + 1]
    BY <1>t, <2>1
  <2> QED BY <2>1, <2>2 DEF UpdatesHaveRows
<1>3. CASE EmitStarted
  <2>1. posted' = posted /\ Len(rows') = Len(rows) + 1
    BY <1>t, <1>3 DEF EmitStarted, WithRow, queue
  <2> QED BY <1>t, <2>1 DEF UpdatesHaveRows
<1>4. CASE DestroyModel
  BY <1>4 DEF DestroyModel, UpdatesHaveRows
<1>5. ASSUME NEW w \in Workers, WorkerStep(w) PROVE UpdatesHaveRows'
  <2>1. rows' = rows
    BY <1>5, WorkerAlive DEF ServerInv, model
  <2>2. CASE MakeConnection(w)
    BY <1>1, <2>1, <2>2, EventFacts DEF MakeConnection
  <2>3. CASE OnOperation(w)
    <3>1. job[w] \in DOMAIN rows
      BY <2>3, RowOfJob DEF OnOperation, Handles
    <3>2. UpdateEvent(job[w]).id \in 1 .. Len(rows)
      BY <1>t, <3>1 DEF UpdateEvent
    <3>3. posted' = posted \/ posted' = Append(posted, UpdateEvent(job[w]))
      BY <2>3 DEF OnOperation
    <3> QED BY <1>0, <1>1, <2>1, <3>2, <3>3
  <2>4. CASE ~MakeConnection(w) /\ ~OnOperation(w)
    BY <1>0, <1>5, <2>1, <2>4 DEF WorkerStep, HandlerStep, AbandonAccept, Accepted, AcceptNext,
       OnSignal, LeaveRun, TakeAccept, TakeSignal, TakeOperation, Takes, queue
  <2> QED BY <2>2, <2>3, <2>4
<1>6. CASE CloseForGood \/ DestroyServer \/ AcceptCompletes \/ AcceptFails \/ UNCHANGED vars
  BY <1>0, <1>6 DEF CloseForGood, DestroyServer, AcceptCompletes, AcceptFails, vars, queue, model
<1>7. CASE InitProxy \/ CreateTransaction \/ BeginTransaction \/ DeinitProxy
           \/ ClearSignals \/ StopContext \/ JoinWorkers \/ Quit
  BY <1>0, <1>7 DEF InitProxy, CreateTransaction, BeginTransaction, DeinitProxy, ClearSignals,
     StopContext, JoinWorkers, Quit, queue, model
<1>8. CASE Gone \/ SignalArrives \/ (\E c \in Clients : Connects(c)) \/ \E id \in Ids : OperationEnds(id)
  BY <1>0, <1>8 DEF Gone, SignalArrives, Connects, OperationEnds, vars, queue, model
<1> QED BY <1>2, <1>3, <1>4, <1>5, <1>6, <1>7, <1>8, StepKinds DEF OtherThanChain

\* Every signal on its way finds the row of its transaction: the binary search of
\* TransactionModel::transactionUpdated, over the rows transactionStarted appends.
THEOREM EveryUpdateFindsItsRow == Spec => []UpdatesFindTheirRow
<1>1. Init => UpdatesHaveRows
  BY DEF Init, UpdatesHaveRows
<1>2. ServerInv /\ UpdatesHaveRows => UpdatesFindTheirRow
  <2> SUFFICES ASSUME ServerInv, UpdatesHaveRows, NEW i \in DOMAIN posted, posted[i].kind = "update"
               PROVE  LowerBound(posted[i].id) <= Len(rows)
                      /\ rows[LowerBound(posted[i].id)] = posted[i].id
    BY DEF UpdatesFindTheirRow
  <2>1. posted[i].id \in 1 .. Len(rows) /\ rows \in Seq(Ids) /\ RowsInOrder
    BY DEF UpdatesHaveRows, ServerInv, TypeOK
  <2>2. LowerBound(posted[i].id) = posted[i].id
    BY <2>1, SearchIsRight
  <2> QED BY <2>1, <2>2 DEF RowsInOrder
<1> QED BY <1>1, <1>2, UpdatesKept, AlwaysServerInv, PTL DEF Spec

================================================================================

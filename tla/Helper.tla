---------------------------------- MODULE Helper ----------------------------------
(***************************************************************************)
(* The privileged helper of macOS and its protocol: the connections of     *)
(* XpcServer, the rights AuthorizedService asks for, TrustyService, which  *)
(* edits the settings of the primary network service under the lock of the *)
(* system's preferences, and the client's end, XpcServiceClient.           *)
(*                                                                         *)
(* Each connection has its own handler; those of several connections       *)
(* interleave.  A client waits for the answer to its message before it     *)
(* sends the next, but it may go away at any time, and its last message    *)
(* may still be under way then.                                            *)
(***************************************************************************)
EXTENDS Naturals, FiniteSets

CONSTANTS Connections,   \* connections that exist at the same time
          NoConnection,  \* none of them
          Addresses,     \* a host with its port
          NoAddress,     \* the empty host
          MaxMishaps     \* bound: failures and interventions in a behaviour

ASSUME ConnectionsAssumption == NoConnection \notin Connections
ASSUME AddressesAssumption   == NoAddress \notin Addresses
ASSUME MaxMishapsAssumption  == MaxMishaps \in Nat

VARIABLES
  stored, applied,  \* the proxy dictionary, as stored and as in force
  lock,             \* whose PreferencesLocker has the lock
  tool,             \* the installed helper
  signing,          \* whether XPC checks a client's requirement (macOS 12), or an
                    \* earlier macOS, where XpcServer validates it by itself
  open,             \* connections the client has not cancelled
  conn,             \* the server's end of each
  known,            \* the keys of m_connections
  stage, message,   \* where each connection's handler is, and with what
  draft,            \* the edited copy of the dictionary
  reply,            \* the answer on its way to the client
  mishaps

settings    == << stored, applied >>
link        == << open, conn, known >>
handling    == << stage, message, draft, reply >>
helper      == << settings, lock, tool, signing, link, handling >>
helperVars  == << helper, mishaps >>

--------------------------------------------------------------------------------
\* ProxyState, the dictionary of a network service, and the messages.

Hosts == Addresses \cup {NoAddress}

ProxyStates == [ enabled : BOOLEAN, host : Hosts ]
Disabled    == [ enabled |-> FALSE, host |-> NoAddress ]

\* rest: the keys beside those of the HTTP proxy.
Dictionaries == [ enabled : BOOLEAN, host : Hosts, rest : BOOLEAN ]
NoDictionary == [ enabled |-> FALSE, host |-> NoAddress, rest |-> FALSE ]

StateOf(dictionary) == [ enabled |-> dictionary.enabled, host |-> dictionary.host ]

\* set_http_proxy_state: with an empty host the copy stays null, and the whole
\* dictionary goes.
Edited(dictionary, state) ==
  IF state.host = NoAddress
  THEN NoDictionary
  ELSE [ dictionary EXCEPT !.enabled = state.enabled, !.host = state.host ]

MessageTypes == {"Hello", "GetToolVersion", "GetProxyState", "SetProxyState"}
Tools        == {"absent", "old", "current"}

Request(type)     == [ type |-> type, state |-> Disabled ]
SetProxyState(s)  == [ type |-> "SetProxyState", state |-> s ]
Messages == { Request(type) : type \in MessageTypes \ {"SetProxyState"} }
            \cup { SetProxyState(s) : s \in ProxyStates }

Reply(type)      == [ type |-> type, state |-> Disabled, version |-> "absent" ]
StateReply(s)    == [ Reply("GetProxyState") EXCEPT !.state = s ]
VersionReply     == [ Reply("GetToolVersion") EXCEPT !.version = tool ]
Error            == Reply("Error")
NoReply          == Reply("none")
Replies == [ type : MessageTypes \cup {"Error", "none"}, state : ProxyStates, version : Tools ]

Stages  == {"idle", "sent", "authorize", "get", "lock", "edit", "commit", "apply", "unlock"}
Locking == {"edit", "commit", "apply", "unlock"}

HelperInit ==
  /\ stored \in Dictionaries /\ applied = stored /\ lock = NoConnection
  /\ tool \in Tools
  /\ signing \in {"requirement", "earlier"}
  /\ open = [ c \in Connections |-> FALSE ]
  /\ conn = [ c \in Connections |-> "none" ]
  /\ known = {}
  /\ stage = [ c \in Connections |-> "idle" ]
  /\ message = [ c \in Connections |-> Request("Hello") ]
  /\ draft = [ c \in Connections |-> NoDictionary ]
  /\ reply = [ c \in Connections |-> NoReply ]
  /\ mishaps = 0

Mishap == mishaps < MaxMishaps /\ mishaps' = mishaps + 1
Smooth == UNCHANGED mishaps

--------------------------------------------------------------------------------
\* XpcServiceClient.  Its event handler never runs: weak_from_this() is empty
\* in a constructor.

Sends(c, m) == /\ stage' = [ stage EXCEPT ![c] = "sent" ]
               /\ message' = [ message EXCEPT ![c] = m ]
               /\ reply' = [ reply EXCEPT ![c] = NoReply ]
               /\ UNCHANGED draft

\* The constructor: a new connection, and Hello.
Connect(c) == /\ conn[c] = "none"
              /\ conn' = [ conn EXCEPT ![c] = "new" ]
              /\ open' = [ open EXCEPT ![c] = TRUE ]
              /\ Sends(c, Request("Hello"))
              /\ UNCHANGED << settings, lock, tool, signing, known, mishaps >>

Answered(c) == open[c] /\ reply[c] # NoReply

\* The next message, once send_message has returned for the one before.
Ask(c, m) == /\ Answered(c)
             /\ Sends(c, m)
             /\ UNCHANGED << settings, lock, tool, signing, link, mishaps >>

\* ~XpcServiceClient, or the end of the process with all its connections.
Closes(S) == /\ open' = [ c \in Connections |-> open[c] /\ c \notin S ]
             /\ reply' = [ c \in Connections |-> IF c \in S THEN NoReply ELSE reply[c] ]
             /\ UNCHANGED << settings, lock, tool, signing, conn, known,
                             stage, message, draft >>

\* The client goes, wherever it is.
HangUp(S) == Closes(S) /\ (Smooth \/ Mishap)

--------------------------------------------------------------------------------
\* XpcServer.

Answers(c, r) == /\ stage' = [ stage EXCEPT ![c] = "idle" ]
                 /\ reply' = [ reply EXCEPT ![c] = IF open[c] THEN r ELSE NoReply ]
                 /\ UNCHANGED << message, draft >>

GoesOn(c, place) == /\ stage' = [ stage EXCEPT ![c] = place ]
                    /\ UNCHANGED << message, draft, reply >>

\* xpc_connection_set_peer_code_signing_requirement returns 0 when the
\* requirement is set, and isClientSignatureValid compares that with != 0.
SetRequirementStatus   == 0
IsClientSignatureValid == signing = "requirement" => SetRequirementStatus # 0

\* Nobody to talk to: launchd knows no such service.
NoService(c) == /\ stage[c] = "sent" /\ conn[c] = "new" /\ tool = "absent"
                /\ Answers(c, Error)
                /\ UNCHANGED << settings, lock, tool, signing, link, mishaps >>

\* handleIncomingConnection, at the first message of a connection.
Accept(c) ==
  /\ stage[c] = "sent" /\ conn[c] = "new" /\ tool # "absent"
  /\ IsClientSignatureValid
  /\ conn' = [ conn EXCEPT ![c] = "served" ]
  /\ UNCHANGED << settings, lock, tool, signing, open, known, handling, mishaps >>

\* The code only returns, without activating or cancelling the connection.  That
\* the client's call then ends in an error is what is expected of the XPC runtime
\* when the last reference to the connection goes.
DropInSilence(c) ==
  /\ stage[c] = "sent" /\ conn[c] = "new" /\ tool # "absent"
  /\ ~IsClientSignatureValid
  /\ conn' = [ conn EXCEPT ![c] = "dropped" ]
  /\ UNCHANGED << settings, lock, tool, signing, open, known, handling, mishaps >>

Drop(c) ==
  /\ stage[c] = "sent" /\ conn[c] = "new" /\ tool # "absent"
  /\ ~IsClientSignatureValid
  /\ conn' = [ conn EXCEPT ![c] = "dropped" ]
  /\ Answers(c, Error)
  /\ UNCHANGED << settings, lock, tool, signing, open, known, mishaps >>

Arrives(c) == stage[c] = "sent" /\ conn[c] = "served"

\* handleIncomingMessage: Hello makes the AuthorizedService of a connection ...
Greet(c) ==
  /\ Arrives(c) /\ c \notin known /\ message[c].type = "Hello"
  /\ \/ known' = known \cup {c} /\ Answers(c, Reply("Hello")) /\ Smooth
     \/ UNCHANGED known /\ Answers(c, Error) /\ Mishap
  /\ UNCHANGED << settings, lock, tool, signing, open, conn >>

\* ... and nothing else is served before it, nor Hello after it.
Refuse(c) ==
  /\ Arrives(c)
  /\ c \in known <=> message[c].type = "Hello"
  /\ Answers(c, Error)
  /\ UNCHANGED << settings, lock, tool, signing, link, mishaps >>

Dispatch(c) ==
  /\ Arrives(c) /\ c \in known /\ message[c].type # "Hello"
  /\ GoesOn(c, "authorize")
  /\ UNCHANGED << settings, lock, tool, signing, link, mishaps >>

\* What a client that has gone sent last may get lost on the way.
Lost(c) ==
  /\ stage[c] = "sent" /\ ~open[c]
  /\ GoesOn(c, "idle")
  /\ UNCHANGED << settings, lock, tool, signing, link, mishaps >>

\* CleanUpConnection, when nothing refers to the connection any more.
CleanUpWithoutErasing(c) ==
  /\ conn[c] # "none" /\ ~open[c] /\ stage[c] = "idle"
  /\ conn' = [ conn EXCEPT ![c] = "none" ]
  /\ message' = [ message EXCEPT ![c] = Request("Hello") ]
  /\ UNCHANGED << settings, lock, tool, signing, known, open, stage, draft, reply, mishaps >>

CleanUpConnection(c) ==
  /\ conn[c] # "none" /\ ~open[c] /\ stage[c] = "idle"
  /\ conn' = [ conn EXCEPT ![c] = "none" ]
  /\ known' = known \ {c}
  /\ message' = [ message EXCEPT ![c] = Request("Hello") ]
  /\ UNCHANGED << settings, lock, tool, signing, open, stage, draft, reply, mishaps >>

--------------------------------------------------------------------------------
\* AuthorizedService and TrustyService.

\* assert_right may ask the user, and the user may refuse.
AssertRight(c) ==
  /\ stage[c] = "authorize"
  /\ \/ GoesOn(c, IF message[c].type = "SetProxyState" THEN "lock" ELSE "get") /\ Smooth
     \/ Answers(c, Error) /\ Mishap
  /\ UNCHANGED << settings, lock, tool, signing, link >>

GetVersionFallsThrough(c) ==
  /\ stage[c] = "get" /\ message[c].type = "GetToolVersion"
  /\ Answers(c, StateReply(StateOf(stored)))
  /\ UNCHANGED << settings, lock, tool, signing, link, mishaps >>

GetCurrentVersion(c) ==
  /\ stage[c] = "get" /\ message[c].type = "GetToolVersion"
  /\ Answers(c, VersionReply)
  /\ UNCHANGED << settings, lock, tool, signing, link, mishaps >>

\* get_http_proxy_state reads what is stored, without the lock.  There may be
\* no primary service, or one with no proxies to speak of.
GetHttpProxyState(c) ==
  /\ stage[c] = "get" /\ message[c].type = "GetProxyState"
  /\ \/ Answers(c, StateReply(StateOf(stored))) /\ Smooth
     \/ Answers(c, Error) /\ Mishap
     \/ Answers(c, StateReply(Disabled)) /\ Mishap
  /\ UNCHANGED << settings, lock, tool, signing, link >>

\* set_http_proxy_state: PreferencesLocker waits for the lock, or throws.
LockWithoutWaiting(c) ==
  /\ stage[c] = "lock"
  /\ \/ /\ lock' = c
        /\ GoesOn(c, "edit") /\ Smooth
     \/ UNCHANGED lock /\ Answers(c, Error) /\ Mishap
  /\ UNCHANGED << settings, tool, signing, link >>

Lock(c) ==
  /\ stage[c] = "lock"
  /\ \/ /\ lock = NoConnection /\ lock' = c
        /\ GoesOn(c, "edit") /\ Smooth
     \/ UNCHANGED lock /\ Answers(c, Error) /\ Mishap
  /\ UNCHANGED << settings, tool, signing, link >>

\* The dictionary is copied and edited.  Without a proxy-enabled primary service
\* there is nothing to update; without a primary service it throws.
EditAndLeaveLocked(c) ==
  /\ stage[c] = "edit"
  /\ \/ /\ draft' = [ draft EXCEPT ![c] = Edited(stored, message[c].state) ]
        /\ stage' = [ stage EXCEPT ![c] = "commit" ]
        /\ UNCHANGED << message, reply, lock >> /\ Smooth
     \/ GoesOn(c, "unlock") /\ UNCHANGED lock /\ Mishap
     \/ Answers(c, Error) /\ UNCHANGED lock /\ Mishap
  /\ UNCHANGED << settings, tool, signing, link >>

EditWhatIsInForce(c) ==
  /\ stage[c] = "edit"
  /\ \/ /\ draft' = [ draft EXCEPT ![c] = Edited(applied, message[c].state) ]
        /\ stage' = [ stage EXCEPT ![c] = "commit" ]
        /\ UNCHANGED << message, reply, lock >> /\ Smooth
     \/ GoesOn(c, "unlock") /\ UNCHANGED lock /\ Mishap
     \/ Answers(c, Error) /\ lock' = NoConnection /\ Mishap
  /\ UNCHANGED << settings, tool, signing, link >>

EditConfiguration(c) ==
  /\ stage[c] = "edit"
  /\ \/ /\ draft' = [ draft EXCEPT ![c] = Edited(stored, message[c].state) ]
        /\ stage' = [ stage EXCEPT ![c] = "commit" ]
        /\ UNCHANGED << message, reply, lock >> /\ Smooth
     \/ GoesOn(c, "unlock") /\ UNCHANGED lock /\ Mishap
     \/ Answers(c, Error) /\ lock' = NoConnection /\ Mishap
  /\ UNCHANGED << settings, tool, signing, link >>

\* A commit that fails is logged.
CommitChanges(c) ==
  /\ stage[c] = "commit"
  /\ \/ stored' = draft[c] /\ Smooth
     \/ UNCHANGED stored /\ Mishap
  /\ draft' = [ draft EXCEPT ![c] = NoDictionary ]   \* it ends with its scope
  /\ stage' = [ stage EXCEPT ![c] = "apply" ]
  /\ UNCHANGED << applied, lock, tool, signing, link, message, reply >>

\* So is an application that fails; it is tried whatever became of the commit.
ApplyChanges(c) ==
  /\ stage[c] = "apply"
  /\ \/ applied' = stored /\ Smooth
     \/ UNCHANGED applied /\ Mishap
  /\ GoesOn(c, "unlock")
  /\ UNCHANGED << stored, lock, tool, signing, link >>

\* unlock() may throw, and the lock then goes with the SCPreferencesRef.
UnlockForgotten(c) ==
  /\ stage[c] = "unlock"
  /\ UNCHANGED lock
  /\ \/ Answers(c, Reply("SetProxyState")) /\ Smooth
     \/ Answers(c, Error) /\ Mishap
  /\ UNCHANGED << settings, tool, signing, link >>

Unlock(c) ==
  /\ stage[c] = "unlock"
  /\ lock' = NoConnection
  /\ \/ Answers(c, Reply("SetProxyState")) /\ Smooth
     \/ Answers(c, Error) /\ Mishap
  /\ UNCHANGED << settings, tool, signing, link >>

--------------------------------------------------------------------------------
\* What happens to the helper, and beside it.

\* The process ends: its connections are interrupted, and with it go
\* m_connections and the lock.  launchd starts it anew at the next message.
HelperEnds ==
  /\ conn' = [ c \in Connections |-> IF open[c] THEN "new" ELSE "none" ]
  /\ known' = {}
  /\ lock' = NoConnection
  /\ stage' = [ c \in Connections |-> "idle" ]
  /\ reply' = [ c \in Connections |->
                IF open[c] /\ stage[c] # "idle" THEN Error ELSE reply[c] ]
  /\ message' = [ c \in Connections |-> IF open[c] THEN message[c] ELSE Request("Hello") ]
  /\ draft' = [ c \in Connections |-> NoDictionary ]
  /\ UNCHANGED << settings, signing, open >>

HelperCrashes == HelperEnds /\ Mishap /\ UNCHANGED tool

\* SMJobBless puts the current helper in the place of what is there.
Install == HelperEnds /\ tool' = "current" /\ Smooth

\* System Settings, which take the lock as well.
SomeoneElseChanges ==
  /\ lock = NoConnection
  /\ \E d \in Dictionaries : stored' = d /\ applied' = d
  /\ Mishap
  /\ UNCHANGED << lock, tool, signing, link, handling >>

\* Something goes wrong that the helper has no part in.
ElsewhereFails == Mishap /\ UNCHANGED helper

Serves(c) == \/ NoService(c) \/ Accept(c) \/ Drop(c) \/ Greet(c) \/ Refuse(c)
             \/ Dispatch(c) \/ Lost(c) \/ CleanUpConnection(c)
             \/ AssertRight(c) \/ GetCurrentVersion(c) \/ GetHttpProxyState(c)
             \/ Lock(c) \/ EditConfiguration(c) \/ CommitChanges(c)
             \/ ApplyChanges(c) \/ Unlock(c)

Client(c) == \/ Connect(c)
             \/ \E m \in Messages : Ask(c, m)

HelperNext == \/ \E c \in Connections : Serves(c) \/ Client(c)
              \/ \E S \in SUBSET Connections : HangUp(S)
              \/ HelperCrashes \/ Install \/ SomeoneElseChanges \/ ElsewhereFails

HelperSpec == HelperInit /\ [][HelperNext]_helperVars

--------------------------------------------------------------------------------
\* What the helper has to get right, whoever its clients are.

HelperTypeOK ==
  /\ stored \in Dictionaries /\ applied \in Dictionaries
  /\ lock \in Connections \cup {NoConnection}
  /\ tool \in Tools
  /\ signing \in {"requirement", "earlier"}
  /\ open \in [Connections -> BOOLEAN]
  /\ conn \in [Connections -> {"none", "new", "served", "dropped"}]
  /\ known \subseteq Connections
  /\ stage \in [Connections -> Stages]
  /\ message \in [Connections -> Messages]
  /\ draft \in [Connections -> Dictionaries]
  /\ reply \in [Connections -> Replies]
  /\ mishaps \in 0 .. MaxMishaps

\* However a handler leaves set_http_proxy_state, by its end, by an exception or
\* with the process, it does not leave the lock of the preferences behind, and
\* no two handlers are ever between lock and unlock (PreferencesLocker).
LockedWhileEditing ==
  \A c \in Connections : stage[c] \in Locking <=> lock = c

\* A commit writes the copy some steps after it was made: nothing that was
\* stored meanwhile, by another client or by System Settings, is lost by it.
NoLostUpdate ==
  \A c \in Connections :
    stage[c] = "commit" => draft[c] = Edited(stored, message[c].state)

\* m_connections has an entry only for a connection that is being served: the
\* finalizer, a crash and a refused Hello leave none behind.  Its keys are
\* m_nextId++ and never used twice, so an entry that stayed would keep an
\* AuthorizedService, with the user's rights, for as long as the helper runs.
RecordsOfTheLiving == \A c \in known : conn[c] = "served"

\* A handler gets to a service only for a connection that said Hello.
ServedAfterHello ==
  \A c \in Connections : stage[c] \notin {"idle", "sent"} => c \in known

\* send_message waits for its answer without a timeout: as long as it has none,
\* some handler still has its message, and what it gets is one that its check of
\* the type does not refuse ("nope"), never that of an earlier message.
AnswersFit ==
  \A c \in Connections :
    /\ reply[c] # NoReply => /\ open[c] /\ stage[c] = "idle"
                             /\ reply[c].type \in {message[c].type, "Error"}
    /\ open[c] /\ stage[c] = "idle" => reply[c] # NoReply

\* A successful answer to GetToolVersion is an 'Ack' (IMessage.h:75-77).
VersionIsAcknowledged ==
  \A c \in Connections :
    message[c].type = "GetToolVersion" /\ reply[c] \notin {NoReply, Error} =>
      reply[c].type = "Ack"

\* A connection that was turned down as "NOT VALID" (XpcServer.cpp:203) is one
\* whose signature is not valid; there are only valid ones here.
ValidClientsAreServed == \A c \in Connections : conn[c] # "dropped"

--------------------------------------------------------------------------------
\* The abstract helper.

NoRequest == [ enabled |-> FALSE ]

Undecided == {"sent", "authorize", "lock", "edit", "commit"}
Asked == [ c \in Connections |->
             IF message[c].type = "SetProxyState" /\ stage[c] \in Undecided
             THEN message[c].state ELSE NoRequest ]

Atomic == INSTANCE AtomicSettings WITH
            Clients <- Connections, Requests <- ProxyStates, Values <- Dictionaries,
            Change <- Edited, value <- stored, asked <- Asked,
            interventions <- mishaps

ImplementsAtomicSettings == Atomic!Spec

================================================================================
